------------------------- MODULE EntryRestartProofs -------------------------
(***************************************************************************)
(* Proofs about EntryRestart, for every set of switches, any entry left by *)
(* an old version, and any number of crashes, failures and saves.          *)
(***************************************************************************)
EXTENDS EntryRestart, TLAPS

-----------------------------------------------------------------------------
(* Saves. *)

\* A save asked for joins at the end of the queue.
Appended(cache, waiter, s) ==
  /\ saves' \in Seq(Save)
  /\ DOMAIN saves \subseteq Nat
  /\ \E n \in Nat :
       /\ DOMAIN saves' = DOMAIN saves \cup {n}
       /\ \A i \in DOMAIN saves : i < n /\ saves'[i] = saves[i]
       /\ saves'[n].by = waiter
       /\ saves'[n].switch = s
       /\ saves'[n].data = cache

\* A save asked for is appended, with the whole cache as its payload.
LEMMA AskSaveAppends ==
  ASSUME TypeOK, NEW cache \in SUBSET Switch, NEW waiter \in Waiter,
         NEW s \in Switch, AskSave(cache, waiter, s)
  PROVE  Appended(cache, waiter, s)
<1>1. [by |-> waiter, switch |-> s, data |-> cache] \in Save
  BY DEF Save
<1>2. saves \in Seq(Save) /\ Len(saves) \in Nat
  BY DEF TypeOK
<1>3. saves' = Append(saves, [by |-> waiter, switch |-> s, data |-> cache])
  BY DEF AskSave
<1>4. /\ saves' \in Seq(Save)
      /\ DOMAIN saves' = 1 .. Len(saves) + 1
      /\ \A i \in DOMAIN saves : saves'[i] = saves[i]
      /\ saves'[Len(saves) + 1] = [by |-> waiter, switch |-> s, data |-> cache]
  BY <1>1, <1>2, <1>3
<1>5. DOMAIN saves = 1 .. Len(saves)
  BY <1>2
<1>6. QED
  BY <1>2, <1>4, <1>5 DEF Appended

\* The oldest save ends and the others move up.
LEMMA SaveEnds ==
  ASSUME TypeOK, saves # <<>>, saves' = Tail(saves)
  PROVE  /\ Head(saves) = saves[1] /\ 1 \in DOMAIN saves
         /\ saves[1].by \in Waiter /\ saves[1].switch \in Switch
         /\ saves[1].data \subseteq Switch
         /\ saves' \in Seq(Save)
         /\ DOMAIN saves \subseteq Nat \ {0} /\ DOMAIN saves' \subseteq Nat
         /\ \A i \in DOMAIN saves' : i + 1 \in DOMAIN saves /\ saves'[i] = saves[i + 1]
         /\ \A i \in DOMAIN saves \ {1} : \E j \in DOMAIN saves' : i = j + 1
<1>1. saves \in Seq(Save) /\ Len(saves) \in Nat /\ Len(saves) > 0
  BY DEF TypeOK
<1>2. saves[1] \in Save /\ Head(saves) = saves[1]
  BY <1>1
<1>3. /\ saves' \in Seq(Save)
      /\ DOMAIN saves' = 1 .. Len(saves) - 1
      /\ \A i \in DOMAIN saves' : saves'[i] = saves[i + 1]
  BY <1>1
<1>4. DOMAIN saves = 1 .. Len(saves)
  BY <1>1
<1>5. ASSUME NEW i \in DOMAIN saves \ {1}
      PROVE  \E j \in DOMAIN saves' : i = j + 1
  <2>1. i - 1 \in DOMAIN saves'
    BY <1>1, <1>3, <1>4
  <2>2. QED
    BY <1>4, <2>1
<1>6. QED
  BY <1>1, <1>2, <1>3, <1>4, <1>5 DEF Save

-----------------------------------------------------------------------------
(* The invariant. *)

\* It holds of a new entry and of every entry an old version left.
LEMMA InitIInv == Init => IInv
<1> SUFFICES ASSUME Init PROVE IInv
  OBVIOUS
<1>1. saves = <<>> /\ saves \in Seq(Save) /\ DOMAIN saves = {}
  BY DEF Init
<1>2. TypeOK
  <2>1. version \in 1..2 /\ file \subseteq Switch /\ subentries \subseteq Switch
    BY DEF Init
  <2>2. stored \in [version : 1..2, subentries : SUBSET Switch]
    BY <2>1 DEF Init
  <2>3. QED
    BY <1>1, <2>1, <2>2 DEF Init, TypeOK, Phase
<1>3. QuietBeforeSetup /\ EntriesAgree
  BY DEF Init, QuietBeforeSetup, EntriesAgree
<1>4. KeptEverywhere
  BY <1>1 DEF Init, KeptEverywhere, Kept, HasRuntime, Failed
<1>5. SavesInOrder
  BY <1>1 DEF Init, SavesInOrder, Removals, Wizards, HasRuntime, Failed
<1>6. FileFollowsCache
  BY <1>1 DEF Init, FileFollowsCache, HasRuntime, Failed
<1>7. RemovalsBind
  BY DEF Init, RemovalsBind, Away, HasListener
<1>8. QED
  BY <1>2, <1>3, <1>4, <1>5, <1>6, <1>7 DEF IInv

\* Every step keeps it.
LEMMA StepIInv == IInv /\ [Next]_vars => IInv'
<1> SUFFICES ASSUME IInv, [Next]_vars PROVE IInv'
  OBVIOUS
<1>1. ASSUME async_load PROVE IInv'
  <2>1. TypeOK'
    BY <1>1 DEF IInv, async_load, TypeOK, Phase, entry, store, setup, history
  <2>2. QuietBeforeSetup'
    BY <1>1 DEF IInv, async_load, TypeOK, QuietBeforeSetup, HasRuntime, Failed, entry,
       store, setup, history
  <2>3. EntriesAgree'
    BY <1>1 DEF IInv, async_load, TypeOK, QuietBeforeSetup, EntriesAgree,
       KeptEverywhere, entry, store, setup, history
  <2>4. KeptEverywhere'
    BY <1>1 DEF IInv, async_load, TypeOK, QuietBeforeSetup, EntriesAgree,
       KeptEverywhere, SavesInOrder, Removals, Wizards, Kept, HasRuntime, Failed, entry,
       store, setup, history
  <2>5. SavesInOrder'
    BY <1>1 DEF IInv, async_load, TypeOK, QuietBeforeSetup, KeptEverywhere,
       SavesInOrder, Removals, Wizards, Kept, HasRuntime, Failed, entry, store, setup,
       history
  <2>6. FileFollowsCache'
    BY <1>1 DEF IInv, async_load, TypeOK, QuietBeforeSetup, SavesInOrder,
       FileFollowsCache, Removals, HasRuntime, Failed, entry, store, setup, history
  <2>7. RemovalsBind'
    BY <1>1 DEF IInv, async_load, TypeOK, QuietBeforeSetup, KeptEverywhere,
       RemovalsBind, Away, HasListener, HasRuntime, Failed, entry, store, setup, history
  <2>8. QED
    BY <2>1, <2>2, <2>3, <2>4, <2>5, <2>6, <2>7 DEF IInv
<1>2. ASSUME async_migrate_entry PROVE IInv'
  <2>1. TypeOK'
    BY <1>2 DEF IInv, async_migrate_entry, TypeOK, Phase, entry, store, setup, history
  <2>2. QuietBeforeSetup'
    BY <1>2 DEF IInv, async_migrate_entry, TypeOK, QuietBeforeSetup, HasRuntime, Failed,
       entry, store, setup, history
  <2>3. EntriesAgree'
    BY <1>2 DEF IInv, async_migrate_entry, TypeOK, QuietBeforeSetup, EntriesAgree,
       KeptEverywhere, entry, store, setup, history
  <2>4. KeptEverywhere'
    BY <1>2 DEF IInv, async_migrate_entry, TypeOK, QuietBeforeSetup, EntriesAgree,
       KeptEverywhere, SavesInOrder, Removals, Wizards, Kept, HasRuntime, Failed, entry,
       store, setup, history
  <2>5. SavesInOrder'
    BY <1>2 DEF IInv, async_migrate_entry, TypeOK, QuietBeforeSetup,
       KeptEverywhere, SavesInOrder, Removals, Wizards, Kept, HasRuntime, Failed, entry,
       store, setup, history
  <2>6. FileFollowsCache'
    BY <1>2 DEF IInv, async_migrate_entry, TypeOK, QuietBeforeSetup, SavesInOrder,
       FileFollowsCache, Removals, HasRuntime, Failed, entry, store, setup, history
  <2>7. RemovalsBind'
    BY <1>2 DEF IInv, async_migrate_entry, TypeOK, QuietBeforeSetup,
       KeptEverywhere, RemovalsBind, Away, HasListener, HasRuntime, Failed, entry, store,
       setup, history
  <2>8. QED
    BY <2>1, <2>2, <2>3, <2>4, <2>5, <2>6, <2>7 DEF IInv
<1>3. ASSUME LoadFails PROVE IInv'
  <2>1. TypeOK'
    BY <1>3 DEF IInv, LoadFails, TypeOK, Phase, entry, store, setup, history
  <2>2. QuietBeforeSetup'
    BY <1>3 DEF IInv, LoadFails, TypeOK, QuietBeforeSetup, HasRuntime, Failed, entry,
       store, setup, history
  <2>3. EntriesAgree'
    BY <1>3 DEF IInv, LoadFails, TypeOK, QuietBeforeSetup, EntriesAgree,
       KeptEverywhere, entry, store, setup, history
  <2>4. KeptEverywhere'
    BY <1>3 DEF IInv, LoadFails, TypeOK, QuietBeforeSetup, EntriesAgree,
       KeptEverywhere, SavesInOrder, Removals, Wizards, Kept, HasRuntime, Failed, entry,
       store, setup, history
  <2>5. SavesInOrder'
    BY <1>3 DEF IInv, LoadFails, TypeOK, QuietBeforeSetup, KeptEverywhere,
       SavesInOrder, Removals, Wizards, Kept, HasRuntime, Failed, entry, store, setup,
       history
  <2>6. FileFollowsCache'
    BY <1>3 DEF IInv, LoadFails, TypeOK, QuietBeforeSetup, SavesInOrder,
       FileFollowsCache, Removals, HasRuntime, Failed, entry, store, setup, history
  <2>7. RemovalsBind'
    BY <1>3 DEF IInv, LoadFails, TypeOK, QuietBeforeSetup, KeptEverywhere,
       RemovalsBind, Away, HasListener, HasRuntime, Failed, entry, store, setup, history
  <2>8. QED
    BY <2>1, <2>2, <2>3, <2>4, <2>5, <2>6, <2>7 DEF IInv
<1>4. ASSUME FindStale PROVE IInv'
  <2>1. TypeOK'
    BY <1>4 DEF IInv, FindStale, TypeOK, Phase, entry, store, setup, history
  <2>2. QuietBeforeSetup'
    BY <1>4 DEF IInv, FindStale, TypeOK, QuietBeforeSetup, HasRuntime, Failed, entry,
       store, setup, history
  <2>3. EntriesAgree'
    BY <1>4 DEF IInv, FindStale, TypeOK, QuietBeforeSetup, EntriesAgree,
       KeptEverywhere, entry, store, setup, history
  <2>4. KeptEverywhere'
    BY <1>4 DEF IInv, FindStale, TypeOK, QuietBeforeSetup, EntriesAgree,
       KeptEverywhere, SavesInOrder, Removals, Wizards, Kept, HasRuntime, Failed, entry,
       store, setup, history
  <2>5. SavesInOrder'
    BY <1>4 DEF IInv, FindStale, TypeOK, QuietBeforeSetup, KeptEverywhere,
       SavesInOrder, Removals, Wizards, Kept, HasRuntime, Failed, entry, store, setup,
       history
  <2>6. FileFollowsCache'
    BY <1>4 DEF IInv, FindStale, TypeOK, QuietBeforeSetup, SavesInOrder,
       FileFollowsCache, Removals, HasRuntime, Failed, entry, store, setup, history
  <2>7. RemovalsBind'
    BY <1>4 DEF IInv, FindStale, TypeOK, QuietBeforeSetup, KeptEverywhere,
       RemovalsBind, Away, HasListener, HasRuntime, Failed, entry, store, setup, history
  <2>8. QED
    BY <2>1, <2>2, <2>3, <2>4, <2>5, <2>6, <2>7 DEF IInv
<1>5. ASSUME NEW s \in Switch, RemoveStale(s) PROVE IInv'
  <2>0. Appended(records \ {s}, "removal", s)
    <3>1. AskSave(records \ {s}, "removal", s)
      BY <1>5 DEF RemoveStale
    <3>2. records \ {s} \in SUBSET Switch /\ "removal" \in Waiter
      BY <1>5 DEF TypeOK, Waiter, IInv
    <3>3. TypeOK
      BY DEF IInv
    <3>4. QED
      BY <3>1, <3>2, <3>3, AskSaveAppends
  <2>1. TypeOK'
    BY <1>5, <2>0 DEF IInv, RemoveStale, AskSave, TypeOK, Phase, entry, store,
       setup, history, Appended
  <2>2. QuietBeforeSetup'
    BY <1>5, <2>0 DEF IInv, RemoveStale, AskSave, TypeOK, QuietBeforeSetup,
       HasRuntime, Failed, entry, store, setup, history, Appended
  <2>3. EntriesAgree'
    BY <1>5, <2>0 DEF IInv, RemoveStale, AskSave, TypeOK, QuietBeforeSetup,
       EntriesAgree, KeptEverywhere, entry, store, setup, history, Appended
  <2>4. KeptEverywhere'
    BY <1>5, <2>0 DEF IInv, RemoveStale, AskSave, TypeOK, QuietBeforeSetup,
       EntriesAgree, KeptEverywhere, SavesInOrder, Removals, Wizards, Kept,
       HasRuntime, Failed, entry, store, setup, history, Appended
  <2>5. SavesInOrder'
    BY <1>5, <2>0 DEF IInv, RemoveStale, AskSave, TypeOK, QuietBeforeSetup,
       KeptEverywhere, SavesInOrder, Removals, Wizards, Kept, HasRuntime, Failed, entry,
       store, setup, history, Appended
  <2>6. FileFollowsCache'
    BY <1>5, <2>0 DEF IInv, RemoveStale, AskSave, TypeOK, QuietBeforeSetup,
       SavesInOrder, FileFollowsCache, Removals, HasRuntime, Failed, entry, store, setup,
       history, Appended
  <2>7. RemovalsBind'
    BY <1>5, <2>0 DEF IInv, RemoveStale, AskSave, TypeOK, QuietBeforeSetup,
       KeptEverywhere, RemovalsBind, Away, HasListener, HasRuntime, Failed, entry, store,
       setup, history, Appended
  <2>8. QED
    BY <2>1, <2>2, <2>3, <2>4, <2>5, <2>6, <2>7 DEF IInv
<1>6. ASSUME FinishSetup PROVE IInv'
  <2>1. TypeOK'
    BY <1>6 DEF IInv, FinishSetup, TypeOK, Phase, entry, store, setup, history
  <2>2. QuietBeforeSetup'
    BY <1>6 DEF IInv, FinishSetup, TypeOK, QuietBeforeSetup, HasRuntime, Failed, entry,
       store, setup, history
  <2>3. EntriesAgree'
    BY <1>6 DEF IInv, FinishSetup, TypeOK, QuietBeforeSetup, EntriesAgree,
       KeptEverywhere, entry, store, setup, history
  <2>4. KeptEverywhere'
    BY <1>6 DEF IInv, FinishSetup, TypeOK, QuietBeforeSetup, EntriesAgree,
       KeptEverywhere, SavesInOrder, Removals, Wizards, Kept, HasRuntime, Failed, entry,
       store, setup, history
  <2>5. SavesInOrder'
    BY <1>6 DEF IInv, FinishSetup, TypeOK, QuietBeforeSetup, KeptEverywhere,
       SavesInOrder, Removals, Wizards, Kept, HasRuntime, Failed, entry, store, setup,
       history
  <2>6. FileFollowsCache'
    BY <1>6 DEF IInv, FinishSetup, TypeOK, QuietBeforeSetup, SavesInOrder,
       FileFollowsCache, Removals, HasRuntime, Failed, entry, store, setup, history
  <2>7. RemovalsBind'
    BY <1>6 DEF IInv, FinishSetup, TypeOK, QuietBeforeSetup, KeptEverywhere,
       RemovalsBind, Away, HasListener, HasRuntime, Failed, entry, store, setup, history
  <2>8. QED
    BY <2>1, <2>2, <2>3, <2>4, <2>5, <2>6, <2>7 DEF IInv
<1>7. ASSUME NEW s \in Switch, _async_step_key_entry(s) PROVE IInv'
  <2>0. Appended(records \cup {s}, "wizard", s)
    <3>1. AskSave(records \cup {s}, "wizard", s)
      BY <1>7 DEF _async_step_key_entry
    <3>2. records \cup {s} \in SUBSET Switch /\ "wizard" \in Waiter
      BY <1>7 DEF TypeOK, Waiter, IInv
    <3>3. TypeOK
      BY DEF IInv
    <3>4. QED
      BY <3>1, <3>2, <3>3, AskSaveAppends
  <2>1. TypeOK'
    BY <1>7, <2>0 DEF IInv, _async_step_key_entry, AskSave, TypeOK, Phase, entry,
       store, setup, history, Appended
  <2>2. QuietBeforeSetup'
    BY <1>7, <2>0 DEF IInv, _async_step_key_entry, AskSave, TypeOK,
       QuietBeforeSetup, HasRuntime, Failed, entry, store, setup, history, Appended
  <2>3. EntriesAgree'
    BY <1>7, <2>0 DEF IInv, _async_step_key_entry, AskSave, TypeOK,
       QuietBeforeSetup, EntriesAgree, KeptEverywhere, entry, store, setup,
       history, Appended
  <2>4. KeptEverywhere'
    BY <1>7, <2>0 DEF IInv, _async_step_key_entry, AskSave, TypeOK,
       QuietBeforeSetup, EntriesAgree, KeptEverywhere, SavesInOrder, Removals,
       Wizards, Kept, HasRuntime, Failed, entry, store, setup, history, Appended
  <2>5. SavesInOrder'
    BY <1>7, <2>0 DEF IInv, _async_step_key_entry, AskSave, TypeOK,
       QuietBeforeSetup, KeptEverywhere, SavesInOrder, Removals, Wizards, Kept,
       HasRuntime, Failed, entry, store, setup, history, Appended
  <2>6. FileFollowsCache'
    BY <1>7, <2>0 DEF IInv, _async_step_key_entry, AskSave, TypeOK,
       QuietBeforeSetup, SavesInOrder, FileFollowsCache, Removals, HasRuntime, Failed,
       entry, store, setup, history, Appended
  <2>7. RemovalsBind'
    BY <1>7, <2>0 DEF IInv, _async_step_key_entry, AskSave, TypeOK,
       QuietBeforeSetup, KeptEverywhere, RemovalsBind, Away, HasListener,
       HasRuntime, Failed, entry, store, setup, history, Appended
  <2>8. QED
    BY <2>1, <2>2, <2>3, <2>4, <2>5, <2>6, <2>7 DEF IInv
<1>8. ASSUME NEW s \in Switch, SaveCounter(s) PROVE IInv'
  <2>0. Appended(records, "task", s)
    <3>1. AskSave(records, "task", s)
      BY <1>8 DEF SaveCounter
    <3>2. records \in SUBSET Switch /\ "task" \in Waiter
      BY <1>8 DEF TypeOK, Waiter, IInv
    <3>3. TypeOK
      BY DEF IInv
    <3>4. QED
      BY <3>1, <3>2, <3>3, AskSaveAppends
  <2>1. TypeOK'
    BY <1>8, <2>0 DEF IInv, SaveCounter, AskSave, TypeOK, Phase, entry, store,
       setup, history, Appended
  <2>2. QuietBeforeSetup'
    BY <1>8, <2>0 DEF IInv, SaveCounter, AskSave, TypeOK, QuietBeforeSetup,
       HasRuntime, Failed, entry, store, setup, history, Appended
  <2>3. EntriesAgree'
    BY <1>8, <2>0 DEF IInv, SaveCounter, AskSave, TypeOK, QuietBeforeSetup,
       EntriesAgree, KeptEverywhere, entry, store, setup, history, Appended
  <2>4. KeptEverywhere'
    BY <1>8, <2>0 DEF IInv, SaveCounter, AskSave, TypeOK, QuietBeforeSetup,
       EntriesAgree, KeptEverywhere, SavesInOrder, Removals, Wizards, Kept,
       HasRuntime, Failed, entry, store, setup, history, Appended
  <2>5. SavesInOrder'
    BY <1>8, <2>0 DEF IInv, SaveCounter, AskSave, TypeOK, QuietBeforeSetup,
       KeptEverywhere, SavesInOrder, Removals, Wizards, Kept, HasRuntime, Failed, entry,
       store, setup, history, Appended
  <2>6. FileFollowsCache'
    BY <1>8, <2>0 DEF IInv, SaveCounter, AskSave, TypeOK, QuietBeforeSetup,
       SavesInOrder, FileFollowsCache, Removals, HasRuntime, Failed, entry, store, setup,
       history, Appended
  <2>7. RemovalsBind'
    BY <1>8, <2>0 DEF IInv, SaveCounter, AskSave, TypeOK, QuietBeforeSetup,
       KeptEverywhere, RemovalsBind, Away, HasListener, HasRuntime, Failed, entry, store,
       setup, history, Appended
  <2>8. QED
    BY <2>1, <2>2, <2>3, <2>4, <2>5, <2>6, <2>7 DEF IInv
<1>9. ASSUME SaveDone PROVE IInv'
  <2>0. /\ Head(saves) = saves[1] /\ 1 \in DOMAIN saves
        /\ saves[1].by \in Waiter /\ saves[1].switch \in Switch
        /\ saves[1].data \subseteq Switch
        /\ saves' \in Seq(Save)
        /\ DOMAIN saves \subseteq Nat \ {0} /\ DOMAIN saves' \subseteq Nat
        /\ \A i \in DOMAIN saves' : i + 1 \in DOMAIN saves /\ saves'[i] = saves[i + 1]
        /\ \A i \in DOMAIN saves \ {1} : \E j \in DOMAIN saves' : i = j + 1
    BY <1>9, SaveEnds DEF SaveDone, IInv
  <2>1. TypeOK'
    BY <1>9, <2>0 DEF IInv, SaveDone, AddSubentry, TypeOK, Phase, entry, store,
       setup, history
  <2>2. QuietBeforeSetup'
    BY <1>9, <2>0 DEF IInv, SaveDone, AddSubentry, TypeOK, QuietBeforeSetup,
       HasRuntime, Failed, entry, store, setup, history
  <2>3. EntriesAgree'
    BY <1>9, <2>0 DEF IInv, SaveDone, AddSubentry, TypeOK, QuietBeforeSetup,
       EntriesAgree, KeptEverywhere, entry, store, setup, history
  <2>4. KeptEverywhere'
    <3>1. CASE saves[1].by = "wizard"
      <4>1. Kept' \subseteq Kept \cup {saves[1].switch}
        BY <1>9, <2>0, <3>1 DEF SaveDone, AddSubentry, Kept, entry
      <4>2. \A j \in DOMAIN saves : saves[1].switch \in saves[j].data
        BY <2>0, <3>1 DEF IInv, SavesInOrder, Wizards
      <4>3. HasRuntime => saves[1].switch \in records
        BY <2>0, <3>1 DEF IInv, SavesInOrder, Wizards
      <4>4. Kept' \subseteq saves[1].data /\ \A i \in DOMAIN saves' : Kept' \subseteq saves'[i].data
        BY <2>0, <4>1, <4>2 DEF IInv, KeptEverywhere
      <4>5. legacy \subseteq Kept
        BY <2>0 DEF IInv, EntriesAgree, QuietBeforeSetup, Kept, TypeOK
      <4>6. HasRuntime' = HasRuntime /\ records' = records /\ legacy' = legacy /\ file' = saves[1].data
        BY <1>9, <2>0, <3>1 DEF SaveDone, AddSubentry, HasRuntime, Failed, history, entry
      <4>7. Kept \subseteq saves[1].data
        BY <2>0 DEF IInv, KeptEverywhere
      <4>8. QED
        BY <4>1, <4>3, <4>4, <4>5, <4>6, <4>7 DEF IInv, KeptEverywhere
    <3>2. CASE saves[1].by # "wizard"
      BY <1>9, <2>0, <3>2 DEF IInv, SaveDone, TypeOK, QuietBeforeSetup, EntriesAgree,
         KeptEverywhere, SavesInOrder, Removals, Kept, HasRuntime, Failed, entry, history
    <3>3. QED
      BY <3>1, <3>2
  <2>5. SavesInOrder'
    BY <1>9, <2>0 DEF IInv, SaveDone, AddSubentry, TypeOK, QuietBeforeSetup,
       KeptEverywhere, SavesInOrder, Removals, Wizards, Kept, HasRuntime, Failed, entry,
       store, setup, history
  <2>6. FileFollowsCache'
    <3>1. \A j \in Removals : 1 < j =>
            \E i \in Removals' : j = i + 1 /\ saves'[i].switch = saves[j].switch
      BY <2>0 DEF Removals
    <3>2. \A i \in DOMAIN saves' : i + 1 \in DOMAIN saves /\ saves'[i].data = saves[i + 1].data
      BY <2>0
    <3>3. (HasRuntime /\ ~Failed)' => HasRuntime /\ ~Failed
      BY <1>9, <2>0 DEF SaveDone, AddSubentry, IInv, SavesInOrder, Removals,
         HasRuntime, Failed, entry
    <3>4. records' = records /\ file' = saves[1].data
      BY <1>9, <2>0 DEF SaveDone
    <3>5. HasRuntime /\ ~Failed =>
            \A s \in file' \ records : \E i \in Removals' : saves'[i].switch = s
      BY <2>0, <3>1, <3>4 DEF IInv, FileFollowsCache
    <3>6. ASSUME HasRuntime /\ ~Failed, NEW i \in DOMAIN saves', NEW s \in saves'[i].data \ records
          PROVE  \E j \in Removals' : i < j /\ saves'[j].switch = s
      <4>1. PICK j \in Removals : i + 1 < j /\ saves[j].switch = s
        BY <2>0, <3>2, <3>6 DEF IInv, FileFollowsCache
      <4>2. i \in Nat /\ 1 < j
        BY <2>0, <4>1 DEF Removals
      <4>3. PICK k \in Removals' : j = k + 1 /\ saves'[k].switch = saves[j].switch
        BY <3>1, <4>1, <4>2
      <4>4. k \in Nat
        BY <2>0 DEF Removals
      <4>5. QED
        BY <4>1, <4>2, <4>3, <4>4
    <3>7. QED
      BY <3>3, <3>4, <3>5, <3>6 DEF FileFollowsCache
  <2>7. RemovalsBind'
    <3>1. CASE saves[1].by = "wizard"
      BY <1>9, <2>0, <3>1 DEF IInv, SaveDone, AddSubentry, TypeOK, QuietBeforeSetup,
         RemovalsBind, Away, HasListener, entry, history
    <3>2. CASE saves[1].by = "removal"
      BY <1>9, <2>0, <3>2 DEF IInv, SaveDone, TypeOK, QuietBeforeSetup, SavesInOrder,
         RemovalsBind, Removals, Away, HasListener, entry, history
    <3>3. CASE saves[1].by = "task"
      BY <1>9, <2>0, <3>3 DEF IInv, SaveDone, TypeOK, QuietBeforeSetup,
         RemovalsBind, Away, HasListener, entry, history
    <3>4. QED
      BY <2>0, <3>1, <3>2, <3>3 DEF Waiter
  <2>8. QED
    BY <2>1, <2>2, <2>3, <2>4, <2>5, <2>6, <2>7 DEF IInv
<1>10. ASSUME SaveFails PROVE IInv'
  <2>0. /\ Head(saves) = saves[1] /\ 1 \in DOMAIN saves
        /\ saves[1].by \in Waiter /\ saves[1].switch \in Switch
        /\ saves[1].data \subseteq Switch
        /\ saves' \in Seq(Save)
        /\ DOMAIN saves \subseteq Nat \ {0} /\ DOMAIN saves' \subseteq Nat
        /\ \A i \in DOMAIN saves' : i + 1 \in DOMAIN saves /\ saves'[i] = saves[i + 1]
        /\ \A i \in DOMAIN saves \ {1} : \E j \in DOMAIN saves' : i = j + 1
    BY <1>10, SaveEnds DEF SaveFails, IInv
  <2>1. TypeOK'
    BY <1>10, <2>0 DEF IInv, SaveFails, TypeOK, Phase, entry, store, setup, history
  <2>2. QuietBeforeSetup'
    BY <1>10, <2>0 DEF IInv, SaveFails, TypeOK, QuietBeforeSetup, HasRuntime, Failed,
       entry, store, setup, history
  <2>3. EntriesAgree'
    BY <1>10, <2>0 DEF IInv, SaveFails, TypeOK, QuietBeforeSetup, EntriesAgree,
       KeptEverywhere, entry, store, setup, history
  <2>4. KeptEverywhere'
    BY <1>10, <2>0 DEF IInv, SaveFails, TypeOK, QuietBeforeSetup, EntriesAgree,
       KeptEverywhere, SavesInOrder, Removals, Wizards, Kept, HasRuntime, Failed, entry,
       store, setup, history
  <2>5. SavesInOrder'
    BY <1>10, <2>0 DEF IInv, SaveFails, TypeOK, QuietBeforeSetup, KeptEverywhere,
       SavesInOrder, Removals, Wizards, Kept, HasRuntime, Failed, entry, store, setup,
       history
  <2>6. FileFollowsCache'
    <3>1. \A j \in Removals : 1 < j =>
            \E i \in Removals' : j = i + 1 /\ saves'[i].switch = saves[j].switch
      BY <2>0 DEF Removals
    <3>2. \A i \in DOMAIN saves' : i + 1 \in DOMAIN saves /\ saves'[i].data = saves[i + 1].data
      BY <2>0
    <3>3. (HasRuntime /\ ~Failed)' => HasRuntime /\ ~Failed /\ saves[1].by # "removal"
      BY <1>10, <2>0 DEF SaveFails, HasRuntime, Failed, IInv, SavesInOrder, Removals
    <3>4. records' = records /\ file' = file
      BY <1>10 DEF SaveFails
    <3>5. ASSUME (HasRuntime /\ ~Failed)', NEW s \in file' \ records
          PROVE  \E i \in Removals' : saves'[i].switch = s
      <4>1. PICK j \in Removals : saves[j].switch = s
        BY <3>3, <3>4, <3>5 DEF IInv, FileFollowsCache
      <4>2. 1 < j
        BY <2>0, <3>3, <3>5 DEF Removals
      <4>3. QED
        BY <3>1, <4>1, <4>2
    <3>6. ASSUME (HasRuntime /\ ~Failed)', NEW i \in DOMAIN saves', NEW s \in saves'[i].data \ records
          PROVE  \E j \in Removals' : i < j /\ saves'[j].switch = s
      <4>1. PICK j \in Removals : i + 1 < j /\ saves[j].switch = s
        BY <2>0, <3>2, <3>3, <3>6 DEF IInv, FileFollowsCache
      <4>2. i \in Nat /\ 1 < j
        BY <2>0, <4>1 DEF Removals
      <4>3. PICK k \in Removals' : j = k + 1 /\ saves'[k].switch = saves[j].switch
        BY <3>1, <4>1, <4>2
      <4>4. k \in Nat
        BY <2>0 DEF Removals
      <4>5. QED
        BY <4>1, <4>2, <4>3, <4>4
    <3>7. QED
      BY <3>4, <3>5, <3>6 DEF FileFollowsCache
  <2>7. RemovalsBind'
    BY <1>10, <2>0 DEF IInv, SaveFails, TypeOK, QuietBeforeSetup, KeptEverywhere,
       RemovalsBind, Away, HasListener, HasRuntime, Failed, entry, store, setup, history
  <2>8. QED
    BY <2>1, <2>2, <2>3, <2>4, <2>5, <2>6, <2>7 DEF IInv
<1>11. ASSUME NEW s \in Switch, RemoveSubentry(s) PROVE IInv'
  <2>1. TypeOK'
    BY <1>11 DEF IInv, RemoveSubentry, TypeOK, Phase, entry, store, setup, history
  <2>2. QuietBeforeSetup'
    BY <1>11 DEF IInv, RemoveSubentry, TypeOK, QuietBeforeSetup, HasRuntime, Failed,
       entry, store, setup, history
  <2>3. EntriesAgree'
    BY <1>11 DEF IInv, RemoveSubentry, TypeOK, QuietBeforeSetup, EntriesAgree,
       KeptEverywhere, entry, store, setup, history
  <2>4. KeptEverywhere'
    BY <1>11 DEF IInv, RemoveSubentry, TypeOK, QuietBeforeSetup, EntriesAgree,
       KeptEverywhere, SavesInOrder, Removals, Wizards, Kept, HasRuntime, Failed, entry,
       store, setup, history
  <2>5. SavesInOrder'
    BY <1>11 DEF IInv, RemoveSubentry, TypeOK, QuietBeforeSetup, KeptEverywhere,
       SavesInOrder, Removals, Wizards, Kept, HasRuntime, Failed, entry, store, setup,
       history
  <2>6. FileFollowsCache'
    BY <1>11 DEF IInv, RemoveSubentry, TypeOK, QuietBeforeSetup, SavesInOrder,
       FileFollowsCache, Removals, HasRuntime, Failed, entry, store, setup, history
  <2>7. RemovalsBind'
    BY <1>11 DEF IInv, RemoveSubentry, TypeOK, QuietBeforeSetup, KeptEverywhere,
       RemovalsBind, Away, HasListener, HasRuntime, Failed, entry, store, setup, history
  <2>8. QED
    BY <2>1, <2>2, <2>3, <2>4, <2>5, <2>6, <2>7 DEF IInv
<1>12. ASSUME UpdateEntry PROVE IInv'
  <2>1. TypeOK'
    BY <1>12 DEF IInv, UpdateEntry, TypeOK, Phase, entry, store, setup, history
  <2>2. QuietBeforeSetup'
    BY <1>12 DEF IInv, UpdateEntry, TypeOK, QuietBeforeSetup, HasRuntime, Failed, entry,
       store, setup, history
  <2>3. EntriesAgree'
    BY <1>12 DEF IInv, UpdateEntry, TypeOK, QuietBeforeSetup, EntriesAgree,
       KeptEverywhere, entry, store, setup, history
  <2>4. KeptEverywhere'
    BY <1>12 DEF IInv, UpdateEntry, TypeOK, QuietBeforeSetup, EntriesAgree,
       KeptEverywhere, SavesInOrder, Removals, Wizards, Kept, HasRuntime, Failed, entry,
       store, setup, history
  <2>5. SavesInOrder'
    BY <1>12 DEF IInv, UpdateEntry, TypeOK, QuietBeforeSetup, KeptEverywhere,
       SavesInOrder, Removals, Wizards, Kept, HasRuntime, Failed, entry, store, setup,
       history
  <2>6. FileFollowsCache'
    BY <1>12 DEF IInv, UpdateEntry, TypeOK, QuietBeforeSetup, SavesInOrder,
       FileFollowsCache, Removals, HasRuntime, Failed, entry, store, setup, history
  <2>7. RemovalsBind'
    BY <1>12 DEF IInv, UpdateEntry, TypeOK, QuietBeforeSetup, KeptEverywhere,
       RemovalsBind, Away, HasListener, HasRuntime, Failed, entry, store, setup, history
  <2>8. QED
    BY <2>1, <2>2, <2>3, <2>4, <2>5, <2>6, <2>7 DEF IInv
<1>13. ASSUME async_unload_entry PROVE IInv'
  <2>1. TypeOK'
    BY <1>13 DEF IInv, async_unload_entry, TypeOK, Phase, entry, store, setup, history
  <2>2. QuietBeforeSetup'
    BY <1>13 DEF IInv, async_unload_entry, TypeOK, QuietBeforeSetup, HasRuntime, Failed,
       entry, store, setup, history
  <2>3. EntriesAgree'
    BY <1>13 DEF IInv, async_unload_entry, TypeOK, QuietBeforeSetup, EntriesAgree,
       KeptEverywhere, entry, store, setup, history
  <2>4. KeptEverywhere'
    BY <1>13 DEF IInv, async_unload_entry, TypeOK, QuietBeforeSetup, EntriesAgree,
       KeptEverywhere, SavesInOrder, Removals, Wizards, Kept, HasRuntime, Failed, entry,
       store, setup, history
  <2>5. SavesInOrder'
    BY <1>13 DEF IInv, async_unload_entry, TypeOK, QuietBeforeSetup,
       KeptEverywhere, SavesInOrder, Removals, Wizards, Kept, HasRuntime, Failed, entry,
       store, setup, history
  <2>6. FileFollowsCache'
    BY <1>13 DEF IInv, async_unload_entry, TypeOK, QuietBeforeSetup, SavesInOrder,
       FileFollowsCache, Removals, HasRuntime, Failed, entry, store, setup, history
  <2>7. RemovalsBind'
    BY <1>13 DEF IInv, async_unload_entry, TypeOK, QuietBeforeSetup,
       KeptEverywhere, RemovalsBind, Away, HasListener, HasRuntime, Failed, entry, store,
       setup, history
  <2>8. QED
    BY <2>1, <2>2, <2>3, <2>4, <2>5, <2>6, <2>7 DEF IInv
<1>14. ASSUME Retry PROVE IInv'
  <2>1. TypeOK'
    BY <1>14 DEF IInv, Retry, TypeOK, Phase, entry, store, setup, history
  <2>2. QuietBeforeSetup'
    BY <1>14 DEF IInv, Retry, TypeOK, QuietBeforeSetup, HasRuntime, Failed, entry, store,
       setup, history
  <2>3. EntriesAgree'
    BY <1>14 DEF IInv, Retry, TypeOK, QuietBeforeSetup, EntriesAgree,
       KeptEverywhere, entry, store, setup, history
  <2>4. KeptEverywhere'
    BY <1>14 DEF IInv, Retry, TypeOK, QuietBeforeSetup, EntriesAgree,
       KeptEverywhere, SavesInOrder, Removals, Wizards, Kept, HasRuntime, Failed, entry,
       store, setup, history
  <2>5. SavesInOrder'
    BY <1>14 DEF IInv, Retry, TypeOK, QuietBeforeSetup, KeptEverywhere,
       SavesInOrder, Removals, Wizards, Kept, HasRuntime, Failed, entry, store, setup,
       history
  <2>6. FileFollowsCache'
    BY <1>14 DEF IInv, Retry, TypeOK, QuietBeforeSetup, SavesInOrder,
       FileFollowsCache, Removals, HasRuntime, Failed, entry, store, setup, history
  <2>7. RemovalsBind'
    BY <1>14 DEF IInv, Retry, TypeOK, QuietBeforeSetup, KeptEverywhere,
       RemovalsBind, Away, HasListener, HasRuntime, Failed, entry, store, setup, history
  <2>8. QED
    BY <2>1, <2>2, <2>3, <2>4, <2>5, <2>6, <2>7 DEF IInv
<1>15. ASSUME StoreEntries PROVE IInv'
  <2>1. TypeOK'
    BY <1>15 DEF IInv, StoreEntries, TypeOK, Phase, entry, store, setup, history
  <2>2. QuietBeforeSetup'
    BY <1>15 DEF IInv, StoreEntries, TypeOK, QuietBeforeSetup, HasRuntime, Failed, entry,
       store, setup, history
  <2>3. EntriesAgree'
    BY <1>15 DEF IInv, StoreEntries, TypeOK, QuietBeforeSetup, EntriesAgree,
       KeptEverywhere, entry, store, setup, history
  <2>4. KeptEverywhere'
    BY <1>15 DEF IInv, StoreEntries, TypeOK, QuietBeforeSetup, EntriesAgree,
       KeptEverywhere, SavesInOrder, Removals, Wizards, Kept, HasRuntime, Failed, entry,
       store, setup, history
  <2>5. SavesInOrder'
    BY <1>15 DEF IInv, StoreEntries, TypeOK, QuietBeforeSetup, KeptEverywhere,
       SavesInOrder, Removals, Wizards, Kept, HasRuntime, Failed, entry, store, setup,
       history
  <2>6. FileFollowsCache'
    BY <1>15 DEF IInv, StoreEntries, TypeOK, QuietBeforeSetup, SavesInOrder,
       FileFollowsCache, Removals, HasRuntime, Failed, entry, store, setup, history
  <2>7. RemovalsBind'
    BY <1>15 DEF IInv, StoreEntries, TypeOK, QuietBeforeSetup, KeptEverywhere,
       RemovalsBind, Away, HasListener, HasRuntime, Failed, entry, store, setup, history
  <2>8. QED
    BY <2>1, <2>2, <2>3, <2>4, <2>5, <2>6, <2>7 DEF IInv
<1>16. ASSUME Crash PROVE IInv'
  <2>1. TypeOK'
    <3>1. stored.version \in 1..2 /\ stored.subentries \subseteq Switch
      BY DEF IInv, TypeOK
    <3>2. <<>> \in Seq(Save)
      OBVIOUS
    <3>3. QED
      BY <1>16, <3>1, <3>2 DEF IInv, Crash, TypeOK, Phase
  <2>2. QuietBeforeSetup'
    BY <1>16 DEF IInv, Crash, TypeOK, QuietBeforeSetup, HasRuntime, Failed, entry, store,
       setup, history
  <2>3. EntriesAgree'
    BY <1>16 DEF IInv, Crash, TypeOK, QuietBeforeSetup, EntriesAgree,
       KeptEverywhere, entry, store, setup, history
  <2>4. KeptEverywhere'
    BY <1>16 DEF IInv, Crash, TypeOK, QuietBeforeSetup, EntriesAgree,
       KeptEverywhere, SavesInOrder, Removals, Wizards, Kept, HasRuntime, Failed, entry,
       store, setup, history
  <2>5. SavesInOrder'
    BY <1>16 DEF IInv, Crash, TypeOK, QuietBeforeSetup, KeptEverywhere,
       SavesInOrder, Removals, Wizards, Kept, HasRuntime, Failed, entry, store, setup,
       history
  <2>6. FileFollowsCache'
    BY <1>16 DEF IInv, Crash, TypeOK, QuietBeforeSetup, SavesInOrder,
       FileFollowsCache, Removals, HasRuntime, Failed, entry, store, setup, history
  <2>7. RemovalsBind'
    BY <1>16 DEF IInv, Crash, TypeOK, QuietBeforeSetup, KeptEverywhere,
       RemovalsBind, Away, HasListener, HasRuntime, Failed, entry, store, setup, history
  <2>8. QED
    BY <2>1, <2>2, <2>3, <2>4, <2>5, <2>6, <2>7 DEF IInv
<1>17. CASE UNCHANGED vars
  BY <1>17 DEF IInv, TypeOK, QuietBeforeSetup, EntriesAgree, KeptEverywhere,
     SavesInOrder,
     FileFollowsCache, RemovalsBind, Kept, Away, Removals, Wizards, HasRuntime, Failed,
     HasListener, vars, entry, store, setup, history
<1>18. QED
  BY <1>1, <1>2, <1>3, <1>4, <1>5, <1>6, <1>7, <1>8, <1>9, <1>10, <1>11, <1>12,
     <1>13, <1>14, <1>15, <1>16, <1>17 DEF Next, Setup, User, Fault

-----------------------------------------------------------------------------
(* What follows from it. *)

\* The invariant holds whatever crashes, fails and is tried again.
THEOREM Inductive == Spec => []IInv
<1>1. QED
  BY InitIInv, StepIInv, PTL DEF Spec

\* Key and counter of a switch survive until the user removes it.
THEOREM SwitchesSurvive == Spec => []NothingLost
<1>1. IInv => NothingLost
  <2> SUFFICES ASSUME IInv PROVE NothingLost
    OBVIOUS
  <2>1. (subentries \cup stored.subentries) \ removed \subseteq Kept
    BY DEF IInv, EntriesAgree, Kept
  <2>2. phase = "loaded" => Kept \subseteq records
    BY DEF IInv, KeptEverywhere, HasRuntime, Failed
  <2>3. QED
    BY <2>1, <2>2 DEF IInv, KeptEverywhere, NothingLost, Kept
<1>2. QED
  BY <1>1, Inductive, PTL

\* Nothing but the user brings back a switch the user removed.
THEOREM RemovalIsFinal == Spec => []RemovedStaysGone
<1>1. IInv => RemovedStaysGone
  <2> SUFFICES ASSUME IInv, NEW s \in Gone
               PROVE  /\ s \notin subentries
                      /\ Settled /\ s \notin missed => s \notin records \cup file
    BY DEF RemovedStaysGone
  <2>1. s \notin subentries
    BY DEF IInv, RemovalsBind, Gone
  <2>2. ASSUME Settled, s \notin missed PROVE s \notin records
    BY <2>1, <2>2 DEF IInv, RemovalsBind, Away, Gone, Settled, HasListener
  <2>3. ASSUME Settled PROVE file \subseteq records
    BY <2>3 DEF IInv, FileFollowsCache, SavesInOrder, Settled, HasRuntime, Failed
  <2>4. QED
    BY <2>1, <2>2, <2>3
<1>2. QED
  BY <1>1, Inductive, PTL
=============================================================================
