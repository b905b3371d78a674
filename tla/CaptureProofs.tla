--------------------------- MODULE CaptureProofs ---------------------------
(***************************************************************************)
(* Proofs about CaptureSessions, for any devices, any number of required   *)
(* observations and any number of records, and about DetectFlow, for any   *)
(* number of wizards: whatever they do, the captures are those of          *)
(* CaptureSessions.                                                        *)
(***************************************************************************)
EXTENDS DetectFlow, TLAPS

\* The parts of the invariant that speak of phases, timers and callbacks, and
\* those that speak of what was heard.
Control ==
  /\ OneCaptureAtATime
  /\ TimersMatchPhases
  /\ HandlesMatch
  /\ HearsAllOnlyForCensus
  /\ UnloadedIsIdle

Data ==
  /\ NothingKept
  /\ EvidenceOfDesignated
  /\ CandidatesAreHeard
  /\ DesignatedIsSole

\* The invariant is made of its types, its control part and its data part.
LEMMA Parts == IInv <=> TypeOK /\ Control /\ Data
BY DEF IInv, Control, Data

\* The values the captures are reset to are well-formed.
LEMMA ResetTypes ==
  /\ Nobody \in Observations
  /\ Inert \in Designation
  /\ NoCollector \in Evidence
  /\ NoCensus \in Census
<1>1. Nobody \in Observations
  BY MinimumAssumption DEF Nobody, Observations
<1>2. QED
  BY <1>1, RecordsAssumption
     DEF Inert, NoCollector, NoCensus, Designation, Evidence, Census, Handle

\* Cancelling a capture leaves it well-formed and not running.
LEMMA CancelTypes ==
  ASSUME TypeOK
  PROVE  /\ CancelledEvidence \in Evidence
         /\ CancelledEvidence.state # "collecting"
         /\ CancelledCensus \in Census
         /\ CancelledCensus.state \notin Phase
         /\ ~CancelledCensus.unregister \/ CancelledCensus = census
<1>1. CancelledEvidence \in Evidence /\ CancelledEvidence.state # "collecting"
  <2>1. 0 \in 0..MAX_EVIDENCE_RECORDS /\ NoTimer \in Handle
    BY RecordsAssumption DEF Handle
  <2>2. evidence \in Evidence
    BY DEF TypeOK
  <2>3. CASE evidence.state = "none"
    BY <2>2, <2>3 DEF CancelledEvidence
  <2>4. CASE evidence.state # "none"
    BY <2>1, <2>2, <2>4 DEF CancelledEvidence, Evidence
  <2>5. QED
    BY <2>3, <2>4
<1>2. /\ CancelledCensus \in Census
      /\ CancelledCensus.state \notin Phase
      /\ ~CancelledCensus.unregister \/ CancelledCensus = census
  BY DEF TypeOK, CancelledCensus, Census, Handle, Phase
<1>3. QED
  BY <1>1, <1>2

\* One more observation keeps a count of observations one.
LEMMA ObservedType ==
  ASSUME NEW counts \in Observations, NEW d \in Device
  PROVE  Observed(counts, d) \in Observations
BY MinimumAssumption DEF Observed, Observations

\* Arming and cancelling timers leaves a count for each callback.
LEMMA TimersType ==
  ASSUME pending \in [Callback -> Nat], NEW cancelled, NEW armed,
         Timers(cancelled, armed)
  PROVE  pending' \in [Callback -> Nat]
BY DEF Timers

\* Cancelling timers that are expected and arming timers that are not keeps
\* every timer due exactly when it is expected.
LEMMA TimersStep ==
  ASSUME TypeOK, TimersMatchPhases, NEW cancelled, NEW armed,
         Timers(cancelled, armed),
         armed \subseteq Callback,
         armed \cap (Expected \ cancelled) = {},
         Expected' = (Expected \ cancelled) \cup armed
  PROVE  TimersMatchPhases'
<1> SUFFICES ASSUME NEW c \in Callback
             PROVE  pending'[c] = IF c \in Expected' THEN 1 ELSE 0
  BY DEF TimersMatchPhases
<1>1. pending[c] = IF c \in Expected THEN 1 ELSE 0
  BY DEF TimersMatchPhases
<1>2. pending'[c] = (IF c \in cancelled /\ pending[c] > 0 THEN pending[c] - 1 ELSE pending[c])
                      + (IF c \in armed THEN 1 ELSE 0)
  BY DEF Timers
<1>3. QED
  BY <1>1, <1>2

\* With matching handles, the expected timers are the handles held.
LEMMA ExpectedHandles ==
  ASSUME HandlesMatch
  PROVE  Expected = {designation.timer, evidence.timer, census.timer} \ {NoTimer}
BY DEF HandlesMatch, Expected

\* A capture that is not running holds no timer, one that is holds a callback,
\* and it is then the only one expected.
LEMMA IdleHandles ==
  ASSUME HandlesMatch
  PROVE  /\ IF Designating THEN designation.timer \in Callback
                           ELSE designation.timer = NoTimer
         /\ IF Collecting THEN evidence.timer \in Callback
                          ELSE evidence.timer = NoTimer
         /\ IF Listening THEN census.timer \in Callback
                         ELSE census.timer = NoTimer
         /\ NoTimer \notin Callback
BY DEF HandlesMatch, DesignationTimer, EvidenceTimer, CensusTimer, Callback, NoTimer,
       Designating, Collecting, Listening, Window, Phase

\* Since the captures exclude one another, at most one timer is expected.
LEMMA ExpectedOne ==
  ASSUME HandlesMatch, OneCaptureAtATime
  PROVE  /\ Designating => Expected = {designation.timer}
         /\ Collecting => Expected = {evidence.timer}
         /\ Listening => Expected = {census.timer}
         /\ ~Designating /\ ~Collecting /\ ~Listening => Expected = {}
BY ExpectedHandles, IdleHandles DEF OneCaptureAtATime

\* A callback that is due finds the phase it was armed for.
LEMMA DuePhase ==
  ASSUME TimersMatchPhases
  PROVE  /\ Due("_finish_designation_baseline") => designation.state = "baseline"
         /\ Due("_finish_designation_capture") => designation.state = "press"
         /\ Due("_finish_designation_confirmation") => designation.state = "confirming"
         /\ Due("_finish_window") => evidence.state = "collecting"
         /\ Due("_finish_baseline") => census.state = "baseline"
         /\ Due("_finish_press") => census.state = "press"
<1>1. \A c \in Callback : Due(c) => c \in Expected
  BY DEF TimersMatchPhases, Due
<1>2. QED
  BY <1>1 DEF Callback, Expected, NoTimer, DesignationTimer, EvidenceTimer, CensusTimer

-----------------------------------------------------------------------------
(* The control part: phases, timers and the unfiltered callback. *)

\* Nothing runs at first.
LEMMA ControlInit == Init => Control
<1> SUFFICES ASSUME Init PROVE Control
  OBVIOUS
<1>1. /\ designation.state = "inert" /\ designation.timer = NoTimer
      /\ evidence.state = "none" /\ evidence.timer = NoTimer
      /\ census.state = "none" /\ census.timer = NoTimer /\ ~census.unregister
      /\ registered = 0 /\ loaded = TRUE
      /\ pending = [c \in Callback |-> 0]
  BY DEF Init, Inert, NoCollector, NoCensus
<1>2. ~Designating /\ ~Collecting /\ ~Listening
  BY <1>1 DEF Designating, Collecting, Listening, Window, Phase
<1>3. HandlesMatch
  BY <1>1 DEF HandlesMatch, DesignationTimer, EvidenceTimer, CensusTimer
<1>4. TimersMatchPhases
  BY <1>1, <1>3, ExpectedHandles DEF TimersMatchPhases
<1>5. QED
  BY <1>1, <1>2, <1>3, <1>4
     DEF Control, OneCaptureAtATime, HearsAllOnlyForCensus, UnloadedIsIdle

\* Starting a designation stops everything else, its predecessor included.
LEMMA StartDesignationControl ==
  ASSUME TypeOK, Control, start_designation_capture
  PROVE  Control'
<1> USE DEF Control
<1>1. /\ designation'.state = "baseline"
      /\ designation'.timer = "_finish_designation_baseline"
      /\ evidence' = IF Collecting THEN CancelledEvidence ELSE evidence
      /\ census' = IF Listening THEN CancelledCensus ELSE census
      /\ loaded'
  BY DEF start_designation_capture, Inert
<1>2. OneCaptureAtATime' /\ HandlesMatch' /\ UnloadedIsIdle'
  BY <1>1, CancelTypes
     DEF OneCaptureAtATime, HandlesMatch, UnloadedIsIdle, Designating, Collecting,
         Listening, Window, Phase, DesignationTimer, EvidenceTimer, CensusTimer,
         CancelledEvidence, CancelledCensus, TypeOK, Evidence, Census
<1>3. TimersMatchPhases'
  <2>1. Expected = {designation.timer, evidence.timer, census.timer} \ {NoTimer}
    BY ExpectedHandles
  <2>2. Expected' = {"_finish_designation_baseline"}
    <3>1. evidence'.timer = NoTimer /\ census'.timer = NoTimer
      BY <1>1, <1>2, CancelTypes
         DEF HandlesMatch, EvidenceTimer, CensusTimer, Collecting, Listening, Phase
    <3>2. QED
      BY <1>1, <1>2, <3>1 DEF Expected, HandlesMatch, NoTimer
  <2> DEFINE cancelled == {designation.timer}
                            \cup (IF Collecting THEN {evidence.timer} ELSE {})
                            \cup (IF Listening THEN {census.timer} ELSE {})
  <2>3. Expected \subseteq cancelled
    BY <2>1, IdleHandles
  <2>4. Timers(cancelled, {"_finish_designation_baseline"})
    BY DEF start_designation_capture
  <2>5. QED
    BY <2>2, <2>3, <2>4, TimersStep DEF Callback
<1>4. HearsAllOnlyForCensus'
  <2>1. CASE Listening
    <3>1. census.unregister /\ registered = 1
      BY <2>1 DEF HearsAllOnlyForCensus
    <3>2. registered' = 0
      BY <2>1, <3>1 DEF start_designation_capture, Unregistered
    <3>3. ~census'.unregister /\ ~Listening'
      BY <1>1, <2>1 DEF CancelledCensus, Listening, Phase
    <3>4. QED
      BY <3>2, <3>3 DEF HearsAllOnlyForCensus
  <2>2. CASE ~Listening
    BY <1>1, <2>2 DEF HearsAllOnlyForCensus, start_designation_capture, Listening
  <2>3. QED
    BY <2>1, <2>2
<1>5. QED
  BY <1>2, <1>3, <1>4

\* Starting evidence capture stops everything else that runs.
LEMMA StartEvidenceControl ==
  ASSUME TypeOK, Control, start_evidence_capture
  PROVE  Control'
<1> USE DEF Control
<1>1. /\ designation' = IF Designating THEN Inert ELSE designation
      /\ evidence'.state = "collecting"
      /\ evidence'.timer = "_finish_window"
      /\ census' = IF Listening THEN CancelledCensus ELSE census
      /\ loaded'
  BY DEF start_evidence_capture
<1>2. OneCaptureAtATime' /\ HandlesMatch' /\ UnloadedIsIdle'
  <2>1. ~Designating' /\ Collecting' /\ ~Listening'
    BY <1>1, CancelTypes DEF Designating, Collecting, Listening, Window, Inert
  <2>2. designation'.timer = DesignationTimer(designation'.state)
    BY <1>1 DEF HandlesMatch, DesignationTimer, Inert
  <2>3. census'.timer = CensusTimer(census'.state)
    BY <1>1 DEF HandlesMatch, CensusTimer, CancelledCensus, Listening, Phase
  <2>4. QED
    BY <1>1, <2>1, <2>2, <2>3
       DEF OneCaptureAtATime, HandlesMatch, UnloadedIsIdle, EvidenceTimer
<1>3. TimersMatchPhases'
  <2> DEFINE cancelled == {evidence.timer}
                            \cup (IF Designating THEN {designation.timer} ELSE {})
                            \cup (IF Listening THEN {census.timer} ELSE {})
  <2>1. Expected \subseteq cancelled
    BY ExpectedHandles, IdleHandles
  <2>2. Expected' = {"_finish_window"}
    <3>1. designation'.timer = NoTimer /\ census'.timer = NoTimer
      BY <1>1, <1>2, CancelTypes
         DEF HandlesMatch, DesignationTimer, CensusTimer, Designating, Listening,
             Window, Phase, Inert
    <3>2. QED
      BY <1>1, <1>2, <3>1 DEF Expected, HandlesMatch, NoTimer
  <2>3. Timers(cancelled, {"_finish_window"})
    BY DEF start_evidence_capture
  <2>4. QED
    BY <2>1, <2>2, <2>3, TimersStep DEF Callback
<1>4. HearsAllOnlyForCensus'
  <2>1. CASE Listening
    <3>1. census.unregister /\ registered = 1
      BY <2>1 DEF HearsAllOnlyForCensus
    <3>2. registered' = 0
      BY <2>1, <3>1 DEF start_evidence_capture, Unregistered
    <3>3. ~census'.unregister /\ ~Listening'
      BY <1>1, <2>1 DEF CancelledCensus, Listening, Phase
    <3>4. QED
      BY <3>2, <3>3 DEF HearsAllOnlyForCensus
  <2>2. CASE ~Listening
    BY <1>1, <2>2 DEF HearsAllOnlyForCensus, start_evidence_capture, Listening
  <2>3. QED
    BY <2>1, <2>2
<1>5. QED
  BY <1>2, <1>3, <1>4

\* Starting a census stops everything else, its predecessor included, and
\* leaves one unfiltered callback.
LEMMA StartCensusControl ==
  ASSUME TypeOK, Control, start_radio_census
  PROVE  Control'
<1> USE DEF Control
<1>1. /\ designation' = IF Designating THEN Inert ELSE designation
      /\ evidence' = IF Collecting THEN CancelledEvidence ELSE evidence
      /\ census' = [state |-> "baseline", timer |-> "_finish_baseline", unregister |-> TRUE]
      /\ registered' = Unregistered + 1
      /\ loaded'
  BY DEF start_radio_census
<1>2. OneCaptureAtATime' /\ HandlesMatch' /\ UnloadedIsIdle'
  <2>1. ~Designating' /\ ~Collecting' /\ Listening'
    BY <1>1, CancelTypes DEF Designating, Collecting, Listening, Window, Phase, Inert
  <2>2. designation'.timer = DesignationTimer(designation'.state)
    BY <1>1 DEF HandlesMatch, DesignationTimer, Inert
  <2>3. evidence'.timer = EvidenceTimer(evidence'.state)
    BY <1>1 DEF HandlesMatch, EvidenceTimer, CancelledEvidence, Collecting, TypeOK, Evidence
  <2>4. QED
    BY <1>1, <2>1, <2>2, <2>3
       DEF OneCaptureAtATime, HandlesMatch, UnloadedIsIdle, CensusTimer
<1>3. TimersMatchPhases'
  <2> DEFINE cancelled == {census.timer}
                            \cup (IF Designating THEN {designation.timer} ELSE {})
                            \cup (IF Collecting THEN {evidence.timer} ELSE {})
  <2>1. Expected \subseteq cancelled
    BY ExpectedHandles, IdleHandles
  <2>2. Expected' = {"_finish_baseline"}
    <3>1. designation'.timer = NoTimer /\ evidence'.timer = NoTimer
      BY <1>1, <1>2, CancelTypes
         DEF HandlesMatch, DesignationTimer, EvidenceTimer, Designating, Collecting,
             Window, Inert
    <3>2. QED
      BY <1>1, <1>2, <3>1 DEF Expected, HandlesMatch, NoTimer
  <2>3. Timers(cancelled, {"_finish_baseline"})
    BY DEF start_radio_census
  <2>4. QED
    BY <2>1, <2>2, <2>3, TimersStep DEF Callback
<1>4. HearsAllOnlyForCensus'
  <2>1. Unregistered = 0
    BY DEF HearsAllOnlyForCensus, Unregistered
  <2>2. QED
    BY <1>1, <2>1 DEF HearsAllOnlyForCensus, Listening, Phase
<1>5. QED
  BY <1>2, <1>3, <1>4

\* A step that ends or moves on the designation leaves the other captures alone.
LEMMA DesignationControl ==
  ASSUME TypeOK, Control, Designating, UNCHANGED <<evidence, census, registered, loaded>>,
         designation'.timer = DesignationTimer(designation'.state),
         NEW armed, armed = {designation'.timer} \ {NoTimer},
         armed \subseteq Callback,
         Timers({designation.timer}, armed)
  PROVE  Control'
<1> USE DEF Control
<1>1. ~Collecting /\ ~Listening /\ loaded
  BY DEF OneCaptureAtATime, UnloadedIsIdle
<1>2. ~Collecting' /\ ~Listening'
  BY <1>1 DEF Collecting, Listening
<1>3. OneCaptureAtATime' /\ HandlesMatch' /\ HearsAllOnlyForCensus' /\ UnloadedIsIdle'
  BY <1>1, <1>2 DEF OneCaptureAtATime, HandlesMatch, HearsAllOnlyForCensus, UnloadedIsIdle
<1>4. TimersMatchPhases'
  <2>1. Expected = {designation.timer}
    BY ExpectedOne
  <2>2. evidence'.timer = NoTimer /\ census'.timer = NoTimer
    BY <1>1, IdleHandles
  <2>3. Expected' = armed
    BY <1>3, <2>2 DEF Expected, HandlesMatch
  <2>4. QED
    BY <2>1, <2>3, TimersStep
<1>5. QED
  BY <1>3, <1>4

\* The same of a step that ends or moves on the evidence window.
LEMMA EvidenceControl ==
  ASSUME TypeOK, Control, Collecting,
         UNCHANGED <<designation, census, registered, loaded>>,
         evidence'.state # "collecting",
         evidence'.timer = NoTimer,
         Timers({evidence.timer}, {})
  PROVE  Control'
<1> USE DEF Control
<1>1. ~Designating /\ ~Listening /\ loaded
  BY DEF OneCaptureAtATime, UnloadedIsIdle
<1>2. ~Designating' /\ ~Listening' /\ ~Collecting'
  BY <1>1 DEF Designating, Listening, Collecting
<1>3. OneCaptureAtATime' /\ HandlesMatch' /\ HearsAllOnlyForCensus' /\ UnloadedIsIdle'
  BY <1>1, <1>2
     DEF OneCaptureAtATime, HandlesMatch, HearsAllOnlyForCensus, UnloadedIsIdle,
         EvidenceTimer, Collecting
<1>4. TimersMatchPhases'
  <2>1. Expected = {evidence.timer}
    BY ExpectedOne
  <2>2. designation'.timer = NoTimer /\ census'.timer = NoTimer
    BY <1>1, IdleHandles
  <2>3. Expected' = {}
    BY <1>3, <2>2 DEF Expected, HandlesMatch
  <2>4. QED
    BY <2>1, <2>3, TimersStep
<1>5. QED
  BY <1>3, <1>4

\* A step of the census's own timers.
LEMMA CensusControl ==
  ASSUME TypeOK, Control, _finish_baseline \/ _finish_press
  PROVE  Control'
<1> USE DEF Control
<1>1. Listening /\ UNCHANGED <<designation, evidence, loaded>>
  BY DuePhase DEF _finish_baseline, _finish_press, Listening, Phase
<1>2. ~Designating /\ ~Collecting /\ loaded /\ registered = 1 /\ census.unregister
  BY <1>1 DEF OneCaptureAtATime, UnloadedIsIdle, HearsAllOnlyForCensus
<1>3. ~Designating' /\ ~Collecting'
  BY <1>1, <1>2 DEF Designating, Collecting
<1>4. designation'.timer = NoTimer /\ evidence'.timer = NoTimer
  BY <1>1, <1>2, IdleHandles
<1>5. Expected = {census.timer}
  BY <1>1, ExpectedOne
<1>6. CASE _finish_baseline
  <2>1. /\ census.timer = "_finish_baseline"
        /\ census'.timer = "_finish_press" /\ census'.state = "press"
        /\ census'.unregister = census.unregister
        /\ UNCHANGED registered
        /\ Timers({"_finish_baseline"}, {"_finish_press"})
    BY <1>6, DuePhase DEF _finish_baseline, HandlesMatch, CensusTimer, TypeOK, Census
  <2>2. Listening'
    BY <2>1 DEF Listening, Phase
  <2>3. OneCaptureAtATime' /\ HandlesMatch' /\ HearsAllOnlyForCensus' /\ UnloadedIsIdle'
    BY <1>1, <1>2, <1>3, <2>1, <2>2
       DEF OneCaptureAtATime, HandlesMatch, HearsAllOnlyForCensus, UnloadedIsIdle,
           CensusTimer
  <2>4. Expected' = {"_finish_press"}
    BY <1>4, <2>1, <2>3 DEF Expected, HandlesMatch, NoTimer
  <2>5. TimersMatchPhases'
    BY <1>5, <2>1, <2>4, TimersStep DEF Callback
  <2>6. QED
    BY <2>3, <2>5
<1>7. CASE _finish_press
  <2>1. /\ census.timer = "_finish_press"
        /\ census' = [state |-> "complete", timer |-> NoTimer, unregister |-> FALSE]
        /\ registered' = 0
        /\ Timers({"_finish_press"}, {})
    BY <1>2, <1>7, DuePhase DEF _finish_press, HandlesMatch, CensusTimer, Unregistered
  <2>2. ~Listening'
    BY <2>1 DEF Listening, Phase
  <2>3. OneCaptureAtATime' /\ HandlesMatch' /\ HearsAllOnlyForCensus' /\ UnloadedIsIdle'
    BY <1>1, <1>2, <1>3, <2>1, <2>2
       DEF OneCaptureAtATime, HandlesMatch, HearsAllOnlyForCensus, UnloadedIsIdle,
           CensusTimer
  <2>4. Expected' = {}
    BY <1>4, <2>1, <2>3 DEF Expected, HandlesMatch
  <2>5. TimersMatchPhases'
    BY <1>5, <2>1, <2>4, TimersStep
  <2>6. QED
    BY <2>3, <2>5
<1>8. QED
  BY <1>6, <1>7

\* Unloading stops whatever runs.
LEMMA UnloadControl ==
  ASSUME TypeOK, Control, async_unload_entry
  PROVE  Control'
<1> USE DEF Control
<1>1. /\ designation' = Inert
      /\ evidence' = CancelledEvidence
      /\ census' = CancelledCensus
      /\ registered' = Unregistered
  BY DEF async_unload_entry
<1>2. ~Designating' /\ ~Collecting' /\ ~Listening'
  BY <1>1, CancelTypes DEF Designating, Collecting, Listening, Window, Inert
<1>3. designation'.timer = NoTimer /\ evidence'.timer = NoTimer /\ census'.timer = NoTimer
  BY <1>1 DEF Inert, CancelledEvidence, CancelledCensus, HandlesMatch, EvidenceTimer,
              CensusTimer, TypeOK, Evidence, Census
<1>4. OneCaptureAtATime' /\ HandlesMatch' /\ UnloadedIsIdle'
  BY <1>2, <1>3
     DEF OneCaptureAtATime, HandlesMatch, UnloadedIsIdle, Designating, Collecting,
         Listening, Window, Phase, DesignationTimer, EvidenceTimer, CensusTimer
<1>5. HearsAllOnlyForCensus'
  <2>1. registered' = 0
    BY <1>1 DEF HearsAllOnlyForCensus, Unregistered
  <2>2. ~census'.unregister
    BY <1>1 DEF CancelledCensus, HearsAllOnlyForCensus, Listening, Phase
  <2>3. QED
    BY <1>2, <2>1, <2>2 DEF HearsAllOnlyForCensus
<1>6. TimersMatchPhases'
  <2>1. Expected \subseteq {designation.timer, evidence.timer, census.timer}
    BY ExpectedHandles
  <2>2. Expected' = {}
    BY <1>3, <1>4 DEF Expected, HandlesMatch
  <2>3. Timers({designation.timer, evidence.timer, census.timer}, {})
    BY DEF async_unload_entry
  <2>4. QED
    BY <2>1, <2>2, <2>3, TimersStep
<1>7. QED
  BY <1>4, <1>5, <1>6

\* A fresh runtime runs nothing, and nothing is left of the one before it.
LEMMA SetupControl ==
  ASSUME TypeOK, Control, async_setup_entry
  PROVE  Control'
<1> USE DEF Control
<1>1. ~Designating /\ ~Collecting /\ ~Listening
  BY DEF async_setup_entry, UnloadedIsIdle
<1>2. /\ designation' = Inert
      /\ evidence' = NoCollector
      /\ census' = NoCensus
      /\ loaded' = TRUE
      /\ UNCHANGED <<pending, registered>>
  BY DEF async_setup_entry
<1>3. ~Designating' /\ ~Collecting' /\ ~Listening'
  BY <1>2 DEF Designating, Collecting, Listening, Window, Phase, Inert, NoCollector,
              NoCensus
<1>4. OneCaptureAtATime' /\ HandlesMatch' /\ UnloadedIsIdle'
  BY <1>2, <1>3
     DEF OneCaptureAtATime, HandlesMatch, UnloadedIsIdle, DesignationTimer,
         EvidenceTimer, CensusTimer, Inert, NoCollector, NoCensus
<1>5. HearsAllOnlyForCensus'
  BY <1>1, <1>2, <1>3 DEF HearsAllOnlyForCensus, NoCensus
<1>6. TimersMatchPhases'
  <2>1. Expected = {}
    BY <1>1, ExpectedOne
  <2>2. Expected' = {}
    BY <1>2, <1>4 DEF Expected, HandlesMatch, Inert, NoCollector, NoCensus
  <2>3. QED
    BY <1>2, <2>1, <2>2 DEF TimersMatchPhases
<1>7. QED
  BY <1>4, <1>5, <1>6

\* A designation timer, or a wizard that closes, ends or moves on the designation.
LEMMA DesignationStepControl ==
  ASSUME TypeOK, Control,
         \/ async_remove
         \/ _finish_designation_baseline
         \/ _finish_designation_capture
         \/ _finish_designation_confirmation
  PROVE  Control'
<1> TimersMatchPhases /\ HandlesMatch
  BY DEF Control
<1>1. CASE async_remove
  <2>1. designation'.timer = NoTimer /\ designation'.state = "inert"
    BY <1>1 DEF async_remove, Inert
  <2>2. designation'.timer = DesignationTimer(designation'.state)
    BY <2>1 DEF DesignationTimer
  <2>3. Timers({designation.timer}, {})
    BY <1>1 DEF async_remove
  <2>4. QED
    BY <1>1, <2>1, <2>2, <2>3, DesignationControl DEF async_remove
<1>2. CASE _finish_designation_baseline
  <2>1. designation.state = "baseline" /\ Designating
    BY <1>2, DuePhase DEF _finish_designation_baseline, Designating, Window
  <2>2. designation.timer = "_finish_designation_baseline"
    BY <2>1 DEF HandlesMatch, DesignationTimer
  <2>3. CASE designation.candidates = Nobody
    <3>1. /\ designation'.state = "press"
          /\ designation'.timer = "_finish_designation_capture"
          /\ Timers({designation.timer}, {"_finish_designation_capture"})
      BY <1>2, <2>1, <2>2, <2>3 DEF _finish_designation_baseline, TypeOK, Designation
    <3>2. designation'.timer = DesignationTimer(designation'.state)
      BY <3>1 DEF DesignationTimer
    <3>3. {"_finish_designation_capture"} \subseteq Callback
          /\ {"_finish_designation_capture"} = {designation'.timer} \ {NoTimer}
      BY <3>1 DEF Callback, NoTimer
    <3>4. QED
      BY <1>2, <2>1, <3>1, <3>2, <3>3, DesignationControl DEF _finish_designation_baseline
  <2>4. CASE designation.candidates # Nobody
    <3>1. designation' = Inert /\ Timers({designation.timer}, {})
      BY <1>2, <2>2, <2>4 DEF _finish_designation_baseline
    <3>2. designation'.timer = DesignationTimer(designation'.state)
          /\ {} = {designation'.timer} \ {NoTimer}
      BY <3>1 DEF DesignationTimer, Inert
    <3>3. QED
      BY <1>2, <2>1, <3>1, <3>2, DesignationControl DEF _finish_designation_baseline
  <2>5. QED
    BY <2>3, <2>4
<1>3. CASE _finish_designation_capture
  <2>1. designation.state = "press" /\ Designating
    BY <1>3, DuePhase DEF _finish_designation_capture, Designating, Window
  <2>2. designation.timer = "_finish_designation_capture"
    BY <2>1 DEF HandlesMatch, DesignationTimer
  <2>3. CASE designation' = Inert /\ Timers({"_finish_designation_capture"}, {})
    <3>1. designation'.timer = DesignationTimer(designation'.state)
          /\ {} = {designation'.timer} \ {NoTimer}
      BY <2>3 DEF DesignationTimer, Inert
    <3>2. QED
      BY <1>3, <2>1, <2>2, <2>3, <3>1, DesignationControl DEF _finish_designation_capture
  <2>4. ASSUME NEW d \in Device,
               designation' = [designation EXCEPT !.state = "confirming",
                                 !.candidates = Nobody,
                                 !.first_window_identifier = d,
                                 !.timer = "_finish_designation_confirmation"],
               Timers({"_finish_designation_capture"}, {"_finish_designation_confirmation"})
        PROVE  Control'
    <3>1. /\ designation'.state = "confirming"
          /\ designation'.timer = "_finish_designation_confirmation"
      BY <2>4 DEF TypeOK, Designation
    <3>2. designation'.timer = DesignationTimer(designation'.state)
      BY <3>1 DEF DesignationTimer
    <3>3. {"_finish_designation_confirmation"} \subseteq Callback
          /\ {"_finish_designation_confirmation"} = {designation'.timer} \ {NoTimer}
      BY <3>1 DEF Callback, NoTimer
    <3>4. QED
      BY <1>3, <2>1, <2>2, <2>4, <3>2, <3>3, DesignationControl
         DEF _finish_designation_capture
  <2>5. QED
    BY <1>3, <2>3, <2>4 DEF _finish_designation_capture
<1>4. CASE _finish_designation_confirmation
  <2>1. designation.state = "confirming" /\ Designating
    BY <1>4, DuePhase DEF _finish_designation_confirmation, Designating, Window
  <2>2. designation.timer = "_finish_designation_confirmation"
    BY <2>1 DEF HandlesMatch, DesignationTimer
  <2>3. designation'.timer = NoTimer /\ designation'.state = "inert"
    BY <1>4 DEF _finish_designation_confirmation, Inert
  <2>4. designation'.timer = DesignationTimer(designation'.state)
    BY <2>3 DEF DesignationTimer
  <2>5. Timers({designation.timer}, {})
    BY <1>4, <2>2 DEF _finish_designation_confirmation
  <2>6. QED
    BY <1>4, <2>1, <2>3, <2>4, <2>5, DesignationControl DEF _finish_designation_confirmation
<1>5. QED
  BY <1>1, <1>2, <1>3, <1>4

\* An advertisement moves no phase but that of an evidence window it ends.
LEMMA ObservationControl ==
  ASSUME TypeOK, Control, NEW d \in Device, NEW kind,
         record_advertisement_observation(d, kind)
  PROVE  Control'
<1>1. UNCHANGED <<census, registered, loaded>>
  BY DEF record_advertisement_observation
<1>2. /\ designation'.state = designation.state
      /\ designation'.timer = designation.timer
      /\ ~Designating => UNCHANGED designation
  BY DEF record_advertisement_observation, record_designation_candidate, TypeOK, Designation
<1>3. CASE evidence'.state = evidence.state /\ evidence'.timer = evidence.timer
           /\ UNCHANGED pending
  BY <1>1, <1>2, <1>3
     DEF Control, OneCaptureAtATime, TimersMatchPhases, HandlesMatch, HearsAllOnlyForCensus,
         UnloadedIsIdle, Expected, Designating, Collecting, Listening
<1>4. CASE /\ Collecting
           /\ evidence'.state # "collecting"
           /\ evidence'.timer = NoTimer
           /\ Timers({evidence.timer}, {})
  <2>1. ~Designating
    BY <1>4 DEF Control, OneCaptureAtATime
  <2>2. QED
    BY <1>1, <1>2, <1>4, <2>1, EvidenceControl
<1>5. \/ UNCHANGED <<evidence, pending>>
      \/ /\ Collecting
         /\ evidence' = [evidence EXCEPT !.state = "aborted", !.records = 0,
                                         !.timer = NoTimer]
         /\ Timers({evidence.timer}, {})
      \/ evidence' = [evidence EXCEPT !.records = @ + 1] /\ UNCHANGED pending
      \/ /\ Collecting
         /\ evidence' = [evidence EXCEPT !.state = "complete", !.timer = NoTimer,
                                         !.records = MAX_EVIDENCE_RECORDS]
         /\ Timers({evidence.timer}, {})
  BY DEF record_advertisement_observation, record_callback
<1>6. evidence \in Evidence
  BY DEF TypeOK
<1>7. QED
  BY <1>3, <1>4, <1>5, <1>6 DEF Evidence

\* The end of the evidence window.
LEMMA WindowControl ==
  ASSUME TypeOK, Control, _finish_window
  PROVE  Control'
<1>1. Collecting /\ evidence.timer = "_finish_window"
  BY DuePhase DEF Control, _finish_window, Collecting, HandlesMatch, EvidenceTimer
<1>2. evidence'.state # "collecting" /\ evidence'.timer = NoTimer
  BY DEF _finish_window, TypeOK, Evidence
<1>3. QED
  BY <1>1, <1>2, EvidenceControl DEF _finish_window

\* Every step keeps the control part.
LEMMA ControlStep == TypeOK /\ Control /\ [Next]_vars => Control'
<1>1. TypeOK /\ Control /\ UNCHANGED vars => Control'
  BY DEF vars, Control, OneCaptureAtATime, TimersMatchPhases, HandlesMatch,
         HearsAllOnlyForCensus, UnloadedIsIdle, Expected, Designating, Collecting, Listening
<1>2. QED
  BY <1>1, StartDesignationControl, StartEvidenceControl, StartCensusControl,
     DesignationStepControl, ObservationControl, WindowControl, CensusControl,
     UnloadControl, SetupControl
     DEF Next, Timer

-----------------------------------------------------------------------------
(* Types. *)

\* What a designation can become is well-formed.
LEMMA DesignationType ==
  ASSUME TypeOK, [Next]_vars
  PROVE  designation' \in Designation
<1>1. designation \in Designation /\ Inert \in Designation /\ Nobody \in Observations
  BY ResetTypes DEF TypeOK
<1>2. CASE designation' = designation \/ designation' = Inert
  BY <1>1, <1>2
<1>3. CASE start_designation_capture
  BY <1>1, <1>3 DEF start_designation_capture, Designation, Handle, Callback, Window
<1>4. ASSUME NEW d \in Device, record_designation_candidate(d)
      PROVE  designation' \in Designation
  <2>1. Observed(designation.candidates, d) \in Observations
    BY <1>1, ObservedType DEF Designation
  <2>2. QED
    BY <1>1, <1>4, <2>1 DEF record_designation_candidate, Designation
<1>5. CASE _finish_designation_baseline
  BY <1>1, <1>5 DEF _finish_designation_baseline, Designation, Handle, Callback, Window
<1>6. CASE _finish_designation_capture
  BY <1>1, <1>6 DEF _finish_designation_capture, Designation, Handle, Callback, Window
<1>7. CASE _finish_designation_confirmation
  BY <1>1, <1>7 DEF _finish_designation_confirmation, Designation
<1>8. QED
  BY <1>2, <1>3, <1>4, <1>5, <1>6, <1>7
     DEF Next, Timer, vars, start_evidence_capture, start_radio_census, async_remove,
         record_advertisement_observation, _finish_window, _finish_baseline,
         _finish_press, async_unload_entry, async_setup_entry

\* What a collector can become is well-formed.
LEMMA EvidenceType ==
  ASSUME TypeOK, Data, designation' \in Designation, [Next]_vars
  PROVE  evidence' \in Evidence
<1>1. evidence \in Evidence /\ NoCollector \in Evidence /\ CancelledEvidence \in Evidence
  BY ResetTypes, CancelTypes DEF TypeOK
<1>2. CASE evidence' = evidence \/ evidence' = NoCollector \/ evidence' = CancelledEvidence
  BY <1>1, <1>2
<1>3. CASE start_evidence_capture
  <2>1. 0 \in 0..MAX_EVIDENCE_RECORDS
    BY RecordsAssumption
  <2>2. designation'.designated_identifier \in Device \cup {None}
    BY DEF Designation
  <2>3. QED
    BY <1>3, <2>1, <2>2 DEF start_evidence_capture, Evidence, Handle, Callback
<1>4. ASSUME NEW d \in Device, NEW kind, record_callback(d, kind)
      PROVE  evidence' \in Evidence
  <2>1. /\ 0 \in 0..MAX_EVIDENCE_RECORDS
        /\ MAX_EVIDENCE_RECORDS \in 0..MAX_EVIDENCE_RECORDS
        /\ NoTimer \in Handle
    BY RecordsAssumption DEF Handle
  <2>2. evidence.records + 1 < MAX_EVIDENCE_RECORDS
          => evidence.records + 1 \in 0..MAX_EVIDENCE_RECORDS
    BY <1>1, RecordsAssumption DEF Evidence
  <2>3. QED
    BY <1>1, <1>4, <2>1, <2>2 DEF record_callback, Evidence
<1>5. CASE _finish_window
  BY <1>1, <1>5 DEF _finish_window, Evidence, Handle
<1>6. QED
  BY <1>2, <1>3, <1>4, <1>5
     DEF Next, Timer, vars, start_designation_capture, start_radio_census, async_remove,
         record_advertisement_observation, _finish_designation_baseline,
         _finish_designation_capture, _finish_designation_confirmation,
         _finish_baseline, _finish_press, async_unload_entry, async_setup_entry

\* What a census can become is well-formed, and so is the count of callbacks.
LEMMA CensusType ==
  ASSUME TypeOK, Control, [Next]_vars
  PROVE  census' \in Census /\ registered' \in Nat
<1>1. census' \in Census
  <2>1. census \in Census /\ NoCensus \in Census /\ CancelledCensus \in Census
    BY ResetTypes, CancelTypes DEF TypeOK
  <2>2. CASE census' = census \/ census' = NoCensus \/ census' = CancelledCensus
    BY <2>1, <2>2
  <2>3. CASE start_radio_census
    BY <2>3 DEF start_radio_census, Census, Handle, Callback, Phase
  <2>4. CASE _finish_baseline
    BY <2>1, <2>4 DEF _finish_baseline, Census, Handle, Callback, Phase
  <2>5. CASE _finish_press
    BY <2>5 DEF _finish_press, Census, Handle
  <2>6. QED
    BY <2>2, <2>3, <2>4, <2>5
       DEF Next, Timer, vars, start_designation_capture, start_evidence_capture,
           async_remove, record_advertisement_observation,
           _finish_designation_baseline, _finish_designation_capture,
           _finish_designation_confirmation, _finish_window,
           async_unload_entry, async_setup_entry
<1>2. registered' \in Nat
  BY ControlStep DEF Control, HearsAllOnlyForCensus
<1>3. QED
  BY <1>1, <1>2

\* The history of what was heard is well-formed.
LEMMA HeardType ==
  ASSUME TypeOK, [Next]_vars
  PROVE  heard' \in [Window -> Observations]
<1>1. CASE heard' = heard \/ heard' = [w \in Window |-> Nobody]
  BY <1>1, ResetTypes DEF TypeOK
<1>2. ASSUME NEW d \in Device, record_designation_candidate(d)
      PROVE  heard' \in [Window -> Observations]
  <2>1. CASE ~Designating
    BY <1>2, <2>1 DEF record_designation_candidate, TypeOK
  <2>2. CASE Designating
    <3>1. Observed(heard[designation.state], d) \in Observations
      BY <2>2, ObservedType DEF TypeOK, Designating
    <3>2. QED
      BY <1>2, <2>2, <3>1 DEF record_designation_candidate, TypeOK, Designating
  <2>3. QED
    BY <2>1, <2>2
<1>3. QED
  BY <1>1, <1>2
     DEF Next, Timer, vars, start_designation_capture, start_evidence_capture,
         start_radio_census, async_remove,
         record_advertisement_observation, _finish_designation_baseline,
         _finish_designation_capture, _finish_designation_confirmation, _finish_window,
         _finish_baseline, _finish_press, async_unload_entry, async_setup_entry

\* Timers are counted.
LEMMA PendingType ==
  ASSUME TypeOK, [Next]_vars
  PROVE  pending' \in [Callback -> Nat]
<1> pending \in [Callback -> Nat]
  BY DEF TypeOK
<1>1. UNCHANGED pending \/ \E cancelled, armed : Timers(cancelled, armed)
  BY DEF Next, Timer, vars, start_designation_capture, start_evidence_capture,
         start_radio_census, async_remove,
         record_advertisement_observation, record_callback, _finish_designation_baseline,
         _finish_designation_capture, _finish_designation_confirmation, _finish_window,
         _finish_baseline, _finish_press, async_unload_entry, async_setup_entry
<1>2. QED
  BY <1>1, TimersType

\* Every step keeps the state well-formed.
LEMMA TypeStep == TypeOK /\ Control /\ Data /\ [Next]_vars => TypeOK'
<1> SUFFICES ASSUME TypeOK, Control, Data, [Next]_vars PROVE TypeOK'
  OBVIOUS
<1>1. loaded' \in BOOLEAN
  BY DEF TypeOK, Next, Timer, vars, start_designation_capture, start_evidence_capture,
         start_radio_census, async_remove,
         record_advertisement_observation, _finish_designation_baseline,
         _finish_designation_capture, _finish_designation_confirmation, _finish_window,
         _finish_baseline, _finish_press, async_unload_entry, async_setup_entry
<1>2. QED
  BY <1>1, DesignationType, EvidenceType, CensusType, HeardType, PendingType DEF TypeOK

-----------------------------------------------------------------------------
(* The data part: what was heard, and who is designated because of it. *)

\* The condition NothingKept puts on an evidence collector.
NoRecordsKept ==
  evidence.state \in {"none", "inert", "no_data", "aborted"} => evidence.records = 0

\* With no designation running or chosen and no evidence being collected, the
\* data part asks only that the collector has kept no records.
LEMMA InertData ==
  ASSUME designation' = Inert, ~Collecting', NoRecordsKept'
  PROVE  Data'
<1>1. /\ designation'.state = "inert"
      /\ designation'.candidates = Nobody
      /\ designation'.first_window_identifier = None
      /\ designation'.designated_identifier = None
  BY DEF Inert
<1>2. ~Designating'
  BY <1>1 DEF Designating, Window
<1>3. NothingKept' /\ EvidenceOfDesignated'
  BY <1>1, <1>2 DEF NothingKept, EvidenceOfDesignated, NoRecordsKept, Nobody
<1>4. CandidatesAreHeard'
  BY <1>1, <1>2 DEF CandidatesAreHeard
<1>5. DesignatedIsSole'
  BY <1>1, NoneAssumption DEF DesignatedIsSole
<1>6. QED
  BY <1>3, <1>4, <1>5 DEF Data

\* A step that leaves designation and its history alone.
LEMMA SameDesignationData ==
  ASSUME Data, UNCHANGED <<designation, heard>>, NoRecordsKept',
         Collecting' => /\ evidence'.designated_identifier = designation.designated_identifier
                        /\ evidence'.designated_identifier \in Device
                        /\ evidence'.records < MAX_EVIDENCE_RECORDS
  PROVE  Data'
<1>1. NothingKept' /\ EvidenceOfDesignated'
  BY DEF Data, NothingKept, EvidenceOfDesignated, NoRecordsKept, Designating, Nobody
<1>2. CandidatesAreHeard' /\ DesignatedIsSole'
  BY DEF Data, CandidatesAreHeard, DesignatedIsSole, Designating, Nobody, Sole
<1>3. QED
  BY <1>1, <1>2 DEF Data

\* Cancelled evidence keeps no records.
LEMMA CancelledKeepsNothing ==
  ASSUME TypeOK, NoRecordsKept
  PROVE  CancelledEvidence.state \in {"none", "inert"} /\ CancelledEvidence.records = 0
BY DEF TypeOK, CancelledEvidence, NoRecordsKept, Evidence

\* The user's requests.
LEMMA RequestData ==
  ASSUME TypeOK, Control, Data, Request
  PROVE  Data'
<1> NoRecordsKept
  BY DEF Data, NothingKept, NoRecordsKept
<1>1. ASSUME evidence' = IF Collecting THEN CancelledEvidence ELSE evidence
      PROVE  ~Collecting' /\ NoRecordsKept'
  BY <1>1, CancelledKeepsNothing DEF Collecting, NoRecordsKept
<1>2. CASE start_designation_capture
  <2>1. /\ designation'.state = "baseline"
        /\ designation'.candidates = Nobody
        /\ designation'.first_window_identifier = None
        /\ designation'.designated_identifier = None
        /\ heard' = [w \in Window |-> Nobody]
    BY <1>2 DEF start_designation_capture, Inert
  <2>2. ~Collecting' /\ NoRecordsKept'
    BY <1>1, <1>2 DEF start_designation_capture
  <2>3. Designating' /\ Window = {"baseline", "press", "confirming"}
    BY <2>1 DEF Designating, Window
  <2>4. NothingKept' /\ EvidenceOfDesignated'
    BY <2>1, <2>2, <2>3 DEF NothingKept, EvidenceOfDesignated, NoRecordsKept
  <2>5. CandidatesAreHeard'
    <3>1. /\ heard'["baseline"] = Nobody
          /\ heard'["press"] = Nobody
          /\ heard'["confirming"] = Nobody
      BY <2>1, <2>3
    <3>2. QED
      BY <2>1, <3>1 DEF CandidatesAreHeard, Nobody
  <2>6. DesignatedIsSole'
    BY <2>1, NoneAssumption DEF DesignatedIsSole
  <2>7. QED
    BY <2>4, <2>5, <2>6 DEF Data
<1>3. CASE start_evidence_capture
  <2>1. ~Designating
    BY <1>3 DEF start_evidence_capture, Data, NothingKept
  <2>2. UNCHANGED <<designation, heard>>
    BY <1>3, <2>1 DEF start_evidence_capture
  <2>3. /\ evidence'.state = "collecting"
        /\ evidence'.records = 0
        /\ evidence'.designated_identifier = designation.designated_identifier
        /\ designation.designated_identifier # None
    BY <1>3, <2>2 DEF start_evidence_capture
  <2>4. designation.designated_identifier \in Device /\ 0 < MAX_EVIDENCE_RECORDS
    BY <2>3, RecordsAssumption DEF TypeOK, Designation
  <2>5. NoRecordsKept'
    BY <2>3 DEF NoRecordsKept
  <2>6. QED
    BY <2>2, <2>3, <2>4, <2>5, SameDesignationData
<1>4. CASE start_radio_census
  <2>1. ~Collecting' /\ NoRecordsKept'
    BY <1>1, <1>4 DEF start_radio_census
  <2>2. CASE Designating
    BY <1>4, <2>1, <2>2, InertData DEF start_radio_census
  <2>3. CASE ~Designating
    BY <1>4, <2>1, <2>3, SameDesignationData DEF start_radio_census
  <2>4. QED
    BY <2>2, <2>3
<1>5. QED
  BY <1>2, <1>3, <1>4 DEF Request

\* The timers of a designation.
LEMMA DesignationTimerData ==
  ASSUME TypeOK, Control, Data,
         \/ _finish_designation_baseline
         \/ _finish_designation_capture
         \/ _finish_designation_confirmation
  PROVE  Data'
<1>1. designation.state = "baseline" \/ designation.state = "press"
        \/ designation.state = "confirming"
  BY DuePhase DEF Control, _finish_designation_baseline, _finish_designation_capture,
                  _finish_designation_confirmation
<1>2. Designating /\ ~Collecting
  BY <1>1 DEF Control, OneCaptureAtATime, Designating, Window
<1>3. UNCHANGED <<evidence, heard>>
  BY DEF _finish_designation_baseline, _finish_designation_capture,
         _finish_designation_confirmation
<1>4. ~Collecting' /\ NoRecordsKept'
  BY <1>2, <1>3 DEF Data, NothingKept, NoRecordsKept, Collecting
<1>5. CASE designation' = Inert
  BY <1>4, <1>5, InertData
<1>6. CASE _finish_designation_baseline /\ designation.candidates = Nobody
  <2>1. designation.state = "baseline"
    BY <1>6, DuePhase DEF Control, _finish_designation_baseline
  <2>2. /\ designation'.state = "press"
        /\ designation'.candidates = Nobody
        /\ designation'.designated_identifier = designation.designated_identifier
    BY <1>2, <1>6 DEF _finish_designation_baseline, TypeOK, Designation
  <2>3. Designating' /\ designation.designated_identifier = None
    BY <1>2, <2>2 DEF Designating, Window, Data, NothingKept
  <2>4. NothingKept' /\ EvidenceOfDesignated'
    BY <1>4, <2>2, <2>3 DEF NothingKept, EvidenceOfDesignated, NoRecordsKept
  <2>5. /\ heard["baseline"] = Nobody
        /\ heard["press"] = Nobody
        /\ heard["confirming"] = Nobody
    BY <1>2, <1>6, <2>1 DEF Data, CandidatesAreHeard
  <2>6. CandidatesAreHeard'
    BY <1>3, <2>2, <2>5 DEF CandidatesAreHeard, Nobody
  <2>7. DesignatedIsSole'
    BY <2>2, <2>3, NoneAssumption DEF DesignatedIsSole
  <2>8. QED
    BY <2>4, <2>6, <2>7 DEF Data
<1>7. ASSUME _finish_designation_capture,
             NEW d \in Device,
             Sole(designation.candidates, d),
             designation' = [designation EXCEPT !.state = "confirming",
                               !.candidates = Nobody,
                               !.first_window_identifier = d,
                               !.timer = "_finish_designation_confirmation"]
      PROVE  Data'
  <2>1. designation.state = "press"
    BY <1>7, DuePhase DEF Control, _finish_designation_capture
  <2>2. /\ designation'.state = "confirming"
        /\ designation'.candidates = Nobody
        /\ designation'.first_window_identifier = d
        /\ designation'.designated_identifier = designation.designated_identifier
    BY <1>7 DEF TypeOK, Designation
  <2>3. Designating' /\ designation.designated_identifier = None
    BY <1>2, <2>2 DEF Designating, Window, Data, NothingKept
  <2>4. NothingKept' /\ EvidenceOfDesignated'
    BY <1>4, <2>2, <2>3 DEF NothingKept, EvidenceOfDesignated, NoRecordsKept
  <2>5. /\ heard["baseline"] = Nobody
        /\ heard["press"] = designation.candidates
        /\ heard["confirming"] = Nobody
    BY <1>2, <2>1 DEF Data, CandidatesAreHeard
  <2>6. Sole(heard["press"], d)
    BY <1>7, <2>5
  <2>7. CandidatesAreHeard'
    BY <1>3, <2>2, <2>5, <2>6 DEF CandidatesAreHeard, Nobody, Sole
  <2>8. DesignatedIsSole'
    BY <2>2, <2>3, NoneAssumption DEF DesignatedIsSole
  <2>9. QED
    BY <2>4, <2>7, <2>8 DEF Data
<1>8. CASE _finish_designation_confirmation
  <2> DEFINE first == designation.first_window_identifier
  <2>1. designation.state = "confirming"
    BY <1>8, DuePhase DEF Control, _finish_designation_confirmation
  <2>2. /\ heard["baseline"] = Nobody
        /\ heard["confirming"] = designation.candidates
        /\ first \in Device
        /\ Sole(heard["press"], first)
    BY <1>2, <2>1 DEF Data, CandidatesAreHeard
  <2>3. CASE Sole(designation.candidates, first)
    <3>1. /\ designation'.state = "inert"
          /\ designation'.candidates = Nobody
          /\ designation'.first_window_identifier = None
          /\ designation'.designated_identifier = first
      BY <1>8, <2>2, <2>3 DEF _finish_designation_confirmation, Inert
    <3>2. ~Designating'
      BY <3>1 DEF Designating, Window
    <3>3. NothingKept' /\ EvidenceOfDesignated' /\ CandidatesAreHeard'
      BY <1>4, <3>1, <3>2
         DEF NothingKept, EvidenceOfDesignated, CandidatesAreHeard, NoRecordsKept, Nobody
    <3>4. DesignatedIsSole'
      BY <1>3, <2>2, <2>3, <3>1 DEF DesignatedIsSole, Nobody, Sole
    <3>5. QED
      BY <3>3, <3>4 DEF Data
  <2>4. CASE ~Sole(designation.candidates, first)
    <3>1. designation' = [Inert EXCEPT !.designated_identifier = None]
      BY <1>8, <2>4 DEF _finish_designation_confirmation
    <3>2. designation' = Inert
      BY <3>1 DEF Inert
    <3>3. QED
      BY <1>5, <3>2
  <2>5. QED
    BY <2>3, <2>4
<1>9. QED
  BY <1>2, <1>5, <1>6, <1>7, <1>8
     DEF _finish_designation_baseline, _finish_designation_capture

\* An observation is added to the running window and to its history alike.
LEMMA ObservationData ==
  ASSUME TypeOK, Control, Data, NEW d \in Device, NEW kind,
         record_advertisement_observation(d, kind)
  PROVE  Data'
<1>1. CASE Designating
  <2> DEFINE w == designation.state
  <2>1. ~Collecting /\ w \in Window
    BY <1>1 DEF Control, OneCaptureAtATime, Designating
  <2>2. UNCHANGED evidence
    BY <2>1 DEF record_advertisement_observation, record_callback
  <2>3. /\ designation' = [designation EXCEPT !.candidates = Observed(@, d)]
        /\ heard' = [heard EXCEPT ![w] = Observed(@, d)]
    BY <1>1 DEF record_advertisement_observation, record_designation_candidate
  <2>4. /\ designation'.state = w
        /\ designation'.candidates = Observed(designation.candidates, d)
        /\ designation'.first_window_identifier = designation.first_window_identifier
        /\ designation'.designated_identifier = designation.designated_identifier
    BY <2>3 DEF TypeOK, Designation
  <2>5. /\ heard'[w] = Observed(heard[w], d)
        /\ \A v \in Window : v # w => heard'[v] = heard[v]
    BY <2>1, <2>3 DEF TypeOK
  <2>6. Designating' /\ ~Collecting' /\ designation.designated_identifier = None
    BY <1>1, <2>1, <2>2, <2>4 DEF Designating, Collecting, Data, NothingKept
  <2>7. NothingKept' /\ EvidenceOfDesignated'
    BY <2>2, <2>4, <2>6 DEF Data, NothingKept, EvidenceOfDesignated
  <2>8. heard[w] = designation.candidates
    BY <1>1 DEF Data, CandidatesAreHeard
  <2>9. CandidatesAreHeard'
    <3>1. heard'[designation'.state] = designation'.candidates
      BY <2>4, <2>5, <2>8
    <3>2. CASE w = "baseline"
      <4>1. heard'["press"] = Nobody /\ heard'["confirming"] = Nobody
        BY <1>1, <3>2, <2>5 DEF Data, CandidatesAreHeard, Window
      <4>2. QED
        BY <3>1, <3>2, <4>1, <2>4 DEF CandidatesAreHeard, Nobody
    <3>3. CASE w = "press"
      <4>1. heard'["baseline"] = Nobody /\ heard'["confirming"] = Nobody
        BY <1>1, <3>3, <2>5 DEF Data, CandidatesAreHeard, Window
      <4>2. QED
        BY <3>1, <3>3, <4>1, <2>4 DEF CandidatesAreHeard, Nobody
    <3>4. CASE w = "confirming"
      <4>1. /\ heard'["baseline"] = Nobody
            /\ heard'["press"] = heard["press"]
            /\ designation.first_window_identifier \in Device
            /\ Sole(heard["press"], designation.first_window_identifier)
        BY <1>1, <3>4, <2>5 DEF Data, CandidatesAreHeard, Window
      <4>2. Sole(heard'["press"], designation'.first_window_identifier)
        BY <4>1, <2>4
      <4>3. QED
        BY <3>1, <3>4, <4>1, <4>2, <2>4 DEF CandidatesAreHeard, Nobody, Sole
    <3>5. QED
      BY <2>1, <3>2, <3>3, <3>4 DEF Window
  <2>10. DesignatedIsSole'
    BY <2>4, <2>6, NoneAssumption DEF DesignatedIsSole
  <2>11. QED
    BY <2>7, <2>9, <2>10 DEF Data
<1>2. CASE ~Designating
  <2>1. UNCHANGED <<designation, heard>>
    BY <1>2 DEF record_advertisement_observation, record_designation_candidate
  <2>2. CASE UNCHANGED evidence
    BY <2>1, <2>2, SameDesignationData
       DEF Data, NothingKept, EvidenceOfDesignated, NoRecordsKept, Collecting
  <2>3. CASE evidence' = [evidence EXCEPT !.state = "aborted", !.records = 0,
                                          !.timer = NoTimer]
    <3>1. evidence'.state = "aborted" /\ evidence'.records = 0
      BY <2>3 DEF TypeOK, Evidence
    <3>2. QED
      BY <2>1, <3>1, SameDesignationData DEF NoRecordsKept, Collecting
  <2>4. CASE /\ Collecting
             /\ evidence' = [evidence EXCEPT !.records = @ + 1]
             /\ evidence.records + 1 < MAX_EVIDENCE_RECORDS
    <3>1. /\ evidence'.state = "collecting"
          /\ evidence'.records < MAX_EVIDENCE_RECORDS
          /\ evidence'.designated_identifier = evidence.designated_identifier
      BY <2>4 DEF TypeOK, Evidence, Collecting
    <3>2. QED
      BY <2>1, <2>4, <3>1, SameDesignationData DEF Data, EvidenceOfDesignated, NoRecordsKept
  <2>5. CASE evidence' = [evidence EXCEPT !.state = "complete", !.timer = NoTimer,
                                          !.records = MAX_EVIDENCE_RECORDS]
    <3>1. evidence'.state = "complete"
      BY <2>5 DEF TypeOK, Evidence
    <3>2. QED
      BY <2>1, <3>1, SameDesignationData DEF NoRecordsKept, Collecting
  <2>6. QED
    BY <2>2, <2>3, <2>4, <2>5 DEF record_advertisement_observation, record_callback
<1>3. QED
  BY <1>1, <1>2

\* A window that ends without records keeps none.
LEMMA WindowData ==
  ASSUME TypeOK, Data, _finish_window
  PROVE  Data'
<1>1. UNCHANGED <<designation, heard>>
  BY DEF _finish_window
<1>2. /\ evidence'.state = IF evidence.records > 0 THEN "complete" ELSE "no_data"
      /\ evidence'.records = evidence.records
      /\ evidence.records \in Nat
  BY RecordsAssumption DEF _finish_window, TypeOK, Evidence
<1>3. NoRecordsKept' /\ ~Collecting'
  BY <1>2 DEF NoRecordsKept, Collecting
<1>4. QED
  BY <1>1, <1>3, SameDesignationData

\* Steps that end everything, or concern the census alone.
LEMMA OtherData ==
  ASSUME TypeOK, Control, Data,
         \/ async_remove
         \/ _finish_baseline
         \/ _finish_press
         \/ async_unload_entry
         \/ async_setup_entry
         \/ UNCHANGED vars
  PROVE  Data'
<1> NoRecordsKept
  BY DEF Data, NothingKept, NoRecordsKept
<1>1. CASE async_remove
  <2>1. ~Collecting /\ UNCHANGED evidence
    BY <1>1 DEF async_remove, Control, OneCaptureAtATime
  <2>2. ~Collecting' /\ NoRecordsKept'
    BY <2>1 DEF Collecting, NoRecordsKept
  <2>3. QED
    BY <1>1, <2>2, InertData DEF async_remove
<1>2. CASE _finish_baseline \/ _finish_press \/ UNCHANGED vars
  <2>1. UNCHANGED <<designation, evidence, heard>>
    BY <1>2 DEF _finish_baseline, _finish_press, vars
  <2>2. QED
    BY <2>1, SameDesignationData DEF Data, EvidenceOfDesignated, NoRecordsKept, Collecting
<1>3. CASE async_unload_entry
  <2>1. ~Collecting' /\ NoRecordsKept'
    BY <1>3, CancelledKeepsNothing DEF async_unload_entry, Collecting, NoRecordsKept
  <2>2. QED
    BY <1>3, <2>1, InertData DEF async_unload_entry
<1>4. CASE async_setup_entry
  <2>1. ~Collecting' /\ NoRecordsKept'
    BY <1>4 DEF async_setup_entry, Collecting, NoRecordsKept, NoCollector
  <2>2. QED
    BY <1>4, <2>1, InertData DEF async_setup_entry
<1>5. QED
  BY <1>1, <1>2, <1>3, <1>4

\* Every step keeps the data part.
LEMMA DataStep == TypeOK /\ Control /\ Data /\ [Next]_vars => Data'
BY RequestData, DesignationTimerData, ObservationData, WindowData, OtherData
   DEF Next, Timer, Request

-----------------------------------------------------------------------------

\* The invariant holds at first.
LEMMA InvInit == Init => IInv
<1> SUFFICES ASSUME Init PROVE IInv
  OBVIOUS
<1>1. TypeOK
  BY ResetTypes DEF Init, TypeOK
<1>2. Control
  BY ControlInit
<1>3. Data
  <2>1. /\ designation = Inert /\ evidence = NoCollector
        /\ heard = [w \in Window |-> Nobody]
    BY DEF Init
  <2>2. /\ designation.state = "inert" /\ designation.candidates = Nobody
        /\ designation.first_window_identifier = None
        /\ designation.designated_identifier = None
        /\ evidence.state = "none" /\ evidence.records = 0
    BY <2>1 DEF Inert, NoCollector
  <2>3. ~Designating /\ ~Collecting
    BY <2>2 DEF Designating, Collecting, Window
  <2>4. NothingKept /\ EvidenceOfDesignated /\ CandidatesAreHeard
    BY <2>2, <2>3 DEF NothingKept, EvidenceOfDesignated, CandidatesAreHeard
  <2>5. DesignatedIsSole
    BY <2>2, NoneAssumption DEF DesignatedIsSole
  <2>6. QED
    BY <2>4, <2>5 DEF Data
<1>4. QED
  BY <1>1, <1>2, <1>3, Parts

\* The inductive invariant holds in every reachable state.
THEOREM Inductive == Spec => []IInv
<1>1. IInv /\ [Next]_vars => IInv'
  <2> SUFFICES ASSUME IInv, [Next]_vars PROVE IInv'
    OBVIOUS
  <2>1. TypeOK /\ Control /\ Data
    BY Parts
  <2>2. TypeOK' /\ Control' /\ Data'
    BY <2>1, TypeStep, ControlStep, DataStep
  <2>3. QED
    BY <2>2 DEF IInv, Control, Data
<1>2. QED
  BY <1>1, InvInit, PTL DEF Spec

\* The captures' state stays well-formed.
THEOREM TypeCorrect == Spec => []TypeOK
<1>1. IInv => TypeOK
  BY DEF IInv
<1>2. QED
  BY <1>1, Inductive, PTL

\* At most one of the three captures runs.
THEOREM MutualExclusion == Spec => []OneCaptureAtATime
<1>1. IInv => OneCaptureAtATime
  BY DEF IInv
<1>2. QED
  BY <1>1, Inductive, PTL

\* A timer is due exactly for the phase that runs.
THEOREM NoStrayTimer == Spec => []TimersMatchPhases
<1>1. IInv => TimersMatchPhases
  BY DEF IInv
<1>2. QED
  BY <1>1, Inductive, PTL

\* The unfiltered callback is registered exactly while a census listens.
THEOREM PassiveOutsideCensus == Spec => []HearsAllOnlyForCensus
<1>1. IInv => HearsAllOnlyForCensus
  BY DEF IInv
<1>2. QED
  BY <1>1, Inductive, PTL

\* Only the sole voice of both windows is ever designated.
THEOREM DesignationIsUnambiguous == Spec => []DesignatedIsSole
<1>1. IInv => DesignatedIsSole
  BY DEF IInv
<1>2. QED
  BY <1>1, Inductive, PTL
\* Nothing heard in a designation outlives it.
THEOREM NothingIsKept == Spec => []NothingKept
<1>1. IInv => NothingKept
  BY DEF IInv
<1>2. QED
  BY <1>1, Inductive, PTL

\* Evidence is collected for the device designated now.
THEOREM EvidenceIsOfDesignated == Spec => []EvidenceOfDesignated
<1>1. IInv => EvidenceOfDesignated
  BY DEF IInv
<1>2. QED
  BY <1>1, Inductive, PTL

\* What one step does to the finished results of an entry that stays loaded.
LEMMA ResultsStep ==
  ASSUME IInv, [Next]_vars, loaded, loaded'
  PROVE  /\ evidence.state \in {"complete", "no_data", "aborted"} =>
              evidence' = evidence \/ evidence'.state = "collecting"
         /\ census.state = "complete" => census' = census \/ census'.state = "baseline"
         /\ designation.designated_identifier # None =>
              \/ designation'.designated_identifier = designation.designated_identifier
              \/ designation'.state = "baseline"
<1> USE DEF Designating, Collecting, Listening
<1>1. /\ evidence.state \in {"complete", "no_data", "aborted"} => ~Collecting
      /\ census.state = "complete" => ~Listening
      /\ designation.designated_identifier # None => ~Designating
  BY DEF IInv, NothingKept, Phase
<1>2. TimersMatchPhases
  BY DEF IInv
<1>3. CASE start_designation_capture
  BY <1>1, <1>3 DEF start_designation_capture, Inert
<1>4. CASE start_evidence_capture
  BY <1>1, <1>4 DEF start_evidence_capture
<1>5. CASE start_radio_census
  BY <1>1, <1>5 DEF start_radio_census
<1>6. CASE async_remove
  BY <1>1, <1>6 DEF async_remove
<1>7. CASE \E d \in Device, kind \in ValueKind : record_advertisement_observation(d, kind)
  BY <1>1, <1>7 DEF record_advertisement_observation, record_designation_candidate,
                    record_callback
<1>8. CASE Timer
  <2>1. CASE \/ _finish_designation_baseline \/ _finish_designation_capture
             \/ _finish_designation_confirmation
    <3>1. Designating
      BY <1>2, <2>1, DuePhase DEF _finish_designation_baseline,
         _finish_designation_capture, _finish_designation_confirmation, Window
    <3>2. UNCHANGED <<evidence, census>>
      BY <2>1 DEF _finish_designation_baseline, _finish_designation_capture,
                  _finish_designation_confirmation
    <3>3. QED
      BY <1>1, <3>1, <3>2
  <2>2. CASE _finish_window
    <3>1. Collecting
      BY <1>2, <2>2, DuePhase DEF _finish_window
    <3>2. QED
      BY <1>1, <2>2, <3>1 DEF _finish_window
  <2>3. CASE _finish_baseline \/ _finish_press
    <3>1. Listening
      BY <1>2, <2>3, DuePhase DEF _finish_baseline, _finish_press, Phase
    <3>2. QED
      BY <1>1, <2>3, <3>1 DEF _finish_baseline, _finish_press
  <2>4. QED
    BY <1>8, <2>1, <2>2, <2>3 DEF Timer
<1>9. CASE async_unload_entry \/ async_setup_entry \/ UNCHANGED vars
  BY <1>9 DEF async_unload_entry, async_setup_entry, vars
<1>10. QED
  BY <1>3, <1>4, <1>5, <1>6, <1>7, <1>8, <1>9 DEF Next

\* No capture takes another one's finished result away.
THEOREM ResultsAreSafe == Spec => ResultsSurvive
<1>1. IInv /\ [Next]_vars =>
        [(loaded /\ loaded') =>
           /\ evidence.state \in {"complete", "no_data", "aborted"} =>
                evidence' = evidence \/ evidence'.state = "collecting"
           /\ census.state = "complete" => census' = census \/ census'.state = "baseline"
           /\ designation.designated_identifier # None =>
                \/ designation'.designated_identifier = designation.designated_identifier
                \/ designation'.state = "baseline"]_vars
  BY ResultsStep
<1>2. QED
  BY <1>1, Inductive, PTL DEF Spec, ResultsSurvive

-----------------------------------------------------------------------------
(* The flows.                                                                *)

\* Every step of the flows is one of the captures, or leaves them alone.
LEMMA StepImplements == [DetectNext]_detectVars => [Next]_vars
<1> SUFFICES ASSUME [DetectNext]_detectVars PROVE [Next]_vars
  OBVIOUS
<1>1. ASSUME NEW w, RemoveFlow(w) PROVE [Next]_vars
  BY <1>1 DEF RemoveFlow, Next
<1>2. ASSUME NEW w \in Wizard,
             \/ async_step_user(w) \/ ChooseDetect(w) \/ ChooseManual(w)
             \/ async_step_detect(w) \/ TaskDone(w) \/ DetectRaises(w)
             \/ \E d \in Device : Submit(w, d)
             \/ ShowErrors(w) \/ Commit(w) \/ CommitManual(w) \/ AbortMismatch(w)
             \/ CreateEntry(w) \/ Close(w)
      PROVE  [Next]_vars
  <2>1. CASE ChooseDetect(w)
    BY <2>1 DEF ChooseDetect, Next
  <2>2. CASE AbortMismatch(w) \/ CreateEntry(w) \/ Close(w)
    BY <1>1, <2>2 DEF AbortMismatch, CreateEntry, Close
  <2>3. CASE \/ async_step_user(w) \/ ChooseManual(w) \/ async_step_detect(w)
             \/ TaskDone(w) \/ DetectRaises(w) \/ \E d \in Device : Submit(w, d)
             \/ ShowErrors(w) \/ Commit(w) \/ CommitManual(w)
    BY <2>3 DEF async_step_user, ChooseManual, async_step_detect, TaskDone, DetectRaises,
                Submit, ShowErrors, Commit, CommitManual
  <2>4. QED
    BY <1>2, <2>1, <2>2, <2>3
<1>3. CASE ReconfigureRemoved \/ StartByHand \/ StartOther \/ Unload \/ SetUp \/ RunTimer
  BY <1>3 DEF ReconfigureRemoved, StartByHand, StartOther, Unload, SetUp, RunTimer, Next
<1>4. CASE Advertisement
  BY <1>4 DEF Advertisement, Next
<1>5. CASE UNCHANGED detectVars
  BY <1>5 DEF detectVars
<1>6. QED
  BY <1>2, <1>3, <1>4, <1>5 DEF DetectNext

\* The captures under the wizards implement CaptureSessions: all that is proved
\* of them holds here.
THEOREM FlowsImplementCaptures == DetectSpec => Spec
<1>1. DetectInit => Init
  BY DEF DetectInit
<1>2. QED
  BY <1>1, StepImplements, PTL DEF DetectSpec, Spec

\* Only a request of the user makes a designation run that did not.
LEMMA DesignationStarts ==
  ASSUME \/ start_evidence_capture \/ start_radio_census \/ async_remove
         \/ \E d \in Device, kind \in ValueKind : record_advertisement_observation(d, kind)
         \/ Timer \/ async_unload_entry \/ async_setup_entry,
         TypeOK, Designating'
  PROVE  Designating
<1> SUFFICES ASSUME ~Designating PROVE FALSE
  OBVIOUS
<1>1. Inert.state \notin Window
  BY DEF Inert, Window
<1>2. designation' # Inert /\ UNCHANGED designation => FALSE
  BY DEF Designating
<1>3. designation' # Inert
  BY <1>1 DEF Designating
<1>4. CASE start_evidence_capture \/ start_radio_census \/ async_remove
  BY <1>2, <1>3, <1>4 DEF start_evidence_capture, start_radio_census, async_remove
<1>5. CASE \E d \in Device, kind \in ValueKind : record_advertisement_observation(d, kind)
  BY <1>2, <1>3, <1>5 DEF record_advertisement_observation, record_designation_candidate
<1>6. CASE Timer
  <2>1. CASE _finish_designation_baseline
    BY <1>3, <2>1 DEF _finish_designation_baseline
  <2>2. CASE _finish_designation_capture
    BY <1>3, <2>2 DEF _finish_designation_capture
  <2>3. CASE _finish_designation_confirmation
    BY <2>3 DEF _finish_designation_confirmation, Designating, Inert, Window
  <2>4. CASE _finish_window \/ _finish_baseline \/ _finish_press
    BY <1>2, <1>3, <2>4 DEF _finish_window, _finish_baseline, _finish_press
  <2>5. QED
    BY <1>6, <2>1, <2>2, <2>3, <2>4 DEF Timer
<1>7. CASE async_unload_entry \/ async_setup_entry
  BY <1>3, <1>7 DEF async_unload_entry, async_setup_entry
<1>8. QED
  BY <1>4, <1>5, <1>6, <1>7

\* The wizards' own state.
WizardTypeOK == wizard \in [Wizard -> Flow] /\ owner \in Wizard \cup {None}

WizardInv == WizardTypeOK /\ DetectionHasWizard

\* A step of one wizard that starts nothing, and leaves the detection it was
\* showing only if none is running, keeps the invariant.
LEMMA OneWizardMoves ==
  ASSUME TypeOK, WizardInv, NEW w \in Wizard, NEW flow \in Flow,
         wizard' = [wizard EXCEPT ![w] = flow], owner' = owner,
         Designating' => Designating,
         flow.step = "detect" \/ wizard[w].step # "detect" \/ ~Designating'
  PROVE  WizardInv'
<1>1. WizardTypeOK'
  BY DEF WizardInv, WizardTypeOK
<1>2. DetectionHasWizard'
  <2> SUFFICES ASSUME Designating', owner # None PROVE wizard'[owner].step = "detect"
    BY DEF DetectionHasWizard
  <2>1. owner \in Wizard /\ wizard[owner].step = "detect"
    BY DEF WizardInv, WizardTypeOK, DetectionHasWizard
  <2>2. QED
    BY <2>1 DEF WizardInv, WizardTypeOK
<1>3. QED
  BY <1>1, <1>2 DEF WizardInv

\* A flow that is removed leaves no designation running.
LEMMA RemoveFlowEnds ==
  ASSUME TypeOK, WizardInv, NEW w \in Wizard, RemoveFlow(w)
  PROVE  WizardInv'
<1>1. ~Designating'
  BY DEF RemoveFlow, async_remove, Designating, Inert, Window, vars
<1>2. Closed \in Flow
  BY DEF Closed, Flow, Step
<1>3. QED
  BY <1>1, <1>2, OneWizardMoves DEF RemoveFlow

\* Whatever a wizard, a timer, the user or the radio does, a wizard's designation
\* goes on only while its wizard shows it.
LEMMA WizardStep ==
  ASSUME TypeOK, TypeOK', WizardInv, [DetectNext]_detectVars
  PROVE  WizardInv'
<1>1. ASSUME UNCHANGED wizardVars, Designating' => Designating PROVE WizardInv'
  BY <1>1 DEF wizardVars, WizardInv, WizardTypeOK, DetectionHasWizard
<1>2. ASSUME UNCHANGED vars PROVE Designating' <=> Designating
  BY <1>2 DEF vars, Designating
<1>3. \A w \in Wizard : wizard[w] \in Flow
  BY DEF WizardInv, WizardTypeOK
<1>4. ASSUME NEW w \in Wizard, ChooseDetect(w) PROVE WizardInv'
  <2>1. wizard' = [wizard EXCEPT ![w] = [wizard[w] EXCEPT
                     !.step = "detect", !.detect_phase = "baseline", !.task = "running"]]
    BY <1>3, <1>4 DEF ChooseDetect, WizardInv, WizardTypeOK, Flow
  <2>2. wizard'[w] = [wizard[w] EXCEPT
                     !.step = "detect", !.detect_phase = "baseline", !.task = "running"]
    BY <2>1 DEF WizardInv, WizardTypeOK
  <2>3. wizard'[w] \in Flow /\ wizard'[w].step = "detect"
    BY <1>3, <2>2 DEF Flow, Step, Window
  <2>4. wizard' \in [Wizard -> Flow] /\ owner' = w
    BY <1>4, <2>1, <2>2, <2>3 DEF ChooseDetect, WizardInv, WizardTypeOK
  <2>5. QED
    BY <2>3, <2>4 DEF WizardInv, WizardTypeOK, DetectionHasWizard
<1>5. ASSUME NEW w \in Wizard, async_step_detect(w) PROVE WizardInv'
  <2>1. UNCHANGED vars /\ owner' = owner
    BY <1>5 DEF async_step_detect
  <2>2. CASE ~Designating
    <3>1. PICK flow \in Flow : wizard' = [wizard EXCEPT ![w] = flow]
      BY <1>5, <2>2 DEF async_step_detect, Closed, Flow, Step
    <3>2. QED
      BY <1>2, <2>1, <2>2, <3>1, OneWizardMoves
  <2>3. CASE Designating
    <3> DEFINE flow == [wizard[w] EXCEPT !.detect_phase = designation.state,
                                         !.task = "running"]
    <3>1. wizard' = [wizard EXCEPT ![w] = flow] /\ wizard[w].step = "detect"
      BY <1>3, <1>5, <2>3 DEF async_step_detect, Flow
    <3>2. flow \in Flow /\ flow.step = "detect"
      BY <1>3, <2>3, <3>1 DEF Flow, Designating
    <3> HIDE DEF flow
    <3>3. QED
      BY <1>2, <2>1, <3>1, <3>2, OneWizardMoves
  <2>4. QED
    BY <2>2, <2>3
<1>6. ASSUME NEW w \in Wizard,
             \/ async_step_user(w) \/ ChooseManual(w) \/ TaskDone(w) \/ DetectRaises(w)
             \/ \E d \in Device : Submit(w, d)
             \/ ShowErrors(w) \/ Commit(w) \/ CommitManual(w)
      PROVE  WizardInv'
  <2>1. UNCHANGED vars /\ owner' = owner
    BY <1>6 DEF async_step_user, ChooseManual, TaskDone, DetectRaises, Submit, ShowErrors,
                Commit, CommitManual
  <2>2. PICK flow \in Flow :
          /\ wizard' = [wizard EXCEPT ![w] = flow]
          /\ flow.step = "detect" \/ wizard[w].step # "detect"
    <3>1. CASE async_step_user(w) \/ ChooseManual(w)
      BY <1>3, <3>1 DEF async_step_user, ChooseManual, Flow, Step
    <3>2. CASE TaskDone(w)
      <4> DEFINE flow == [wizard[w] EXCEPT !.task = "done"]
      <4>1. flow \in Flow /\ flow.step = wizard[w].step
        BY <1>3 DEF Flow
      <4>2. wizard' = [wizard EXCEPT ![w] = flow]
        BY <1>3, <3>2 DEF TaskDone, Flow
      <4>3. QED
        BY <4>1, <4>2
    <3>3. CASE \E d \in Device : Submit(w, d)
      BY <1>3, <3>3 DEF Submit, Flow
    <3>4. CASE ShowErrors(w)
      <4> DEFINE flow == [wizard[w] EXCEPT !.device = None, !.reloaded = FALSE]
      <4>1. flow \in Flow /\ flow.step = wizard[w].step
        BY <1>3 DEF Flow
      <4>2. wizard' = [wizard EXCEPT ![w] = flow] /\ wizard[w].step # "detect"
        BY <1>3, <3>4 DEF ShowErrors, Decoding, Flow
      <4>3. QED
        BY <4>1, <4>2
    <3>5. CASE Commit(w)
      BY <3>5 DEF Commit, Decoding, Closed, Flow, Step
    <3>6. CASE CommitManual(w)
      BY <1>3, <3>6 DEF CommitManual, Flow, Step
    <3>7. CASE DetectRaises(w)
      <4> DEFINE flow == [wizard[w] EXCEPT !.task = "spent"]
      <4>1. flow \in Flow /\ flow.step = wizard[w].step
        BY <1>3 DEF Flow
      <4>2. wizard' = [wizard EXCEPT ![w] = flow]
        BY <1>3, <3>7 DEF DetectRaises, Flow
      <4>3. QED
        BY <4>1, <4>2
    <3>8. QED
      BY <1>6, <3>1, <3>2, <3>3, <3>4, <3>5, <3>6, <3>7
  <2>3. QED
    BY <1>2, <2>1, <2>2, OneWizardMoves
<1>7. ASSUME NEW w \in Wizard, AbortMismatch(w) \/ CreateEntry(w) \/ Close(w)
      PROVE  WizardInv'
  BY <1>7, RemoveFlowEnds DEF AbortMismatch, CreateEntry, Close
<1>8. CASE StartByHand
  BY <1>8 DEF StartByHand, WizardInv, WizardTypeOK, DetectionHasWizard
<1>9. CASE ReconfigureRemoved \/ StartOther \/ Advertisement \/ RunTimer \/ SetUp
  <2>1. UNCHANGED wizardVars /\ [Next]_vars
    BY <1>9 DEF ReconfigureRemoved, StartOther, Advertisement, RunTimer, SetUp, Next
  <2>2. Designating' => Designating
    BY <1>9, DesignationStarts DEF ReconfigureRemoved, StartOther, Advertisement, RunTimer,
                                   SetUp
  <2>3. QED
    BY <1>1, <2>1, <2>2
<1>10. CASE Unload
  <2>1. ~Designating'
    BY <1>10 DEF Unload, async_unload_entry, Designating, Inert, Window
  <2>2. WizardTypeOK'
    BY <1>3, <1>10 DEF Unload, WizardInv, WizardTypeOK, Flow
  <2>3. QED
    BY <2>1, <2>2 DEF WizardInv, DetectionHasWizard
<1>11. CASE UNCHANGED detectVars
  BY <1>1, <1>2, <1>11 DEF detectVars
<1>12. QED
  BY <1>4, <1>5, <1>6, <1>7, <1>8, <1>9, <1>10, <1>11 DEF DetectNext

\* No wizard is open at first.
LEMMA WizardInit == DetectInit => WizardInv
  BY DEF DetectInit, Init, WizardInv, WizardTypeOK, DetectionHasWizard, Designating, Inert,
         Window, Closed, Flow, Step

\* In every state the captures' invariant and the wizards' hold.
LEMMA WizardsAlways == DetectSpec => [](IInv /\ WizardInv)
<1>1. DetectSpec => []IInv
  BY FlowsImplementCaptures, Inductive, PTL
<1>2. IInv => TypeOK
  BY DEF IInv
<1>3. QED
  BY <1>1, <1>2, WizardInit, WizardStep, PTL DEF DetectSpec

\* Types, for any number of wizards.
THEOREM DetectTypes == DetectSpec => []DetectTypeOK
<1>1. IInv /\ WizardInv => DetectTypeOK
  BY DEF IInv, WizardInv, WizardTypeOK, DetectTypeOK
<1>2. QED
  BY <1>1, WizardsAlways, PTL

\* A designation that a wizard started never runs on without that wizard.
THEOREM NoneGoesOnForNobody == DetectSpec => []DetectionHasWizard
<1>1. WizardInv => DetectionHasWizard
  BY DEF WizardInv
<1>2. QED
  BY <1>1, WizardsAlways, PTL

\* A step that commits after a detection commits what was designated.
LEMMA CommitStep ==
  ASSUME IInv, WizardInv, [DetectNext]_detectVars, NEW w \in Wizard,
         wizard[w].step = "key_entry_detected", wizard'[w].step = "saving"
  PROVE  Commit(w)
<1>1. wizard[w] \in Flow /\ wizard \in [Wizard -> Flow]
  BY DEF WizardInv, WizardTypeOK
<1>2. ASSUME NEW v \in Wizard, Commit(v) PROVE Commit(w)
  BY <1>1, <1>2 DEF Commit
<1>3. ASSUME NEW v \in Wizard, RemoveFlow(v) PROVE FALSE
  BY <1>1, <1>3 DEF RemoveFlow, Closed
<1>4. ASSUME NEW v \in Wizard,
             \/ async_step_user(v) \/ ChooseDetect(v) \/ ChooseManual(v)
             \/ async_step_detect(v) \/ TaskDone(v) \/ DetectRaises(v)
             \/ \E d \in Device : Submit(v, d)
             \/ ShowErrors(v) \/ CommitManual(v)
      PROVE  FALSE
  <2>1. CASE async_step_user(v) \/ ChooseDetect(v) \/ ChooseManual(v) \/ CommitManual(v)
    BY <1>1, <2>1 DEF async_step_user, ChooseDetect, ChooseManual, CommitManual, Flow
  <2>2. CASE async_step_detect(v)
    BY <1>1, <2>2 DEF async_step_detect, Closed, Flow
  <2>3. CASE TaskDone(v) \/ ShowErrors(v) \/ \E d \in Device : Submit(v, d)
    BY <1>1, <2>3 DEF TaskDone, ShowErrors, Submit, Flow
  <2>4. CASE DetectRaises(v)
    BY <1>1, <2>4 DEF DetectRaises, Flow
  <2>5. QED
    BY <1>4, <2>1, <2>2, <2>3, <2>4
<1>5. CASE \/ ReconfigureRemoved \/ StartByHand \/ StartOther \/ Advertisement
           \/ RunTimer \/ SetUp \/ UNCHANGED detectVars
  BY <1>5 DEF ReconfigureRemoved, StartByHand, StartOther, Advertisement, RunTimer, SetUp,
              wizardVars, detectVars
<1>6. CASE Unload
  BY <1>1, <1>6 DEF Unload, Flow
<1>7. QED
  BY <1>2, <1>3, <1>4, <1>5, <1>6 DEF DetectNext, AbortMismatch, CreateEntry, Close

\* What a wizard commits after a detection is the sole voice of both windows of
\* the latest designation.
THEOREM DetectedIsWhatWasHeard == DetectSpec => CommitsWhatWasHeard
<1>1. ASSUME IInv, WizardInv, [DetectNext]_detectVars, NEW w \in Wizard,
             wizard[w].step = "key_entry_detected", wizard'[w].step = "saving"
      PROVE  /\ Sole(heard["press"], wizard[w].device)
             /\ Sole(heard["confirming"], wizard[w].device)
             /\ heard["baseline"] = Nobody
  <2>1. Commit(w)
    BY <1>1, CommitStep
  <2>2. wizard[w].device \in Device
    BY <1>1, <2>1 DEF Commit, Decoding, WizardInv, WizardTypeOK, Flow
  <2>3. wizard[w].device = designation.designated_identifier
    BY <2>1 DEF Commit, Decoding, Mismatch, Designated
  <2>4. QED
    BY <1>1, <2>2, <2>3 DEF IInv, DesignatedIsSole
<1>2. IInv /\ WizardInv /\ [DetectNext]_detectVars =>
        [\A w \in Wizard :
           wizard[w].step = "key_entry_detected" /\ wizard'[w].step = "saving" =>
             /\ Sole(heard["press"], wizard[w].device)
             /\ Sole(heard["confirming"], wizard[w].device)
             /\ heard["baseline"] = Nobody]_detectVars
  BY <1>1
<1>3. QED
  BY <1>2, WizardsAlways, PTL DEF DetectSpec, CommitsWhatWasHeard
=============================================================================
