-------------------------- MODULE CaptureSessions --------------------------
(***************************************************************************)
(* runtime_data.py with evidence_capture.py and radio_census.py: the three *)
(* bounded captures a user may start by hand -- designation, evidence and  *)
(* radio census -- that share one runtime object, cancel one another, and  *)
(* end by timers of their own. Everything runs on the event loop: a step   *)
(* is one callback, and callbacks come in any order. The structure of the  *)
(* telegrams a capture records is left out, their number is not.           *)
(***************************************************************************)
EXTENDS Integers, FiniteSets

CONSTANTS Device,                            \* pseudonymous identifiers heard
          None,                              \* no identifier
          MINIMUM_DESIGNATION_OBSERVATIONS,  \* observations a window requires
          MAX_EVIDENCE_RECORDS               \* records that end a window early

ASSUME NoneAssumption == None \notin Device
ASSUME MinimumAssumption == MINIMUM_DESIGNATION_OBSERVATIONS \in Nat \ {0}
ASSUME RecordsAssumption == MAX_EVIDENCE_RECORDS \in Nat \ {0}

VARIABLES
  designation,  \* the designation fields of Ptm216bRuntimeData
  evidence,     \* the EvidenceCollector
  census,       \* the RadioCensus
  pending,      \* how many times each timer callback is still due to run
  registered,   \* unfiltered Bluetooth callbacks in place for a census
  loaded,       \* whether the config entry is loaded
  heard         \* history: observations in each window of the last designation

vars == <<designation, evidence, census, pending, registered, loaded, heard>>

\* The timer callbacks, each named for the method it runs.
Callback == {"_finish_designation_baseline", "_finish_designation_capture",
             "_finish_designation_confirmation", "_finish_window",
             "_finish_baseline", "_finish_press"}
NoTimer == "no timer"
Handle == Callback \cup {NoTimer}

Window == {"baseline", "press", "confirming"}
Phase == {"baseline", "press"}

\* A candidate's observation_count matters only up to the minimum; zero stands
\* for a device that is no candidate.
Observations == [Device -> 0..MINIMUM_DESIGNATION_OBSERVATIONS]
Nobody == [d \in Device |-> 0]
Observed(counts, d) ==
  [counts EXCEPT ![d] = IF @ < MINIMUM_DESIGNATION_OBSERVATIONS THEN @ + 1 ELSE @]

\* len(candidates) == 1, and that one was observed often enough.
Sole(counts, d) ==
  /\ counts[d] = MINIMUM_DESIGNATION_OBSERVATIONS
  /\ \A other \in Device \ {d} : counts[other] = 0

Designation == [state : Window \cup {"inert"},
                candidates : Observations,
                first_window_identifier : Device \cup {None},
                designated_identifier : Device \cup {None},
                timer : Handle]
Evidence == [state : {"none", "inert", "collecting", "complete", "no_data", "aborted"},
             designated_identifier : Device \cup {None},
             records : 0..MAX_EVIDENCE_RECORDS,
             timer : Handle]
Census == [state : Phase \cup {"none", "inert", "complete"},
           timer : Handle,
           unregister : BOOLEAN]

Inert == [state |-> "inert", candidates |-> Nobody, first_window_identifier |-> None,
          designated_identifier |-> None, timer |-> NoTimer]
NoCollector == [state |-> "none", designated_identifier |-> None, records |-> 0,
                timer |-> NoTimer]
NoCensus == [state |-> "none", timer |-> NoTimer, unregister |-> FALSE]

Designating == designation.state \in Window
Collecting == evidence.state = "collecting"
Listening == census.state \in Phase

Init ==
  /\ designation = Inert
  /\ evidence = NoCollector
  /\ census = NoCensus
  /\ pending = [c \in Callback |-> 0]
  /\ registered = 0
  /\ loaded = TRUE
  /\ heard = [w \in Window |-> Nobody]

-----------------------------------------------------------------------------
(* Cancelling and arming. Cancelling a timer that has run is a no-op.       *)

Timers(cancelled, armed) ==
  pending' = [c \in Callback |->
                (IF c \in cancelled /\ pending[c] > 0 THEN pending[c] - 1 ELSE pending[c])
                  + (IF c \in armed THEN 1 ELSE 0)]

\* EvidenceCollector.cancel and RadioCensus.cancel, of one that exists.
CancelledEvidence ==
  IF evidence.state = "none" THEN evidence
  ELSE [evidence EXCEPT !.state = "inert", !.records = 0, !.timer = NoTimer]

CancelledCensus ==
  IF census.state = "none" THEN census
  ELSE [state |-> "inert", timer |-> NoTimer, unregister |-> FALSE]

\* Mutant: the callback's handle is forgotten without being called.
StillRegistered == registered

\* _unregister_radio_census_callback.
Unregistered == IF census.unregister THEN registered - 1 ELSE registered

-----------------------------------------------------------------------------
(* The user's requests. *)

\* Mutant: the timer of the designation it replaces is not cancelled.
StartDesignationTimer ==
  /\ loaded
  /\ evidence' = IF Collecting THEN CancelledEvidence ELSE evidence
  /\ census' = IF Listening THEN CancelledCensus ELSE census
  /\ registered' = IF Listening THEN Unregistered ELSE registered
  /\ designation' = [Inert EXCEPT !.state = "baseline",
                                  !.timer = "_finish_designation_baseline"]
  /\ Timers((IF Collecting THEN {evidence.timer} ELSE {})
              \cup (IF Listening THEN {census.timer} ELSE {}),
            {"_finish_designation_baseline"})
  /\ heard' = [w \in Window |-> Nobody]
  /\ UNCHANGED loaded

\* Mutant: evidence is cancelled whether it is still collected or complete.
StartDesignationResult ==
  /\ loaded
  /\ evidence' = CancelledEvidence
  /\ census' = IF Listening THEN CancelledCensus ELSE census
  /\ registered' = IF Listening THEN Unregistered ELSE registered
  /\ designation' = [Inert EXCEPT !.state = "baseline",
                                  !.timer = "_finish_designation_baseline"]
  /\ Timers({designation.timer, evidence.timer}
              \cup (IF Listening THEN {census.timer} ELSE {}),
            {"_finish_designation_baseline"})
  /\ heard' = [w \in Window |-> Nobody]
  /\ UNCHANGED loaded

\* start_designation_capture: also replaces a designation that is running.
start_designation_capture ==
  /\ loaded
  /\ evidence' = IF Collecting THEN CancelledEvidence ELSE evidence
  /\ census' = IF Listening THEN CancelledCensus ELSE census
  /\ registered' = IF Listening THEN Unregistered ELSE registered
  /\ designation' = [Inert EXCEPT !.state = "baseline",
                                  !.timer = "_finish_designation_baseline"]
  /\ Timers({designation.timer}
              \cup (IF Collecting THEN {evidence.timer} ELSE {})
              \cup (IF Listening THEN {census.timer} ELSE {}),
            {"_finish_designation_baseline"})
  /\ heard' = [w \in Window |-> Nobody]
  /\ UNCHANGED loaded

\* Mutant: a census that is running is left alone.
StartEvidenceCensus ==
  /\ loaded
  /\ designation.designated_identifier # None
  /\ designation' = IF Designating THEN Inert ELSE designation
  /\ evidence' = [state |-> "collecting",
                  designated_identifier |-> designation'.designated_identifier,
                  records |-> 0,
                  timer |-> "_finish_window"]
  /\ Timers({evidence.timer} \cup (IF Designating THEN {designation.timer} ELSE {}),
            {"_finish_window"})
  /\ UNCHANGED <<census, registered, loaded, heard>>

\* Mutant: a collector that exists keeps the device it was made for.
StartEvidenceSameDevice ==
  /\ loaded
  /\ designation.designated_identifier # None
  /\ designation' = IF Designating THEN Inert ELSE designation
  /\ census' = IF Listening THEN CancelledCensus ELSE census
  /\ registered' = IF Listening THEN Unregistered ELSE registered
  /\ evidence' = [state |-> "collecting",
                  designated_identifier |->
                    IF evidence.state = "none" THEN designation'.designated_identifier
                    ELSE evidence.designated_identifier,
                  records |-> 0,
                  timer |-> "_finish_window"]
  /\ Timers({evidence.timer}
              \cup (IF Designating THEN {designation.timer} ELSE {})
              \cup (IF Listening THEN {census.timer} ELSE {}),
            {"_finish_window"})
  /\ UNCHANGED <<loaded, heard>>

\* start_evidence_capture, once a device is designated; otherwise it returns
\* False and changes nothing.
start_evidence_capture ==
  /\ loaded
  /\ designation.designated_identifier # None
  /\ designation' = IF Designating THEN Inert ELSE designation
  /\ census' = IF Listening THEN CancelledCensus ELSE census
  /\ registered' = IF Listening THEN Unregistered ELSE registered
  /\ evidence' = [state |-> "collecting",
                  designated_identifier |-> designation'.designated_identifier,
                  records |-> 0,
                  timer |-> "_finish_window"]
  /\ Timers({evidence.timer}
              \cup (IF Designating THEN {designation.timer} ELSE {})
              \cup (IF Listening THEN {census.timer} ELSE {}),
            {"_finish_window"})
  /\ UNCHANGED <<loaded, heard>>

\* start_radio_census: replaces its own predecessor, running or complete, and
\* registers the unfiltered callback after arming the timer.
start_radio_census ==
  /\ loaded
  /\ designation' = IF Designating THEN Inert ELSE designation
  /\ evidence' = IF Collecting THEN CancelledEvidence ELSE evidence
  /\ census' = [state |-> "baseline", timer |-> "_finish_baseline", unregister |-> TRUE]
  /\ registered' = Unregistered + 1
  /\ Timers({census.timer}
              \cup (IF Designating THEN {designation.timer} ELSE {})
              \cup (IF Collecting THEN {evidence.timer} ELSE {}),
            {"_finish_baseline"})
  /\ UNCHANGED <<loaded, heard>>

\* SwitchSubentryFlow.async_remove: a wizard that is closed cancels whatever
\* designation is running.
async_remove ==
  /\ loaded
  /\ Designating
  /\ designation' = Inert
  /\ Timers({designation.timer}, {})
  /\ UNCHANGED <<evidence, census, registered, loaded, heard>>

-----------------------------------------------------------------------------
(* record_advertisement_observation: one advertisement of device d that     *)
(* passed the manufacturer filter, seen by designation and by evidence.     *)

\* Length at least 24, or less than 9; no value; anything else.
ValueKind == {"unusable", "no_value", "telegram"}

record_designation_candidate(d) ==
  IF Designating
  THEN /\ designation' = [designation EXCEPT !.candidates = Observed(@, d)]
       /\ heard' = [heard EXCEPT ![designation.state] = Observed(@, d)]
  ELSE UNCHANGED <<designation, heard>>

\* record_callback: an unusable value aborts and discards everything, the last
\* record allowed completes the window early.
record_callback(d, kind) ==
  IF ~Collecting \/ d # evidence.designated_identifier \/ kind = "no_value"
  THEN UNCHANGED <<evidence, pending>>
  ELSE IF kind = "unusable"
  THEN /\ evidence' = [evidence EXCEPT !.state = "aborted", !.records = 0,
                                       !.timer = NoTimer]
       /\ Timers({evidence.timer}, {})
  ELSE IF evidence.records + 1 < MAX_EVIDENCE_RECORDS
  THEN /\ evidence' = [evidence EXCEPT !.records = @ + 1]
       /\ UNCHANGED pending
  ELSE /\ evidence' = [evidence EXCEPT !.state = "complete", !.timer = NoTimer,
                                       !.records = MAX_EVIDENCE_RECORDS]
       /\ Timers({evidence.timer}, {})

record_advertisement_observation(d, kind) ==
  /\ loaded
  /\ record_designation_candidate(d)
  /\ record_callback(d, kind)
  /\ UNCHANGED <<census, registered, loaded>>

-----------------------------------------------------------------------------
(* The timers. A callback trusts that it runs in the phase it was armed     *)
(* for: none of them looks at the state again. A designation callback that  *)
(* finds no scheduler, so none running, ends without a selection.           *)

Due(callback) == pending[callback] > 0

_finish_designation_baseline ==
  /\ Due("_finish_designation_baseline")
  /\ IF Designating /\ designation.candidates = Nobody
     THEN /\ designation' = [designation EXCEPT !.state = "press",
                                                !.timer = "_finish_designation_capture"]
          /\ Timers({"_finish_designation_baseline"}, {"_finish_designation_capture"})
     ELSE /\ designation' = Inert
          /\ Timers({"_finish_designation_baseline"}, {})
  /\ UNCHANGED <<evidence, census, registered, loaded, heard>>

\* Mutant: the second window starts with the observations of the first.
CaptureKeepsCandidates ==
  /\ Due("_finish_designation_capture")
  /\ \/ \E d \in Device :
          /\ Designating
          /\ Sole(designation.candidates, d)
          /\ designation' = [designation EXCEPT !.state = "confirming",
                                                !.first_window_identifier = d,
                                                !.timer = "_finish_designation_confirmation"]
          /\ Timers({"_finish_designation_capture"}, {"_finish_designation_confirmation"})
     \/ /\ ~ \E d \in Device : Designating /\ Sole(designation.candidates, d)
        /\ designation' = Inert
        /\ Timers({"_finish_designation_capture"}, {})
  /\ UNCHANGED <<evidence, census, registered, loaded, heard>>

\* The sole candidate of the first window must repeat itself in a second one.
_finish_designation_capture ==
  /\ Due("_finish_designation_capture")
  /\ \/ \E d \in Device :
          /\ Designating
          /\ Sole(designation.candidates, d)
          /\ designation' = [designation EXCEPT !.state = "confirming",
                                                !.candidates = Nobody,
                                                !.first_window_identifier = d,
                                                !.timer = "_finish_designation_confirmation"]
          /\ Timers({"_finish_designation_capture"}, {"_finish_designation_confirmation"})
     \/ /\ ~ \E d \in Device : Designating /\ Sole(designation.candidates, d)
        /\ designation' = Inert
        /\ Timers({"_finish_designation_capture"}, {})
  /\ UNCHANGED <<evidence, census, registered, loaded, heard>>

_finish_designation_confirmation ==
  /\ Due("_finish_designation_confirmation")
  /\ designation' = [Inert EXCEPT !.designated_identifier =
       IF \E d \in Device : Sole(designation.candidates, d)
                              /\ d = designation.first_window_identifier
       THEN designation.first_window_identifier ELSE None]
  /\ Timers({"_finish_designation_confirmation"}, {})
  /\ UNCHANGED <<evidence, census, registered, loaded, heard>>

\* The evidence window ends.
_finish_window ==
  /\ Due("_finish_window")
  /\ evidence' = [evidence EXCEPT !.state = IF evidence.records > 0 THEN "complete"
                                                                    ELSE "no_data",
                                  !.timer = NoTimer]
  /\ Timers({"_finish_window"}, {})
  /\ UNCHANGED <<designation, census, registered, loaded, heard>>

\* Mutant: the baseline is started again.
BaselineRepeats ==
  /\ Due("_finish_baseline")
  /\ census' = [census EXCEPT !.timer = "_finish_baseline"]
  /\ Timers({"_finish_baseline"}, {"_finish_baseline"})
  /\ UNCHANGED <<designation, evidence, registered, loaded, heard>>

\* The census goes from its baseline to its press phase.
_finish_baseline ==
  /\ Due("_finish_baseline")
  /\ census' = [census EXCEPT !.state = "press", !.timer = "_finish_press"]
  /\ Timers({"_finish_baseline"}, {"_finish_press"})
  /\ UNCHANGED <<designation, evidence, registered, loaded, heard>>

\* The census is complete; _notify_radio_census takes its callback down.
_finish_press ==
  /\ Due("_finish_press")
  /\ census' = [state |-> "complete", timer |-> NoTimer, unregister |-> FALSE]
  /\ registered' = Unregistered
  /\ Timers({"_finish_press"}, {})
  /\ UNCHANGED <<designation, evidence, loaded, heard>>

-----------------------------------------------------------------------------
(* The entry's lifecycle. *)

\* async_unload_entry, when the platforms could be unloaded.
async_unload_entry ==
  /\ loaded
  /\ loaded' = FALSE
  /\ designation' = Inert
  /\ evidence' = CancelledEvidence
  /\ census' = CancelledCensus
  /\ registered' = Unregistered
  /\ Timers({designation.timer, evidence.timer, census.timer}, {})
  /\ UNCHANGED heard

\* async_setup_entry gives the entry a fresh runtime object.
async_setup_entry ==
  /\ ~loaded
  /\ loaded' = TRUE
  /\ designation' = Inert
  /\ evidence' = NoCollector
  /\ census' = NoCensus
  /\ heard' = [w \in Window |-> Nobody]
  /\ UNCHANGED <<pending, registered>>

Request == start_designation_capture \/ start_evidence_capture \/ start_radio_census

Timer ==
  \/ _finish_designation_baseline
  \/ _finish_designation_capture
  \/ _finish_designation_confirmation
  \/ _finish_window
  \/ _finish_baseline
  \/ _finish_press

Next ==
  \/ start_designation_capture
  \/ start_evidence_capture
  \/ start_radio_census
  \/ async_remove
  \/ \E d \in Device, kind \in ValueKind : record_advertisement_observation(d, kind)
  \/ Timer
  \/ async_unload_entry
  \/ async_setup_entry

Spec == Init /\ [][Next]_vars

\* async_call_later runs what is due; nothing is assumed of radio or user.
FairSpec == Spec /\ WF_vars(Timer)

-----------------------------------------------------------------------------

TypeOK ==
  /\ designation \in Designation
  /\ evidence \in Evidence
  /\ census \in Census
  /\ pending \in [Callback -> Nat]
  /\ registered \in Nat
  /\ loaded \in BOOLEAN
  /\ heard \in [Window -> Observations]

\* The captures exclude one another: whatever the user starts in whatever
\* order, at most one of the three is running.
OneCaptureAtATime ==
  /\ ~(Designating /\ Collecting)
  /\ ~(Designating /\ Listening)
  /\ ~(Collecting /\ Listening)

\* The callback each phase waits for.
DesignationTimer(state) ==
  CASE state = "baseline" -> "_finish_designation_baseline"
    [] state = "press" -> "_finish_designation_capture"
    [] state = "confirming" -> "_finish_designation_confirmation"
    [] OTHER -> NoTimer
EvidenceTimer(state) == IF state = "collecting" THEN "_finish_window" ELSE NoTimer
CensusTimer(state) ==
  CASE state = "baseline" -> "_finish_baseline"
    [] state = "press" -> "_finish_press"
    [] OTHER -> NoTimer

\* A timer is due, once, exactly for the phase that is running: no timer of a
\* replaced, cancelled or unloaded capture is left to end a later one early,
\* and no capture runs on without one. The callbacks rely on this, since they
\* do not look at the state.
Expected ==
  {DesignationTimer(designation.state), EvidenceTimer(evidence.state),
   CensusTimer(census.state)} \ {NoTimer}

TimersMatchPhases ==
  \A c \in Callback : pending[c] = IF c \in Expected THEN 1 ELSE 0

\* The integration hears every advertisement of the neighbourhood only while a
\* census is running, through one callback, and never after the unload.
HearsAllOnlyForCensus ==
  /\ registered = IF Listening THEN 1 ELSE 0
  /\ census.unregister <=> Listening

\* A device is designated only if its was the only voice in both press windows
\* of one and the same designation, often enough in each, after a baseline in
\* which nobody spoke.
DesignatedIsSole ==
  \A d \in Device : designation.designated_identifier = d =>
    /\ heard["baseline"] = Nobody
    /\ Sole(heard["press"], d)
    /\ Sole(heard["confirming"], d)

\* Nothing heard in a designation is kept once it is over, however it ended;
\* while it runs nobody is designated, so that no evidence can be started.
NothingKept ==
  /\ ~Designating => /\ designation.candidates = Nobody
                     /\ designation.first_window_identifier = None
  /\ Designating => designation.designated_identifier = None
  /\ evidence.state \in {"none", "inert", "no_data", "aborted"} => evidence.records = 0

\* Evidence is collected only for the device that is designated now, not for
\* one designated before.
EvidenceOfDesignated ==
  Collecting => /\ evidence.designated_identifier = designation.designated_identifier
                /\ evidence.designated_identifier \in Device
                /\ evidence.records < MAX_EVIDENCE_RECORDS

\* A finished result stays until a capture of its own kind is started or the
\* entry is unloaded: starting, cancelling or finishing another capture never
\* takes it away.
ResultsSurvive ==
  [][(loaded /\ loaded') =>
       /\ evidence.state \in {"complete", "no_data", "aborted"} =>
            evidence' = evidence \/ evidence'.state = "collecting"
       /\ census.state = "complete" => census' = census \/ census'.state = "baseline"
       /\ designation.designated_identifier # None =>
            \/ designation'.designated_identifier = designation.designated_identifier
            \/ designation'.state = "baseline"]_vars

\* Once the user starts no more captures, every capture ends by itself.
EveryCaptureEnds ==
  <>[][~Request]_vars => <>[](~Designating /\ ~Collecting /\ ~Listening)

\* The inductive invariant behind the safety properties. Each capture holds the
\* handle of the timer its phase waits for.
HandlesMatch ==
  /\ designation.timer = DesignationTimer(designation.state)
  /\ evidence.timer = EvidenceTimer(evidence.state)
  /\ census.timer = CensusTimer(census.state)

\* The running windows' candidates are what was heard in them.
CandidatesAreHeard ==
  /\ Designating => heard[designation.state] = designation.candidates
  /\ designation.state \in {"press", "confirming"} => heard["baseline"] = Nobody
  /\ designation.state = "baseline" => heard["press"] = Nobody
  /\ designation.state \in {"baseline", "press"} => heard["confirming"] = Nobody
  /\ designation.state = "confirming" =>
       /\ designation.first_window_identifier \in Device
       /\ Sole(heard["press"], designation.first_window_identifier)

UnloadedIsIdle == ~loaded => ~Designating /\ ~Collecting /\ ~Listening

IInv ==
  /\ TypeOK
  /\ OneCaptureAtATime
  /\ TimersMatchPhases
  /\ HandlesMatch
  /\ HearsAllOnlyForCensus
  /\ NothingKept
  /\ EvidenceOfDesignated
  /\ CandidatesAreHeard
  /\ DesignatedIsSole
  /\ UnloadedIsIdle
=============================================================================
