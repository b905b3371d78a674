----------------------------- MODULE DetectFlow -----------------------------
(***************************************************************************)
(* SwitchSubentryFlow of config_flow.py over the designation it shares     *)
(* with every other wizard and with the user: several wizards detect,      *)
(* fail, are closed and commit in any order, while captures are started    *)
(* by hand and the entry is reloaded. What a wizard writes to the store is *)
(* EntryLifecycle's; here it matters which switch it was heard from.       *)
(***************************************************************************)
EXTENDS CaptureSessions

CONSTANTS Wizard  \* flows that may be open at a time

VARIABLES
  wizard,  \* the open flows: step shown, progress, switch being committed
  owner    \* history: the wizard whose detection started the last
           \* designation, None if it was started by hand

wizardVars == <<wizard, owner>>
detectVars == <<vars, wizardVars>>

ASSUME WizardAssumption == None \notin Wizard

\* "closed" is no flow; "menu" stands for user and detect_failed, which offer the
\* same. A form with a device has been submitted: it waits for its photo. A task
\* that is "spent" is done like a "done" one, and the one call that the flow manager
\* makes for it has been made.
Step == {"closed", "menu", "detect", "key_entry_detected", "key_entry_manual", "saving"}
Flow == [step : Step,
         detect_phase : Window \cup {"none"},
         task : {"none", "running", "done", "spent"},
         device : Device \cup {None},
         reloaded : BOOLEAN]
Closed == [step |-> "closed", detect_phase |-> "none", task |-> "none",
           device |-> None, reloaded |-> FALSE]

DetectInit ==
  /\ Init
  /\ wizard = [w \in Wizard |-> Closed]
  /\ owner = None

-----------------------------------------------------------------------------
(* The steps of a wizard. *)

async_step_user(w) ==
  /\ wizard[w].step = "closed"
  /\ wizard' = [wizard EXCEPT ![w].step = "menu"]
  /\ UNCHANGED <<vars, owner>>

\* Detection is chosen from a menu, where there is never a task: it starts a
\* designation and shows its first phase.
ChooseDetect(w) ==
  /\ wizard[w].step = "menu"
  /\ start_designation_capture
  /\ wizard' = [wizard EXCEPT ![w].step = "detect", ![w].detect_phase = "baseline",
                              ![w].task = "running"]
  /\ owner' = w

\* The form is shown by a step that reads the runtime first.
ChooseManual(w) ==
  /\ wizard[w].step = "menu"
  /\ loaded
  /\ wizard' = [wizard EXCEPT ![w].step = "key_entry_manual"]
  /\ UNCHANGED <<vars, owner>>

TaskIsDone(w) == wizard[w].task \in {"done", "spent"}

\* Mutant: a task that is done is not replaced while the phase lasts. The flow
\* manager calls once for each task, and has called for this one.
DetectWithoutBeat(w) ==
  /\ wizard[w].step = "detect"
  /\ loaded
  /\ \/ /\ ~Designating
        /\ wizard' = [wizard EXCEPT ![w] =
             [Closed EXCEPT !.step = IF designation.designated_identifier # None
                                     THEN "key_entry_detected" ELSE "menu"]]
     \/ /\ Designating
        /\ wizard[w].detect_phase # designation.state \/ TaskIsDone(w)
        /\ wizard' = [wizard EXCEPT ![w].detect_phase = designation.state,
                                    ![w].task = IF wizard[w].detect_phase # designation.state
                                                THEN "running" ELSE "none"]
  /\ UNCHANGED <<vars, owner>>

\* async_step_detect, called again when its task is done and whenever the
\* frontend asks. It reads what the designation is at by now, whoever started it,
\* and shows a new phase, or the same one for another beat, or goes on. Home
\* Assistant deletes the runtime when it unloads the entry: until the next one is
\* there, the step raises on its second line.
async_step_detect(w) ==
  /\ wizard[w].step = "detect"
  /\ loaded
  /\ \/ /\ ~Designating
        /\ wizard' = [wizard EXCEPT ![w] =
             [Closed EXCEPT !.step = IF designation.designated_identifier # None
                                     THEN "key_entry_detected" ELSE "menu"]]
     \/ /\ Designating
        /\ wizard[w].detect_phase # designation.state \/ TaskIsDone(w)
        /\ wizard' = [wizard EXCEPT ![w].detect_phase = designation.state,
                                    ![w].task = "running"]
  /\ UNCHANGED <<vars, owner>>

\* The flow manager's call for a task that is done, while there is no runtime: it
\* raises, the flow stays where it is, and no other call is made for that task.
\* (A call of the frontend that raises changes nothing.)
DetectRaises(w) ==
  /\ wizard[w].step = "detect"
  /\ wizard[w].task = "done"
  /\ ~loaded
  /\ wizard' = [wizard EXCEPT ![w].task = "spent"]
  /\ UNCHANGED <<vars, owner>>

TaskDone(w) ==
  /\ wizard[w].task = "running"
  /\ wizard' = [wizard EXCEPT ![w].task = "done"]
  /\ UNCHANGED <<vars, owner>>

Decoding(w) == wizard[w].step = "key_entry_detected" /\ wizard[w].device # None

\* The form is submitted with the address of a switch. The runtime is read now,
\* and what follows waits for the photo.
Submit(w, d) ==
  /\ wizard[w].step = "key_entry_detected"
  /\ wizard[w].device = None
  /\ loaded
  /\ wizard' = [wizard EXCEPT ![w].device = d]
  /\ UNCHANGED <<vars, owner>>

\* The form is shown again: incomplete data, or a switch that has a record.
ShowErrors(w) ==
  /\ Decoding(w)
  /\ wizard' = [wizard EXCEPT ![w].device = None, ![w].reloaded = FALSE]
  /\ UNCHANGED <<vars, owner>>

\* The designated_identifier of the runtime the wizard read: one that has been
\* unloaded meanwhile was cancelled.
Designated(w) == IF wizard[w].reloaded THEN None ELSE designation.designated_identifier

Mismatch(w) == wizard[w].device # Designated(w)

\* Mutant: a flow that is removed leaves the designation running.
RemoveTaskOnly(w) ==
  /\ wizard' = [wizard EXCEPT ![w] = Closed]
  /\ UNCHANGED <<vars, owner>>

\* The flow manager drops a flow that was closed, aborted or finished, and its
\* async_remove cancels whichever designation is running.
RemoveFlow(w) ==
  /\ wizard' = [wizard EXCEPT ![w] = Closed]
  /\ \/ async_remove
     \/ ~Designating /\ UNCHANGED vars
  /\ UNCHANGED owner

\* Mutant: the address is not compared once more after the decoding.
CommitAnyway(w) ==
  /\ Decoding(w)
  /\ wizard' = [wizard EXCEPT ![w] = [Closed EXCEPT !.step = "saving"]]
  /\ UNCHANGED <<vars, owner>>

\* The photo is decoded, nothing is wrong with the data: async_add is awaited.
Commit(w) ==
  /\ Decoding(w)
  /\ ~Mismatch(w)
  /\ wizard' = [wizard EXCEPT ![w] = [Closed EXCEPT !.step = "saving"]]
  /\ UNCHANGED <<vars, owner>>

\* Without detection nothing is compared. The form was submitted while there was a
\* runtime; the photo may be decoded after that one is gone.
CommitManual(w) ==
  /\ wizard[w].step = "key_entry_manual"
  /\ wizard' = [wizard EXCEPT ![w].step = "saving"]
  /\ UNCHANGED <<vars, owner>>

AbortMismatch(w) ==
  /\ Decoding(w)
  /\ Mismatch(w)
  /\ RemoveFlow(w)

\* The record is saved: the subentry is created and the flow is over.
CreateEntry(w) ==
  /\ wizard[w].step = "saving"
  /\ RemoveFlow(w)

Close(w) ==
  /\ wizard[w].step # "closed"
  /\ RemoveFlow(w)

\* A flow that edits a switch is of the same class: when it is over, it too
\* cancels a designation that is running.
ReconfigureRemoved ==
  /\ async_remove
  /\ UNCHANGED wizardVars

-----------------------------------------------------------------------------
(* What happens around them. *)

StartByHand ==
  /\ start_designation_capture
  /\ owner' = None
  /\ UNCHANGED wizard

StartOther ==
  /\ start_evidence_capture \/ start_radio_census
  /\ UNCHANGED wizardVars

Advertisement ==
  /\ \E d \in Device, kind \in ValueKind : record_advertisement_observation(d, kind)
  /\ UNCHANGED wizardVars

RunTimer == Timer /\ UNCHANGED wizardVars

Unload ==
  /\ async_unload_entry
  /\ wizard' = [w \in Wizard |->
                  IF wizard[w].device # None THEN [wizard[w] EXCEPT !.reloaded = TRUE]
                  ELSE wizard[w]]
  /\ UNCHANGED owner

SetUp == async_setup_entry /\ UNCHANGED wizardVars

Progress(w) ==
  \/ TaskDone(w)
  \/ wizard[w].task = "done" /\ async_step_detect(w)
  \/ DetectRaises(w)

DetectNext ==
  \/ \E w \in Wizard :
       \/ async_step_user(w) \/ ChooseDetect(w) \/ ChooseManual(w)
       \/ async_step_detect(w) \/ TaskDone(w) \/ DetectRaises(w)
       \/ \E d \in Device : Submit(w, d)
       \/ ShowErrors(w) \/ Commit(w) \/ CommitManual(w) \/ AbortMismatch(w)
       \/ CreateEntry(w) \/ Close(w)
  \/ ReconfigureRemoved
  \/ StartByHand
  \/ StartOther
  \/ Advertisement
  \/ RunTimer
  \/ Unload
  \/ SetUp

DetectSpec == DetectInit /\ [][DetectNext]_detectVars

\* The event loop runs due timers, and the flow manager calls a step again whose
\* task is done. Nothing is assumed of user and radio.
DetectFairSpec ==
  /\ DetectSpec
  /\ WF_detectVars(RunTimer)
  /\ \A w \in Wizard : WF_detectVars(Progress(w))

-----------------------------------------------------------------------------

DetectTypeOK ==
  /\ TypeOK
  /\ wizard \in [Wizard -> Flow]
  /\ owner \in Wizard \cup {None}

\* "Cancel a still-running detection if this flow is abandoned": a designation
\* that a wizard started runs only while that wizard shows its progress, so that
\* none goes on for nobody and blocks evidence capture.
DetectionHasWizard ==
  Designating /\ owner # None => wizard[owner].step = "detect"

\* "the next step's entered address is cross-checked against the switch you
\* actually pressed": what a wizard commits after a
\* detection is, at that moment, the sole voice of both windows of the latest
\* designation, whatever other wizards, captures and reloads came in between.
CommitsWhatWasHeard ==
  [][\A w \in Wizard :
       wizard[w].step = "key_entry_detected" /\ wizard'[w].step = "saving" =>
         /\ Sole(heard["press"], wizard[w].device)
         /\ Sole(heard["confirming"], wizard[w].device)
         /\ heard["baseline"] = Nobody]_detectVars

\* No wizard is left showing progress because its designation was replaced or
\* cancelled by another wizard: once no more designations are started, each goes on
\* to its next step by itself. The exception is a wizard whose task was over while
\* the entry had no runtime: its call has raised, and it waits for the frontend.
DetectionEnds ==
  <>[][~start_designation_capture]_vars =>
    <>[](\A w \in Wizard : wizard[w].step # "detect" \/ wizard[w].task = "spent")
=============================================================================
