--------------------------- MODULE PressPipeline ---------------------------
(***************************************************************************)
(* The pipeline of one switch feeding its press tracker: what record_      *)
(* verified_and_fire joins. The press and release telegrams of a button    *)
(* wait for the lock and for a save each before the tracker hears of them, *)
(* while the hold timer runs on the event loop on its own.                 *)
(***************************************************************************)
EXTENDS ButtonPipeline, FiniteSets

CONSTANTS TheSwitch,  \* the one switch of this composition
          Rockers     \* its configured rockers

ASSUME SwitchAssumption == Switch = {TheSwitch}

VARIABLES scheduler, listener, open, timers, heard, fed,  \* as in PressTiming
          subentry,  \* whether the entry has the switch's subentry
          fresh      \* history: how many of the events precede the setup

trackerVars == <<scheduler, listener, open, timers, heard, fed>>
pipelineVars == vars
setupVars == <<subentry, fresh>>
allVars == <<pipelineVars, trackerVars, setupVars>>

Decoded == {interpret_switch_status(status).pattern :
              status \in {valid \in Status : Decodes(valid)}}

\* Home Assistant's async_call_later never runs what was cancelled. Events have
\* rising counters, so there are never more of them than counters.
Tracker == INSTANCE PressTiming
             WITH Raw <- Decoded, ReliableCancel <- TRUE,
                  MaxStates <- Cardinality(Counter)

\* The memory of a tracker that has just been made.
NoneOpen == [p \in Tracker!Pattern |-> Tracker!NoPress]
NothingHeard == [p \in Tracker!Pattern |-> <<>>]

\* No switch is commissioned yet.
PressInit ==
  /\ Init
  /\ scheduler = FALSE
  /\ listener = {}
  /\ open = NoneOpen
  /\ timers = {}
  /\ heard = NothingHeard
  /\ fed = 0
  /\ subentry = FALSE
  /\ fresh = 0

\* Mutant: the energy bow's bit is read the other way round.
FireAndTrackInverted(s) ==
  LET state == interpret_switch_status(Telegram(s).status)
      p == normalize_button_pattern(state.pattern, Rockers)
  IN  /\ Fire(s)
      /\ IF ~state.is_press THEN Tracker!HandlePress(p)
         ELSE Tracker!HandleRelease(p) \/ Tracker!HandleLoneRelease(p)
      /\ UNCHANGED setupVars

\* record_verified_and_fire: the event is counted, normalised and handed to the
\* tracker in one step of the event loop. A tracker that no setup has configured
\* is fed as well, without a hold timer and with nobody to tell; it normalises for
\* two rockers, which nothing can show before the setup replaces it.
FireAndTrack(s) ==
  LET state == interpret_switch_status(Telegram(s).status)
      p == normalize_button_pattern(state.pattern, Rockers)
  IN  /\ Fire(s)
      /\ IF state.is_press THEN Tracker!HandlePress(p)
         ELSE Tracker!HandleRelease(p) \/ Tracker!HandleLoneRelease(p)
      /\ UNCHANGED setupVars

\* Any other step of the pipeline leaves the tracker alone. A telegram of a switch
\* is taken as soon as the wizard has put its record into the cache.
PipelineStep ==
  /\ \/ \E s \in Switch :
          \/ async_add(s)
          \/ Radio(s)
          \/ FirstTrust(s)
          \/ Accept(s)
          \/ RejectReplay(s)
          \/ FinishFirstTrust(s)
          \/ RejectStatus(s)
          \/ SaveRaised(s)
     \/ WriteFails
  /\ UNCHANGED <<trackerVars, setupVars>>

\* A save has ended well. If it was the wizard's, the wizard creates the subentry;
\* after one that raised it never does, and the record stays in the cache.
SaveDone ==
  /\ WriteDone
  /\ subentry' = (subentry \/ Head(writes).by = Wizard)
  /\ UNCHANGED <<trackerVars, fresh>>

\* A due hold timer runs between any two steps of the pipeline's tasks.
HoldTimer ==
  /\ \E t \in timers : Tracker!FireTimer(t)
  /\ UNCHANGED <<pipelineVars, setupVars>>

\* async_will_remove_from_hass: the entry is being unloaded, its entities go one
\* after the other, while tasks, timers and the radio go on.
RemoveEntity ==
  /\ \E p \in Tracker!Pattern : Tracker!RemoveListener(p)
  /\ UNCHANGED <<pipelineVars, setupVars>>

\* A setup, with a runtime of its own: after a stop or crash of Home Assistant, or
\* in a reload that finds no task and no save under way. event.py then configures
\* the tracker of a switch that has a record and a subentry, before the radio is
\* listened to again. A record without subentry would be purged: out of scope.
SetUpAll ==
  /\ Restart
  /\ disk[TheSwitch] # NoRecord => subentry
  /\ scheduler' = (disk[TheSwitch] # NoRecord)
  /\ listener' = IF disk[TheSwitch] # NoRecord THEN Tracker!Pattern ELSE {}
  /\ open' = NoneOpen
  /\ timers' = {}
  /\ heard' = NothingHeard
  /\ fed' = 0
  /\ fresh' = Len(events[TheSwitch])
  /\ UNCHANGED subentry

PressNext ==
  \/ \E s \in Switch : FireAndTrack(s)
  \/ PipelineStep
  \/ SaveDone
  \/ HoldTimer
  \/ RemoveEntity
  \/ SetUpAll

PressSpec == PressInit /\ [][PressNext]_allVars

\* The event loop runs the pipeline's tasks and its saves end; nothing is assumed
\* of the hold timers.
PressFairSpec == PressSpec /\ Fairness

-----------------------------------------------------------------------------

\* The events of the running session that one button fired, as places in the
\* history, and the places where its listener heard a raw action.
RawAction(e) == IF interpret_switch_status(e.status).is_press THEN "press" ELSE "release"
IsOf(e, p) == normalize_button_pattern(interpret_switch_status(e.status).pattern, Rockers) = p

Fired(p) == {n \in DOMAIN events[TheSwitch] : n > fresh /\ IsOf(events[TheSwitch][n], p)}
RawHeard(p) == {i \in DOMAIN heard[p] : heard[p][i] \in {"press", "release"}}

\* What a button's listener has heard, its durations left out, is what the durable
\* telegrams of the session said of that button, in their order, from the first
\* one on and without a gap: each event it was told of has a place of its own among
\* the raw actions heard, and none is left. It was told of all of them while it is
\* there. Events of a button without one nobody hears: a switch whose record is newer
\* than the setup, or was never saved by its wizard, or an entity already removed.
RawHeardIsWhatFired ==
  \A p \in Tracker!Pattern : \E told \in SUBSET Fired(p) :
    /\ p \in listener => told = Fired(p)
    /\ \A m \in Fired(p), n \in told : m < n => m \in told
    /\ \E place \in [told -> RawHeard(p)] :
         /\ \A m, n \in told : m < n => place[m] < place[n]
         /\ \A i \in RawHeard(p) : \E n \in told : place[n] = i
         /\ \A n \in told : heard[p][place[n]] = RawAction(events[TheSwitch][n])

\* A short press is heard only between a press and a release of the same button
\* that are both fired and durable, with no other press of it in between.
IsShort(p, i) == heard[p][i] = "short_press"
ShortPressIsBacked ==
  \A p \in Tracker!Pattern : \A i \in DOMAIN heard[p] : IsShort(p, i) =>
    /\ i > 1 /\ i < Len(heard[p])
    /\ heard[p][i - 1] = "press"
    /\ heard[p][i + 1] = "release"

\* long_press "fires the moment the threshold elapses while the button is still
\* held": never once its release has been received and verified.
Released(p) ==
  \E i \in DOMAIN queue[TheSwitch] :
    LET e == queue[TheSwitch][i]
    IN  Decodes(e.status) /\ IsOf(e, p) /\ RawAction(e) = "release"

LongPressOnlyWhileHeld ==
  [][\A p \in Tracker!Pattern :
       (~open[p].long_fired /\ open'[p].long_fired) => ~Released(p)]_allVars
=============================================================================
