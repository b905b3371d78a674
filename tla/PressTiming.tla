---------------------------- MODULE PressTiming ----------------------------
(***************************************************************************)
(* press_timing.py: the short/long press tracker of one switch, fed with   *)
(* verified button states in the order the pipeline accepts them. Presses  *)
(* and releases may be missing (radio loss). A hold timer may run at any   *)
(* moment after it was scheduled; when the scheduler's cancel is not       *)
(* reliable, even after it was cancelled.                                  *)
(***************************************************************************)
EXTENDS Integers, Sequences, Telegram

CONSTANTS Raw,             \* the patterns the decoder reports for this switch
          Rockers,         \* the switch's configured rockers
          ReliableCancel,  \* whether a cancelled timer never runs
          MaxStates        \* bound: button states fed to the tracker

ASSUME RawAssumption == Raw \subseteq ButtonPattern
ASSUME CancelAssumption == ReliableCancel \in BOOLEAN

\* The logical patterns the tracker sees, after record_verified_and_fire has
\* normalised the decoded one.
Pattern == {normalize_button_pattern(raw, Rockers) : raw \in Raw}

VARIABLES
  scheduler,  \* whether event.py has injected a scheduler
  listener,   \* PressTimingTracker._listeners: patterns that have one
  open,       \* PressTimingTracker._open: the in-flight press of a pattern
  timers,     \* hold timers that may still run
  heard,      \* history: what each pattern's listener has been told
  fed         \* button states so far; also the identity of an _OpenPress

vars == <<scheduler, listener, open, timers, heard, fed>>

\* An _OpenPress is known by the number of the state that opened it; zero
\* stands for a pattern without one.
OpenPress == [id : Nat, long_fired : BOOLEAN]
NoPress == [id |-> 0, long_fired |-> FALSE]
Timer == [pattern : Pattern, id : Nat]
PressAction == {"press", "release", "short_press", "long_press"}

\* event.py configures the tracker before the first telegram; the tracker of
\* a switch the wizard has only just added has neither scheduler nor listener
\* until the entry is reloaded.
Init ==
  /\ scheduler \in BOOLEAN
  /\ listener = {}
  /\ open = [p \in Pattern |-> NoPress]
  /\ timers = {}
  /\ heard = [p \in Pattern |-> <<>>]
  /\ fed = 0

\* _emit: told to the pattern's listener, if there is one.
Emit(p, actions) ==
  heard' = IF p \in listener THEN [heard EXCEPT ![p] = @ \o actions] ELSE heard

\* The timers that may be left after cancel_timer of p's open press.
AfterCancel(p) ==
  LET cancelled == timers \ {[pattern |-> p, id |-> open[p].id]}
  IN  IF ReliableCancel THEN {cancelled} ELSE {cancelled, timers}

\* set_listener: an event entity is added, or is about to be removed.
AddListener(p) ==
  /\ p \notin listener
  /\ listener' = listener \cup {p}
  /\ UNCHANGED <<scheduler, open, timers, heard, fed>>

RemoveListener(p) ==
  /\ p \in listener
  /\ listener' = listener \ {p}
  /\ UNCHANGED <<scheduler, open, timers, heard, fed>>

\* Mutant: the timer of an orphaned press is taken to serve the new one.
HandlePressOldTimer(p) ==
  /\ fed < MaxStates
  /\ fed' = fed + 1
  /\ Emit(p, <<"press">>)
  /\ open' = [open EXCEPT ![p] = [id |-> fed + 1, long_fired |-> FALSE]]
  /\ timers' = IF scheduler /\ open[p] = NoPress
               THEN timers \cup {[pattern |-> p, id |-> fed + 1]} ELSE timers
  /\ UNCHANGED <<scheduler, listener>>

\* _handle_press: an orphan of the same pattern is reset without a word.
HandlePress(p) ==
  /\ fed < MaxStates
  /\ fed' = fed + 1
  /\ Emit(p, <<"press">>)
  /\ open' = [open EXCEPT ![p] = [id |-> fed + 1, long_fired |-> FALSE]]
  /\ \E left \in AfterCancel(p) :
       timers' = IF scheduler THEN left \cup {[pattern |-> p, id |-> fed + 1]}
                              ELSE left
  /\ UNCHANGED <<scheduler, listener>>

\* Mutant: the release of a long press is reported as a short press too.
HandleReleaseShort(p) ==
  /\ fed < MaxStates
  /\ open[p] # NoPress
  /\ fed' = fed + 1
  /\ Emit(p, <<"short_press", "release">>)
  /\ open' = [open EXCEPT ![p] = NoPress]
  /\ timers' \in AfterCancel(p)
  /\ UNCHANGED <<scheduler, listener>>

\* _handle_release of an open press.
HandleRelease(p) ==
  /\ fed < MaxStates
  /\ open[p] # NoPress
  /\ fed' = fed + 1
  /\ Emit(p, IF open[p].long_fired THEN <<"release">>
                                   ELSE <<"short_press", "release">>)
  /\ open' = [open EXCEPT ![p] = NoPress]
  /\ timers' \in AfterCancel(p)
  /\ UNCHANGED <<scheduler, listener>>

\* Mutant: a release without its press is reported as a short press.
HandleLoneReleaseShort(p) ==
  /\ fed < MaxStates
  /\ open[p] = NoPress
  /\ fed' = fed + 1
  /\ Emit(p, <<"short_press", "release">>)
  /\ UNCHANGED <<scheduler, listener, open, timers>>

\* _handle_release of a pattern with no open press: only the raw release.
HandleLoneRelease(p) ==
  /\ fed < MaxStates
  /\ open[p] = NoPress
  /\ fed' = fed + 1
  /\ Emit(p, <<"release">>)
  /\ UNCHANGED <<scheduler, listener, open, timers>>

\* Mutant: the press is not marked as reported.
FireLongPressUnmarked(t) ==
  /\ t \in timers
  /\ open[t.pattern].id = t.id
  /\ timers' = timers \ {t}
  /\ Emit(t.pattern, <<"long_press">>)
  /\ UNCHANGED <<scheduler, listener, open, fed>>

\* _fire_long_press: the timer of the press that is still open.
FireLongPress(t) ==
  /\ t \in timers
  /\ open[t.pattern].id = t.id
  /\ timers' = timers \ {t}
  /\ open' = [open EXCEPT ![t.pattern].long_fired = TRUE]
  /\ Emit(t.pattern, <<"long_press">>)
  /\ UNCHANGED <<scheduler, listener, fed>>

\* _fire_long_press: a stale timer, of a press that is no longer the open one.
FireStale(t) ==
  /\ t \in timers
  /\ open[t.pattern].id # t.id
  /\ timers' = timers \ {t}
  /\ UNCHANGED <<scheduler, listener, open, heard, fed>>

\* clear, on unload.
Clear ==
  /\ timers' \in IF ReliableCancel
                 THEN {timers \ {[pattern |-> p, id |-> open[p].id] : p \in Pattern}}
                 ELSE {timers \ lost : lost \in SUBSET timers}
  /\ open' = [p \in Pattern |-> NoPress]
  /\ UNCHANGED <<scheduler, listener, heard, fed>>

\* handle_button_state, for the normalised pattern of a decoded one.
HandleButtonState(raw) ==
  LET p == normalize_button_pattern(raw, Rockers)
  IN  HandlePress(p) \/ HandleRelease(p) \/ HandleLoneRelease(p)

FireTimer(t) == FireLongPress(t) \/ FireStale(t)

Next ==
  \/ \E p \in Pattern : AddListener(p) \/ RemoveListener(p)
  \/ \E raw \in Raw : HandleButtonState(raw)
  \/ \E t \in timers : FireTimer(t)
  \/ Clear

Spec == Init /\ [][Next]_vars

\* The event loop runs a due timer. Nothing is assumed of the user.
Fairness == \A p \in Pattern : WF_vars(\E t \in timers : t.pattern = p /\ FireTimer(t))

FairSpec == Spec /\ Fairness

-----------------------------------------------------------------------------

TypeOK ==
  /\ scheduler \in BOOLEAN
  /\ listener \subseteq Pattern
  /\ open \in [Pattern -> OpenPress]
  /\ timers \subseteq Timer
  /\ heard \in [Pattern -> Seq(PressAction)]
  /\ fed \in Nat

\* Whatever timers run late, twice cancelled or after their press was lost,
\* the tracker keeps the promise of Gestures.
phase == [p \in Pattern |-> IF open[p] = NoPress THEN "idle"
                            ELSE IF open[p].long_fired THEN "held" ELSE "pressed"]
Promise == INSTANCE Gestures
GesturesSpec == Promise!Spec

\* A press that is open and unreported has its hold timer pending, at most one
\* timer per pattern is its own, and with a cancel that works there is no other
\* timer: none outlives its release, its orphaning or the unload.
Unreported == {p \in Pattern : open[p] # NoPress /\ ~open[p].long_fired}
TimerOf(p) == [pattern |-> p, id |-> open[p].id]

TimersMatchOpenPresses ==
  IF scheduler
  THEN /\ {TimerOf(p) : p \in Unreported} \subseteq timers
       /\ ReliableCancel => timers = {TimerOf(p) : p \in Unreported}
  ELSE timers = {}

\* The inductive invariant behind it and behind GesturesSpec: a press and a
\* timer carry numbers already given out, zero stands for no press and for no
\* timer, and the timer of an open press runs at most once.
Numbered ==
  /\ \A p \in Pattern :
       open[p].id <= fed /\ (open[p].id = 0 => open[p] = NoPress)
  /\ \A t \in timers : t.id > 0 /\ t.id <= fed

TimerRunsOnce ==
  \A t \in timers : open[t.pattern].id = t.id => ~open[t.pattern].long_fired

IInv ==
  /\ TypeOK
  /\ Numbered
  /\ TimerRunsOnce
  /\ TimersMatchOpenPresses

\* A button held down is not forgotten: its press is settled, by the long
\* press, a release, a new press or the unload.
HeldPressResolves ==
  \A p \in Pattern, n \in 1..MaxStates :
    (scheduler /\ open[p] = [id |-> n, long_fired |-> FALSE])
      ~> open[p] # [id |-> n, long_fired |-> FALSE]
=============================================================================
