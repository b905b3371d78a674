------------------------- MODULE PressPipelineProofs -------------------------
(***************************************************************************)
(* Proofs about PressPipeline. The composition implements the pipeline of  *)
(* ButtonPipeline, so what is proved there holds here; the tracker's own   *)
(* invariant, proved in PressTimingProofs, survives being driven by it;    *)
(* and the two together give what a button's listener hears.               *)
(***************************************************************************)
EXTENDS PressPipeline, ButtonPipelineProofs

TrackerProofs == INSTANCE PressTimingProofs
                   WITH Raw <- Decoded, ReliableCancel <- TRUE,
                        MaxStates <- Cardinality(Counter)

-----------------------------------------------------------------------------
(* The pipeline inside the composition. *)

\* The composition starts as the pipeline does.
LEMMA PressInitIsInit == PressInit => Init
BY DEF PressInit

\* Every step of the composition is a step of the pipeline, or leaves it alone.
LEMMA PressStepIsStep == [PressNext]_allVars => [Next]_vars
<1> SUFFICES ASSUME [PressNext]_allVars PROVE [Next]_vars
  OBVIOUS
<1>1. ASSUME NEW s \in Switch, FireAndTrack(s) PROVE Next
  BY <1>1 DEF FireAndTrack, Next, Task
<1>2. CASE PipelineStep
  BY <1>2 DEF PipelineStep, Next, Task
<1>3. CASE HoldTimer
  BY <1>3 DEF HoldTimer, pipelineVars
<1>4. CASE SetUpAll
  BY <1>4 DEF SetUpAll, Next
<1>5. CASE UNCHANGED allVars
  BY <1>5 DEF allVars, pipelineVars
<1>6. CASE SaveDone
  BY <1>6 DEF SaveDone, Next
<1>7. CASE RemoveEntity
  BY <1>7 DEF RemoveEntity, pipelineVars
<1>8. QED
  BY <1>1, <1>2, <1>3, <1>4, <1>5, <1>6, <1>7 DEF PressNext

\* With its press tracker attached, the pipeline is still the pipeline: all
\* that ButtonPipelineProofs proves of it holds of the composition.
THEOREM ImplementsPipeline == PressSpec => Spec
BY PressInitIsInit, PressStepIsStep, PTL DEF PressSpec, Spec

\* The event a tracker hears of is in the file before it hears of it.
THEOREM DurableBeforeHeard == PressSpec => []DurableBeforeEvent
BY ImplementsPipeline, DurableFirst, PTL

\* No press or release reaches the tracker twice or out of order.
THEOREM HeardAtMostOnce == PressSpec => []EventsStrictlyRise
BY ImplementsPipeline, AtMostOnce, PTL

\* The tracker takes no telegram from the diagnostics' count.
THEOREM StillCountedOnce == PressSpec => []EachTelegramCountedOnce
BY ImplementsPipeline, CountedOnce, PTL

-----------------------------------------------------------------------------
(* The tracker inside the composition. *)

\* What the decoder reports is a button pattern, so that the assumption of
\* PressTiming holds of the tracker of the composition.
LEMMA DecodedPatterns == Decoded \subseteq TrackerProofs!ButtonPattern
BY DEF Decoded, TrackerProofs!ButtonPattern, Decodes, interpret_switch_status,
       BUTTON_BIT_PATTERNS

\* The tracker of PressPipeline and the one the proofs are instantiated for
\* are one: its definitions say the same.
LEMMA SameTracker ==
  /\ Tracker!Pattern = TrackerProofs!Pattern
  /\ Tracker!IInv <=> TrackerProofs!IInv
  /\ \A p : Tracker!HandlePress(p) <=> TrackerProofs!HandlePress(p)
  /\ \A p : Tracker!HandleRelease(p) <=> TrackerProofs!HandleRelease(p)
  /\ \A p : Tracker!HandleLoneRelease(p) <=> TrackerProofs!HandleLoneRelease(p)
  /\ \A t : Tracker!FireLongPress(t) <=> TrackerProofs!FireLongPress(t)
  /\ \A t : Tracker!FireStale(t) <=> TrackerProofs!FireStale(t)
  /\ \A p : Tracker!RemoveListener(p) <=> TrackerProofs!RemoveListener(p)
<1>1. Tracker!Pattern = TrackerProofs!Pattern
  BY DEF Tracker!Pattern, TrackerProofs!Pattern, Tracker!normalize_button_pattern,
         TrackerProofs!normalize_button_pattern
<1>2. Tracker!NoPress = TrackerProofs!NoPress
  BY DEF Tracker!NoPress, TrackerProofs!NoPress
<1>3. \A p, actions : Tracker!Emit(p, actions) <=> TrackerProofs!Emit(p, actions)
  BY DEF Tracker!Emit, TrackerProofs!Emit
<1>4. \A p : Tracker!AfterCancel(p) = TrackerProofs!AfterCancel(p)
  BY DEF Tracker!AfterCancel, TrackerProofs!AfterCancel
<1>5. \A p : Tracker!HandlePress(p) <=> TrackerProofs!HandlePress(p)
  BY <1>3, <1>4 DEF Tracker!HandlePress, TrackerProofs!HandlePress
<1>6. \A p : Tracker!HandleRelease(p) <=> TrackerProofs!HandleRelease(p)
  BY <1>2, <1>3, <1>4 DEF Tracker!HandleRelease, TrackerProofs!HandleRelease
<1>7. \A p : Tracker!HandleLoneRelease(p) <=> TrackerProofs!HandleLoneRelease(p)
  BY <1>2, <1>3 DEF Tracker!HandleLoneRelease, TrackerProofs!HandleLoneRelease
<1>8. \A t : Tracker!FireLongPress(t) <=> TrackerProofs!FireLongPress(t)
  BY <1>3 DEF Tracker!FireLongPress, TrackerProofs!FireLongPress
<1>9. \A t : Tracker!FireStale(t) <=> TrackerProofs!FireStale(t)
  BY DEF Tracker!FireStale, TrackerProofs!FireStale
<1>10. Tracker!TypeOK <=> TrackerProofs!TypeOK
  BY <1>1 DEF Tracker!TypeOK, TrackerProofs!TypeOK, Tracker!OpenPress,
              TrackerProofs!OpenPress, Tracker!Timer, TrackerProofs!Timer,
              Tracker!PressAction, TrackerProofs!PressAction
<1>11. Tracker!Numbered <=> TrackerProofs!Numbered
  BY <1>1, <1>2 DEF Tracker!Numbered, TrackerProofs!Numbered
<1>12. Tracker!TimerRunsOnce <=> TrackerProofs!TimerRunsOnce
  BY DEF Tracker!TimerRunsOnce, TrackerProofs!TimerRunsOnce
<1>13. Tracker!Unreported = TrackerProofs!Unreported
  BY <1>1, <1>2 DEF Tracker!Unreported, TrackerProofs!Unreported
<1>14. \A p : Tracker!TimerOf(p) = TrackerProofs!TimerOf(p)
  BY DEF Tracker!TimerOf, TrackerProofs!TimerOf
<1>15. Tracker!TimersMatchOpenPresses <=> TrackerProofs!TimersMatchOpenPresses
  BY <1>13, <1>14
  DEF Tracker!TimersMatchOpenPresses, TrackerProofs!TimersMatchOpenPresses
<1>16. Tracker!IInv <=> TrackerProofs!IInv
  BY <1>10, <1>11, <1>12, <1>15 DEF Tracker!IInv, TrackerProofs!IInv
<1>17. \A p : Tracker!RemoveListener(p) <=> TrackerProofs!RemoveListener(p)
  BY DEF Tracker!RemoveListener, TrackerProofs!RemoveListener
<1>18. QED
  BY <1>1, <1>5, <1>6, <1>7, <1>8, <1>9, <1>16, <1>17

\* And so after a step.
LEMMA SameInvariantAfter == (Tracker!IInv)' <=> (TrackerProofs!IInv)'
<1>1. Tracker!IInv <=> TrackerProofs!IInv
  BY SameTracker
<1>2. QED
  BY <1>1, PTL

\* An event is fired by the one switch there is, for a pattern its tracker
\* knows, and is handed to the tracker as a press or as a release.
LEMMA FireFacts ==
  ASSUME TypeInv, NEW s \in Switch, FireAndTrack(s)
  PROVE  /\ s = TheSwitch
         /\ Fire(s)
         /\ UNCHANGED setupVars
         /\ \E p \in Tracker!Pattern :
              /\ IsOf(Telegram(s), p)
              /\ \/ RawAction(Telegram(s)) = "press" /\ Tracker!HandlePress(p)
                 \/ /\ RawAction(Telegram(s)) = "release"
                    /\ Tracker!HandleRelease(p) \/ Tracker!HandleLoneRelease(p)
<1> DEFINE status == Telegram(s).status
           state == interpret_switch_status(status)
           p == normalize_button_pattern(state.pattern, Rockers)
<1>1. /\ Fire(s)
      /\ IF state.is_press THEN Tracker!HandlePress(p)
         ELSE Tracker!HandleRelease(p) \/ Tracker!HandleLoneRelease(p)
      /\ UNCHANGED setupVars
  BY DEF FireAndTrack
<1>2. status \in Status /\ Decodes(status)
  <2>1. queue[s] # <<>> /\ Decodes(status)
    BY <1>1 DEF Fire, TypeInv, LockHasHolder
  <2>2. Telegram(s) \in Ptm216bTelegram
    BY <2>1, HeadType DEF TypeInv
  <2>3. QED
    BY <2>1, <2>2 DEF Ptm216bTelegram
<1>3. p \in Tracker!Pattern
  <2>1. state.pattern \in Decoded
    BY <1>2 DEF Decoded
  <2>2. QED
    BY <2>1 DEF Tracker!Pattern, Tracker!normalize_button_pattern,
                normalize_button_pattern
<1>4. IsOf(Telegram(s), p)
  BY DEF IsOf
<1>5. RawAction(Telegram(s)) = IF state.is_press THEN "press" ELSE "release"
  BY DEF RawAction
<1>6. s = TheSwitch
  BY SwitchAssumption
<1>7. QED
  BY <1>1, <1>3, <1>4, <1>5, <1>6

\* The tracker's own invariant, whether a setup has configured it or not.
TrackerInv == Tracker!IInv

\* A tracker that has just been made satisfies its invariant.
LEMMA NewTracker ==
  /\ PressInit => TrackerInv
  /\ SetUpAll => TrackerInv'
<1>1. /\ Tracker!NoPress \in Tracker!OpenPress
      /\ Tracker!NoPress.id = 0
  BY DEF Tracker!NoPress, Tracker!OpenPress
<1>2. ASSUME PressInit PROVE TrackerInv
  <2>1. Tracker!TypeOK
    <3>1. /\ scheduler = FALSE /\ listener = {} /\ timers = {} /\ fed = 0
          /\ open = NoneOpen /\ heard = NothingHeard
      BY <1>2 DEF PressInit
    <3>2. /\ NoneOpen \in [Tracker!Pattern -> Tracker!OpenPress]
          /\ NothingHeard \in [Tracker!Pattern -> Seq(Tracker!PressAction)]
      BY <1>1 DEF NoneOpen, NothingHeard
    <3>3. QED
      BY <3>1, <3>2 DEF Tracker!TypeOK
  <2>2. Tracker!Numbered
    BY <1>1, <1>2 DEF PressInit, NoneOpen, Tracker!Numbered
  <2>3. Tracker!TimerRunsOnce /\ Tracker!TimersMatchOpenPresses
    BY <1>2 DEF PressInit, Tracker!TimerRunsOnce, Tracker!TimersMatchOpenPresses
  <2>4. QED
    BY <2>1, <2>2, <2>3 DEF TrackerInv, Tracker!IInv
<1>3. SetUpAll => TrackerInv'
  BY <1>1 DEF SetUpAll, NoneOpen, NothingHeard, TrackerInv, Tracker!IInv,
         Tracker!TypeOK, Tracker!Numbered, Tracker!TimerRunsOnce,
         Tracker!TimersMatchOpenPresses, Tracker!Unreported
<1>4. QED
  BY <1>2, <1>3

\* A button state handed to the tracker, or a due timer, keeps its invariant.
LEMMA TrackerStep ==
  /\ \A p \in Tracker!Pattern :
       /\ TrackerInv /\ Tracker!HandlePress(p) => TrackerInv'
       /\ TrackerInv /\ Tracker!HandleRelease(p) => TrackerInv'
       /\ TrackerInv /\ Tracker!HandleLoneRelease(p) => TrackerInv'
       /\ TrackerInv /\ Tracker!RemoveListener(p) => TrackerInv'
  /\ \A t \in timers :
       /\ TrackerInv /\ Tracker!FireLongPress(t) => TrackerInv'
       /\ TrackerInv /\ Tracker!FireStale(t) => TrackerInv'
<1>1. ASSUME Tracker!IInv, NEW p \in Tracker!Pattern
      PROVE  /\ Tracker!HandlePress(p) => (Tracker!IInv)'
             /\ Tracker!HandleRelease(p) => (Tracker!IInv)'
             /\ Tracker!HandleLoneRelease(p) => (Tracker!IInv)'
             /\ Tracker!RemoveListener(p) => (Tracker!IInv)'
  <2>1. Tracker!HandlePress(p) => (Tracker!IInv)'
    BY <1>1, SameTracker, SameInvariantAfter, DecodedPatterns,
        TrackerProofs!PressInv
  <2>2. Tracker!HandleRelease(p) => (Tracker!IInv)'
    BY <1>1, SameTracker, SameInvariantAfter, DecodedPatterns,
        TrackerProofs!ReleaseInv
  <2>3. Tracker!HandleLoneRelease(p) => (Tracker!IInv)'
    BY <1>1, SameTracker, SameInvariantAfter, DecodedPatterns,
        TrackerProofs!QuietInv
  <2>4. Tracker!RemoveListener(p) => (Tracker!IInv)'
    BY <1>1, SameTracker, SameInvariantAfter, DecodedPatterns,
        TrackerProofs!QuietInv
  <2>5. QED
    BY <2>1, <2>2, <2>3, <2>4
<1>2. ASSUME Tracker!IInv, NEW t \in timers
      PROVE  /\ Tracker!FireLongPress(t) => (Tracker!IInv)'
             /\ Tracker!FireStale(t) => (Tracker!IInv)'
  BY <1>2, SameTracker, SameInvariantAfter, DecodedPatterns,
        TrackerProofs!LongPressInv,
     TrackerProofs!StaleInv
<1>3. QED
  BY <1>1, <1>2 DEF TrackerInv

\* A step that leaves the tracker's variables alone keeps its invariant.
LEMMA TrackerStutter == TrackerInv /\ UNCHANGED trackerVars => TrackerInv'
BY DEF trackerVars, TrackerInv, Tracker!IInv, Tracker!TypeOK, Tracker!Numbered,
       Tracker!TimerRunsOnce, Tracker!TimersMatchOpenPresses, Tracker!Unreported,
       Tracker!TimerOf

\* A due timer is one of the tracker's two timer steps.
LEMMA HoldTimerFacts ==
  ASSUME HoldTimer
  PROVE  /\ UNCHANGED <<pipelineVars, setupVars>>
         /\ \E t \in timers : Tracker!FireLongPress(t) \/ Tracker!FireStale(t)
BY DEF HoldTimer, Tracker!FireTimer

\* Every step of the composition keeps the tracker's invariant.
LEMMA TrackerInvStep ==
  TypeInv /\ TrackerInv /\ [PressNext]_allVars => TrackerInv'
<1> SUFFICES ASSUME TypeInv, TrackerInv, [PressNext]_allVars PROVE TrackerInv'
  OBVIOUS
<1>1. ASSUME NEW s \in Switch, FireAndTrack(s) PROVE TrackerInv'
  BY <1>1, FireFacts, TrackerStep
<1>2. CASE PipelineStep
  BY <1>2, TrackerStutter DEF PipelineStep
<1>3. CASE HoldTimer
  BY <1>3, HoldTimerFacts, TrackerStep
<1>4. CASE SetUpAll
  BY <1>4, NewTracker
<1>5. CASE UNCHANGED allVars
  BY <1>5, TrackerStutter DEF allVars
<1>6. CASE SaveDone
  BY <1>6, TrackerStutter DEF SaveDone
<1>7. CASE RemoveEntity
  BY <1>7, TrackerStep DEF RemoveEntity
<1>8. QED
  BY <1>1, <1>2, <1>3, <1>4, <1>5, <1>6, <1>7 DEF PressNext

\* The types of the pipeline and the invariant of the tracker hold together.
LEMMA TrackerCorrect == PressSpec => [](TypeInv /\ TrackerInv)
<1>1. PressSpec => []TypeInv
  BY ImplementsPipeline, StoreCorrect, PTL
<1>2. PressInit => TrackerInv
  BY NewTracker
<1>3. QED
  BY <1>1, <1>2, TrackerInvStep, PTL DEF PressSpec

\* Driven by the pipeline, setups and restarts included, a switch's hold timers are
\* those of its open, unreported presses: none outlives its press or a setup, and
\* there is none before one has configured the tracker.
THEOREM TimersStayWithPresses == PressSpec => []Tracker!TimersMatchOpenPresses
<1>1. TrackerInv => Tracker!TimersMatchOpenPresses
  BY DEF TrackerInv, Tracker!IInv
<1>2. QED
  BY <1>1, TrackerCorrect, PTL

-----------------------------------------------------------------------------
(* What a listener hears. *)

\* One or two actions told after a history: it is extended at its end.
LEMMA ToldOne ==
  ASSUME NEW S, NEW h \in Seq(S), NEW a \in S
  PROVE  /\ Len(h) \in Nat
         /\ Len(h \o <<a>>) = Len(h) + 1
         /\ (h \o <<a>>)[Len(h) + 1] = a
         /\ \A i \in 1..Len(h) : (h \o <<a>>)[i] = h[i]
         /\ DOMAIN h = 1..Len(h)
         /\ DOMAIN (h \o <<a>>) = 1..(Len(h) + 1)
OBVIOUS

\* The same of two actions told at once.
LEMMA ToldTwo ==
  ASSUME NEW S, NEW h \in Seq(S), NEW a \in S, NEW b \in S
  PROVE  /\ Len(h) \in Nat
         /\ Len(h \o <<a, b>>) = Len(h) + 2
         /\ (h \o <<a, b>>)[Len(h) + 1] = a
         /\ (h \o <<a, b>>)[Len(h) + 2] = b
         /\ \A i \in 1..Len(h) : (h \o <<a, b>>)[i] = h[i]
         /\ DOMAIN h = 1..Len(h)
         /\ DOMAIN (h \o <<a, b>>) = 1..(Len(h) + 2)
OBVIOUS

\* What a listener's history becomes when its button's tracker tells something:
\* nobody else's changes, and its own only while it is there.
Told(p, actions) ==
  /\ heard'[p] = IF p \in listener THEN heard[p] \o actions ELSE heard[p]
  /\ \A q \in Tracker!Pattern : q # p => heard'[q] = heard[q]

\* What the tracker emits is told.
LEMMA Heard ==
  ASSUME TrackerInv, NEW p \in Tracker!Pattern, NEW actions, Tracker!Emit(p, actions)
  PROVE  /\ heard \in [Tracker!Pattern -> Seq(Tracker!PressAction)]
         /\ Told(p, actions)
BY DEF Told, TrackerInv, Tracker!IInv, Tracker!TypeOK, Tracker!Emit

\* A press that is open and unreported is the last thing its listener heard, if it
\* has one: that was there already when the button was pressed.
Ends(h, action) == h # <<>> /\ h[Len(h)] = action

PendingHeard == \A p \in Tracker!Unreported : p \in listener => Ends(heard[p], "press")

\* ShortPressIsBacked, of one history.
Backed(h) ==
  \A i \in DOMAIN h : h[i] = "short_press" =>
    /\ i > 1 /\ i < Len(h)
    /\ h[i - 1] = "press"
    /\ h[i + 1] = "release"

HeardInv == PendingHeard /\ \A p \in Tracker!Pattern : Backed(heard[p])

\* Another action than a short press leaves every short press backed.
LEMMA BackedOne ==
  ASSUME NEW S, NEW h \in Seq(S), NEW a \in S, Backed(h), a # "short_press"
  PROVE  Backed(h \o <<a>>) /\ Ends(h \o <<a>>, a)
<1> DEFINE g == h \o <<a>>
<1>1. /\ Len(h) \in Nat
      /\ Len(g) = Len(h) + 1
      /\ g[Len(h) + 1] = a
      /\ \A i \in 1..Len(h) : g[i] = h[i]
      /\ DOMAIN h = 1..Len(h)
      /\ DOMAIN g = 1..(Len(h) + 1)
  BY ToldOne
<1>2. g \in Seq(S)
  OBVIOUS
<1> HIDE DEF g
<1>3. Ends(g, a)
  BY <1>1, <1>2 DEF Ends
<1>4. Backed(g)
  <2> SUFFICES ASSUME NEW i \in DOMAIN g, g[i] = "short_press"
               PROVE  i > 1 /\ i < Len(g) /\ g[i - 1] = "press" /\ g[i + 1] = "release"
    BY DEF Backed
  <2>1. i \in 1..Len(h) /\ h[i] = "short_press"
    BY <1>1
  <2>2. i > 1 /\ i < Len(h) /\ h[i - 1] = "press" /\ h[i + 1] = "release"
    BY <2>1, <1>1 DEF Backed
  <2>3. i - 1 \in 1..Len(h) /\ i + 1 \in 1..Len(h) /\ i < Len(g)
    BY <2>1, <2>2, <1>1
  <2>4. g[i - 1] = h[i - 1] /\ g[i + 1] = h[i + 1]
    BY <2>3, <1>1
  <2>5. QED
    BY <2>2, <2>3, <2>4
<1>5. QED
  BY <1>3, <1>4 DEF g

\* A short press told after a press, and before its release, is backed.
LEMMA BackedTwo ==
  ASSUME NEW S, "short_press" \in S, "release" \in S,
         NEW h \in Seq(S), Backed(h), Ends(h, "press")
  PROVE  Backed(h \o <<"short_press", "release">>)
<1> DEFINE g == h \o <<"short_press", "release">>
<1>1. /\ Len(h) \in Nat
      /\ Len(g) = Len(h) + 2
      /\ g[Len(h) + 1] = "short_press"
      /\ g[Len(h) + 2] = "release"
      /\ \A i \in 1..Len(h) : g[i] = h[i]
      /\ DOMAIN h = 1..Len(h)
      /\ DOMAIN g = 1..(Len(h) + 2)
  BY ToldTwo
<1> HIDE DEF g
<1>2. h # <<>> /\ h[Len(h)] = "press" /\ Len(h) > 0
  BY <1>1 DEF Ends
<1>3. Backed(g)
  <2> SUFFICES ASSUME NEW i \in DOMAIN g, g[i] = "short_press"
               PROVE  i > 1 /\ i < Len(g) /\ g[i - 1] = "press" /\ g[i + 1] = "release"
    BY DEF Backed
  <2>1. CASE i = Len(h) + 1
    <3>1. i - 1 = Len(h) /\ i + 1 = Len(h) + 2 /\ i > 1 /\ i < Len(g)
      BY <2>1, <1>1, <1>2
    <3>2. g[i - 1] = "press"
      BY <3>1, <1>1, <1>2
    <3>3. QED
      BY <3>1, <3>2, <1>1
  <2>2. CASE i # Len(h) + 1
    <3>1. i \in 1..Len(h) /\ h[i] = "short_press"
      BY <2>2, <1>1
    <3>2. i > 1 /\ i < Len(h) /\ h[i - 1] = "press" /\ h[i + 1] = "release"
      BY <3>1, <1>1 DEF Backed
    <3>3. i - 1 \in 1..Len(h) /\ i + 1 \in 1..Len(h) /\ i < Len(g)
      BY <3>1, <3>2, <1>1
    <3>4. g[i - 1] = h[i - 1] /\ g[i + 1] = h[i + 1]
      BY <3>3, <1>1
    <3>5. QED
      BY <3>2, <3>3, <3>4
  <2>3. QED
    BY <2>1, <2>2
<1>4. QED
  BY <1>3 DEF g

\* What one history gains, the others' presses left open or not.
LEMMA HeardStep ==
  ASSUME HeardInv, NEW p \in Tracker!Pattern,
         \A q \in Tracker!Pattern : q # p => heard'[q] = heard[q],
         \A q \in Tracker!Pattern : q # p => open'[q] = open[q],
         UNCHANGED listener,
         Backed(heard'[p]),
         p \in Tracker!Unreported' /\ p \in listener => Ends(heard'[p], "press")
  PROVE  HeardInv'
<1>1. \A q \in Tracker!Pattern : Backed(heard'[q])
  BY DEF HeardInv
<1>2. \A q \in Tracker!Unreported' : q \in listener => Ends(heard'[q], "press")
  BY DEF HeardInv, PendingHeard, Tracker!Unreported
<1>3. QED
  BY <1>1, <1>2 DEF HeardInv, PendingHeard, Backed, Ends

\* A press tells itself to its listener and to no other.
LEMMA PressTells ==
  ASSUME TrackerInv, NEW p \in Tracker!Pattern, Tracker!HandlePress(p)
  PROVE  /\ Told(p, <<"press">>)
         /\ \A q \in Tracker!Pattern : q # p => open'[q] = open[q]
         /\ UNCHANGED listener
<1>1. Tracker!Emit(p, <<"press">>) /\ UNCHANGED listener
  BY DEF Tracker!HandlePress
<1>2. \A q \in Tracker!Pattern : q # p => open'[q] = open[q]
  BY DEF Tracker!HandlePress, TrackerInv, Tracker!IInv, Tracker!TypeOK
<1>3. QED
  BY <1>1, <1>2, Heard

\* A release tells itself, after the short press if one was open and unreported;
\* none is open afterwards.
LEMMA ReleaseTells ==
  ASSUME TrackerInv, NEW p \in Tracker!Pattern,
         Tracker!HandleRelease(p) \/ Tracker!HandleLoneRelease(p)
  PROVE  /\ \/ Told(p, <<"release">>)
            \/ Told(p, <<"short_press", "release">>) /\ p \in Tracker!Unreported
         /\ \A q \in Tracker!Pattern : q # p => open'[q] = open[q]
         /\ p \notin Tracker!Unreported'
         /\ UNCHANGED listener
<1>1. open \in [Tracker!Pattern -> Tracker!OpenPress]
  BY DEF TrackerInv, Tracker!IInv, Tracker!TypeOK
<1>2. CASE Tracker!HandleRelease(p)
  <2>1. /\ Tracker!Emit(p, IF open[p].long_fired THEN <<"release">>
                                                 ELSE <<"short_press", "release">>)
        /\ open' = [open EXCEPT ![p] = Tracker!NoPress]
        /\ open[p] # Tracker!NoPress
        /\ UNCHANGED listener
    BY <1>2 DEF Tracker!HandleRelease
  <2>2. Told(p, IF open[p].long_fired THEN <<"release">>
                                      ELSE <<"short_press", "release">>)
    BY <2>1, Heard
  <2>3. /\ \A q \in Tracker!Pattern : q # p => open'[q] = open[q]
        /\ open'[p] = Tracker!NoPress
    BY <2>1, <1>1
  <2>4. p \notin Tracker!Unreported'
    BY <2>3 DEF Tracker!Unreported
  <2>5. CASE open[p].long_fired
    BY <2>1, <2>2, <2>3, <2>4, <2>5
  <2>6. CASE ~open[p].long_fired
    <3>1. p \in Tracker!Unreported
      BY <2>1, <2>6 DEF Tracker!Unreported
    <3>2. QED
      BY <2>1, <2>2, <2>3, <2>4, <2>6, <3>1
  <2>7. QED
    BY <2>5, <2>6
<1>3. CASE Tracker!HandleLoneRelease(p)
  <2>1. /\ Tracker!Emit(p, <<"release">>)
        /\ UNCHANGED <<open, listener>>
        /\ open[p] = Tracker!NoPress
    BY <1>3 DEF Tracker!HandleLoneRelease
  <2>2. QED
    BY <2>1, Heard DEF Tracker!Unreported
<1>4. QED
  BY <1>2, <1>3

\* A due hold timer tells the long press of the press it belongs to.
LEMMA LongPressTells ==
  ASSUME TrackerInv, NEW t \in timers, Tracker!FireLongPress(t)
  PROVE  /\ t.pattern \in Tracker!Pattern
         /\ Told(t.pattern, <<"long_press">>)
         /\ \A q \in Tracker!Pattern : q # t.pattern => open'[q] = open[q]
         /\ t.pattern \notin Tracker!Unreported'
         /\ UNCHANGED listener
<1>1. /\ open \in [Tracker!Pattern -> Tracker!OpenPress]
      /\ t \in Tracker!Timer
  BY DEF TrackerInv, Tracker!IInv, Tracker!TypeOK
<1>2. t.pattern \in Tracker!Pattern
  BY <1>1 DEF Tracker!Timer
<1>3. /\ Tracker!Emit(t.pattern, <<"long_press">>)
      /\ open' = [open EXCEPT ![t.pattern].long_fired = TRUE]
      /\ UNCHANGED listener
  BY DEF Tracker!FireLongPress
<1>4. /\ \A q \in Tracker!Pattern : q # t.pattern => open'[q] = open[q]
      /\ open'[t.pattern].long_fired
  BY <1>1, <1>2, <1>3 DEF Tracker!OpenPress
<1>5. QED
  BY <1>2, <1>3, <1>4, Heard DEF Tracker!Unreported

\* A history is a sequence of what a tracker tells.
LEMMA HistoryType ==
  ASSUME TrackerInv, NEW p \in Tracker!Pattern
  PROVE  /\ heard[p] \in Seq(Tracker!PressAction)
         /\ Tracker!PressAction = {"press", "release", "short_press", "long_press"}
BY DEF TrackerInv, Tracker!IInv, Tracker!TypeOK, Tracker!PressAction

\* A press told leaves the short presses before it backed, and is pending.
LEMMA PressHeard ==
  ASSUME TrackerInv, HeardInv, NEW p \in Tracker!Pattern, Tracker!HandlePress(p)
  PROVE  HeardInv'
<1>1. Backed(heard[p])
  BY DEF HeardInv
<1>2. Backed(heard[p] \o <<"press">>) /\ Ends(heard[p] \o <<"press">>, "press")
  BY <1>1, HistoryType, BackedOne
<1>3. Backed(heard'[p]) /\ (p \in listener => Ends(heard'[p], "press"))
  BY <1>1, <1>2, PressTells DEF Told
<1>4. QED
  BY <1>3, PressTells, HeardStep DEF Told

\* A release tells a short press only right after its press.
LEMMA ReleaseHeard ==
  ASSUME TrackerInv, HeardInv, NEW p \in Tracker!Pattern,
         Tracker!HandleRelease(p) \/ Tracker!HandleLoneRelease(p)
  PROVE  HeardInv'
<1>1. Backed(heard[p])
  BY DEF HeardInv
<1>2. Backed(heard[p] \o <<"release">>)
  BY <1>1, HistoryType, BackedOne
<1>3. CASE p \in listener
  <2>1. CASE Told(p, <<"release">>)
    BY <2>1, <1>2, <1>3, ReleaseTells, HeardStep DEF Told
  <2>2. CASE Told(p, <<"short_press", "release">>) /\ p \in Tracker!Unreported
    <3>1. Ends(heard[p], "press")
      BY <1>3, <2>2 DEF HeardInv, PendingHeard
    <3>2. Backed(heard[p] \o <<"short_press", "release">>)
      BY <3>1, <1>1, HistoryType, BackedTwo
    <3>3. QED
      BY <2>2, <3>2, <1>3, ReleaseTells, HeardStep DEF Told
  <2>3. QED
    BY <2>1, <2>2, ReleaseTells
<1>4. CASE p \notin listener
  <2>1. /\ heard'[p] = heard[p]
        /\ \A q \in Tracker!Pattern : q # p => heard'[q] = heard[q]
    BY <1>4, ReleaseTells DEF Told
  <2>2. QED
    BY <2>1, <1>1, ReleaseTells, HeardStep
<1>5. QED
  BY <1>3, <1>4

\* A long press told leaves the short presses before it backed.
LEMMA LongPressHeard ==
  ASSUME TrackerInv, HeardInv, NEW t \in timers, Tracker!FireLongPress(t)
  PROVE  HeardInv'
<1>1. t.pattern \in Tracker!Pattern /\ Backed(heard[t.pattern])
  BY LongPressTells DEF HeardInv
<1>2. Backed(heard[t.pattern] \o <<"long_press">>)
  BY <1>1, HistoryType, BackedOne
<1>3. Backed(heard'[t.pattern])
  BY <1>1, <1>2, LongPressTells DEF Told
<1>4. QED
  BY <1>1, <1>3, LongPressTells, HeardStep DEF Told
\* A step that leaves the tracker's variables alone, or only spends a timer,
\* keeps them backed too, and so does one that takes a listener away.
LEMMA QuietHeard ==
  ASSUME HeardInv, UNCHANGED <<open, heard>>, listener' \subseteq listener
  PROVE  HeardInv'
BY DEF HeardInv, PendingHeard, Backed, Ends, Tracker!Unreported

\* A new tracker has told nothing.
LEMMA NothingTold ==
  /\ PressInit => HeardInv
  /\ SetUpAll => HeardInv'
BY DEF PressInit, SetUpAll, NoneOpen, NothingHeard, HeardInv, PendingHeard, Backed,
       Tracker!Unreported

\* Every step of the composition keeps every short press backed.
LEMMA HeardInvStep ==
  TypeInv /\ TrackerInv /\ HeardInv /\ [PressNext]_allVars => HeardInv'
<1> SUFFICES ASSUME TypeInv, TrackerInv, HeardInv, [PressNext]_allVars PROVE HeardInv'
  OBVIOUS
<1>1. ASSUME NEW s \in Switch, FireAndTrack(s) PROVE HeardInv'
  <2>1. PICK p \in Tracker!Pattern :
          Tracker!HandlePress(p) \/ Tracker!HandleRelease(p) \/ Tracker!HandleLoneRelease(p)
    BY <1>1, FireFacts
  <2>2. QED
    BY <2>1, PressHeard, ReleaseHeard
<1>2. CASE PipelineStep
  BY <1>2, QuietHeard DEF PipelineStep, trackerVars
<1>3. CASE HoldTimer
  <2>1. PICK t \in timers : Tracker!FireLongPress(t) \/ Tracker!FireStale(t)
    BY <1>3, HoldTimerFacts
  <2>2. CASE Tracker!FireLongPress(t)
    BY <2>2, LongPressHeard
  <2>3. CASE Tracker!FireStale(t)
    BY <2>3, QuietHeard DEF Tracker!FireStale
  <2>4. QED
    BY <2>1, <2>2, <2>3
<1>4. CASE SetUpAll
  BY <1>4, NothingTold
<1>5. CASE UNCHANGED allVars
  BY <1>5, QuietHeard DEF allVars, trackerVars
<1>6. CASE SaveDone
  BY <1>6, QuietHeard DEF SaveDone, trackerVars
<1>7. CASE RemoveEntity
  BY <1>7, QuietHeard DEF RemoveEntity, Tracker!RemoveListener
<1>8. QED
  BY <1>1, <1>2, <1>3, <1>4, <1>5, <1>6, <1>7 DEF PressNext

\* A short press is heard only between a durable press and a durable release
\* of its button: whatever saves failed, timers ran late or restarts came.
THEOREM ShortPressBetweenItsTelegrams == PressSpec => []ShortPressIsBacked
<1>1. PressInit => HeardInv
  BY NothingTold
<1>2. HeardInv => ShortPressIsBacked
  BY DEF HeardInv, Backed, ShortPressIsBacked, IsShort
<1>3. QED
  BY <1>1, <1>2, TrackerCorrect, HeardInvStep, PTL DEF PressSpec

-----------------------------------------------------------------------------
(* What it hears is what the telegrams said. *)

\* RawHeardIsWhatFired, of one history: the events of es at the places F are
\* matched, in their order, with the raw actions of h, which are at R.
Matches(es, F, h, R) ==
  \E place \in [F -> R] :
    /\ \A m, n \in F : m < n => place[m] < place[n]
    /\ \A i \in R : \E n \in F : place[n] = i
    /\ \A n \in F : h[place[n]] = RawAction(es[n])

RawPlaces(h) == {i \in DOMAIN h : h[i] \in {"press", "release"}}

\* A history that keeps its raw actions keeps its matching.
LEMMA MatchesKept ==
  ASSUME NEW es, NEW F, NEW h, NEW g, NEW R, Matches(es, F, h, R),
         \A i \in R : g[i] = h[i]
  PROVE  Matches(es, F, g, R)
BY DEF Matches

\* One more event and one more raw action that says the same, each after all
\* the others, extend the matching.
LEMMA MatchesExtended ==
  ASSUME NEW es, NEW es2, NEW F \in SUBSET Nat, NEW h, NEW g, NEW R \in SUBSET Nat,
         Matches(es, F, h, R),
         NEW n \in Nat, \A i \in F : i < n,
         NEW m \in Nat, \A k \in R : k < m,
         \A i \in F : es2[i] = es[i],
         \A k \in R : g[k] = h[k],
         g[m] = RawAction(es2[n])
  PROVE  Matches(es2, F \cup {n}, g, R \cup {m})
<1>1. PICK place \in [F -> R] :
        /\ \A i, j \in F : i < j => place[i] < place[j]
        /\ \A k \in R : \E i \in F : place[i] = k
        /\ \A i \in F : h[place[i]] = RawAction(es[i])
  BY DEF Matches
<1> DEFINE wider == [i \in F \cup {n} |-> IF i = n THEN m ELSE place[i]]
<1>2. /\ wider \in [F \cup {n} -> R \cup {m}]
      /\ wider[n] = m
      /\ \A i \in F : wider[i] = place[i]
  <2>1. n \notin F
    OBVIOUS
  <2>2. QED
    BY <2>1
<1> HIDE DEF wider
<1>3. ASSUME NEW i \in F \cup {n}, NEW j \in F \cup {n}, i < j
      PROVE  wider[i] < wider[j]
  <2>1. i \in F
    <3>1. i \in Nat /\ j \in Nat /\ j <= n
      OBVIOUS
    <3>2. i # n
      BY <3>1, <1>3
    <3>3. QED
      BY <3>2
  <2>2. CASE j = n
    BY <2>1, <2>2, <1>2
  <2>3. CASE j \in F
    BY <2>1, <2>3, <1>1, <1>2, <1>3
  <2>4. QED
    BY <2>2, <2>3
<1>4. \A k \in R \cup {m} : \E i \in F \cup {n} : wider[i] = k
  BY <1>1, <1>2
<1>5. \A i \in F \cup {n} : g[wider[i]] = RawAction(es2[i])
  <2>1. \A i \in F : g[wider[i]] = RawAction(es2[i])
    BY <1>1, <1>2
  <2>2. g[wider[n]] = RawAction(es2[n])
    BY <1>2
  <2>3. QED
    BY <2>1, <2>2
<1>6. QED
  BY <1>2, <1>3, <1>4, <1>5 DEF Matches

\* The history g is h and more, with one more raw action at its end, or none.
AddsRaw(h, g, a) ==
  \E m \in Nat : /\ \A k \in RawPlaces(h) : k \in Nat /\ k < m /\ g[k] = h[k]
                 /\ g[m] = a
                 /\ RawPlaces(g) = RawPlaces(h) \cup {m}

KeepsRaw(h, g) ==
  /\ \A k \in RawPlaces(h) : g[k] = h[k]
  /\ RawPlaces(g) = RawPlaces(h)

\* A raw action told is one raw action more; a long press is none.
LEMMA RawToldOne ==
  ASSUME NEW S, NEW h \in Seq(S), NEW a \in S
  PROVE  IF a \in {"press", "release"} THEN AddsRaw(h, h \o <<a>>, a)
                                       ELSE KeepsRaw(h, h \o <<a>>)
<1> DEFINE g == h \o <<a>>
<1>1. /\ Len(h) \in Nat
      /\ g[Len(h) + 1] = a
      /\ \A i \in 1..Len(h) : g[i] = h[i]
      /\ DOMAIN h = 1..Len(h)
      /\ DOMAIN g = 1..(Len(h) + 1)
  BY ToldOne
<1> HIDE DEF g
<1>2. \A i \in DOMAIN g : i \in 1..Len(h) \/ i = Len(h) + 1
  BY <1>1
<1>3. 1..Len(h) \subseteq DOMAIN g /\ Len(h) + 1 \in DOMAIN g /\ Len(h) + 1 \in Nat
  BY <1>1
<1>4. \A k \in RawPlaces(h) : k \in Nat /\ k < Len(h) + 1 /\ g[k] = h[k]
  BY <1>1 DEF RawPlaces
<1>5. CASE a \in {"press", "release"}
  <2>1. RawPlaces(g) = RawPlaces(h) \cup {Len(h) + 1}
    BY <1>1, <1>2, <1>3, <1>5 DEF RawPlaces
  <2>2. AddsRaw(h, g, a)
    BY <2>1, <1>1, <1>3, <1>4 DEF AddsRaw
  <2>3. QED
    BY <2>2, <1>5 DEF g
<1>6. CASE a \notin {"press", "release"}
  <2>1. RawPlaces(g) = RawPlaces(h)
    BY <1>1, <1>2, <1>3, <1>6 DEF RawPlaces
  <2>2. KeepsRaw(h, g)
    BY <2>1, <1>4 DEF KeepsRaw
  <2>3. QED
    BY <2>2, <1>6 DEF g
<1>7. QED
  BY <1>5, <1>6

\* A short press and its release are one raw action more, the release.
LEMMA RawToldTwo ==
  ASSUME NEW S, "short_press" \in S, "release" \in S, NEW h \in Seq(S)
  PROVE  AddsRaw(h, h \o <<"short_press", "release">>, "release")
<1> DEFINE g == h \o <<"short_press", "release">>
<1>1. /\ Len(h) \in Nat
      /\ g[Len(h) + 1] = "short_press"
      /\ g[Len(h) + 2] = "release"
      /\ \A i \in 1..Len(h) : g[i] = h[i]
      /\ DOMAIN h = 1..Len(h)
      /\ DOMAIN g = 1..(Len(h) + 2)
  BY ToldTwo
<1> HIDE DEF g
<1>2. \A i \in DOMAIN g : i \in 1..Len(h) \/ i = Len(h) + 1 \/ i = Len(h) + 2
  BY <1>1
<1>3. 1..Len(h) \subseteq DOMAIN g /\ Len(h) + 2 \in DOMAIN g /\ Len(h) + 2 \in Nat
  BY <1>1
<1>4. RawPlaces(g) = RawPlaces(h) \cup {Len(h) + 2}
  BY <1>1, <1>2, <1>3 DEF RawPlaces
<1>5. \A k \in RawPlaces(h) : k \in Nat /\ k < Len(h) + 2 /\ g[k] = h[k]
  BY <1>1 DEF RawPlaces
<1>6. AddsRaw(h, g, "release")
  BY <1>1, <1>3, <1>4, <1>5 DEF AddsRaw
<1>7. QED
  BY <1>6 DEF g

\* RawHeardIsWhatFired, of one history h and the events of its button, at the places
\* F: it matches a beginning of them, and all if its listener is there.
Follows(es, F, h, listens) ==
  \E told \in SUBSET F :
    /\ listens => told = F
    /\ \A m \in F, n \in told : m < n => m \in told
    /\ Matches(es, told, h, RawPlaces(h))

\* Each history follows the events its button fired, and the session does not
\* start after the last event.
RawInv ==
  /\ \A p \in Tracker!Pattern :
       Follows(events[TheSwitch], Fired(p), heard[p], p \in listener)
  /\ fresh \in Nat
  /\ fresh <= Len(events[TheSwitch])

\* Following says what RawHeardIsWhatFired says.
LEMMA RawInvSays == RawInv => RawHeardIsWhatFired
<1>1. \A p : RawHeard(p) = RawPlaces(heard[p])
  BY DEF RawHeard, RawPlaces
<1>2. QED
  BY <1>1 DEF RawInv, RawHeardIsWhatFired, Follows, Matches

\* A history that hears nothing of one more event goes on following, since nobody
\* listens to it.
LEMMA FollowsUnheard ==
  ASSUME NEW es, NEW es2, NEW F \in SUBSET Nat, NEW h,
         Follows(es, F, h, FALSE),
         NEW n \in Nat, \A i \in F : i < n,
         \A i \in F : es2[i] = es[i]
  PROVE  Follows(es2, F \cup {n}, h, FALSE)
<1>1. PICK told \in SUBSET F :
        /\ \A i \in F, j \in told : i < j => i \in told
        /\ Matches(es, told, h, RawPlaces(h))
  BY DEF Follows
<1>2. Matches(es2, told, h, RawPlaces(h))
  BY <1>1 DEF Matches
<1>3. ASSUME NEW i \in F \cup {n}, NEW j \in told, i < j PROVE i \in told
  <2>1. j \in Nat /\ j < n
    BY <1>1
  <2>2. i # n
    BY <2>1, <1>3
  <2>3. QED
    BY <2>2, <1>1, <1>3
<1>4. QED
  BY <1>1, <1>2, <1>3 DEF Follows

\* A history that hears of one more event what it says follows still.
LEMMA FollowsHeard ==
  ASSUME NEW es, NEW es2, NEW F \in SUBSET Nat, NEW h, NEW g,
         Follows(es, F, h, TRUE),
         NEW n \in Nat, \A i \in F : i < n,
         \A i \in F : es2[i] = es[i],
         AddsRaw(h, g, RawAction(es2[n]))
  PROVE  Follows(es2, F \cup {n}, g, TRUE)
<1>1. Matches(es, F, h, RawPlaces(h))
  BY DEF Follows
<1>2. PICK m \in Nat : /\ \A k \in RawPlaces(h) : k \in Nat /\ k < m /\ g[k] = h[k]
                       /\ g[m] = RawAction(es2[n])
                       /\ RawPlaces(g) = RawPlaces(h) \cup {m}
  BY DEF AddsRaw
<1>3. Matches(es2, F \cup {n}, g, RawPlaces(h) \cup {m})
  <2>1. RawPlaces(h) \in SUBSET Nat
    BY <1>2
  <2>2. \A k \in RawPlaces(h) : k < m
    BY <1>2
  <2>3. \A k \in RawPlaces(h) : g[k] = h[k]
    BY <1>2
  <2>4. g[m] = RawAction(es2[n])
    BY <1>2
  <2>5. QED
    BY <1>1, <2>1, <2>2, <2>3, <2>4, MatchesExtended
<1>4. QED
  BY <1>2, <1>3 DEF Follows

\* A history that keeps its raw actions, or loses its listener, follows still.
LEMMA FollowsKept ==
  ASSUME NEW es, NEW es2, NEW F, NEW h, NEW g,
         NEW before, NEW after, after => before,
         Follows(es, F, h, before),
         KeepsRaw(h, g),
         \A i \in F : es2[i] = es[i]
  PROVE  Follows(es2, F, g, after)
<1>1. PICK told \in SUBSET F :
        /\ before => told = F
        /\ \A i \in F, j \in told : i < j => i \in told
        /\ Matches(es, told, h, RawPlaces(h))
  BY DEF Follows
<1>2. /\ \A k \in RawPlaces(h) : g[k] = h[k]
      /\ RawPlaces(g) = RawPlaces(h)
  BY DEF KeepsRaw
<1>3. Matches(es2, told, h, RawPlaces(h))
  BY <1>1 DEF Matches
<1>4. Matches(es2, told, g, RawPlaces(g))
  BY <1>2, <1>3, MatchesKept
<1>5. QED
  BY <1>1, <1>4 DEF Follows

\* A history keeps its own raw actions.
LEMMA KeepsItself == \A h : KeepsRaw(h, h)
BY DEF KeepsRaw

\* An event goes to the end of the history of events, after the restart, and
\* is the button's it was decoded for and no other's.
LEMMA FiredGrows ==
  ASSUME TypeInv, RawInv,
         NEW p \in Tracker!Pattern, IsOf(Telegram(TheSwitch), p),
         Fire(TheSwitch), UNCHANGED fresh
  PROVE  LET es == events[TheSwitch]
             n == Len(es) + 1
         IN  /\ Fired(p) \in SUBSET Nat
             /\ n \in Nat
             /\ \A i \in Fired(p) : i < n
             /\ Fired(p)' = Fired(p) \cup {n}
             /\ \A q \in Tracker!Pattern : q # p => Fired(q)' = Fired(q)
             /\ \A i \in DOMAIN es : events'[TheSwitch][i] = es[i]
             /\ events'[TheSwitch][n] = Telegram(TheSwitch)
             /\ Len(events'[TheSwitch]) = n
<1> DEFINE es == events[TheSwitch]
           n == Len(es) + 1
           es2 == events'[TheSwitch]
<1>1. Telegram(TheSwitch) \in Ptm216bTelegram /\ TheSwitch \in Switch
  BY SwitchAssumption, HeadType DEF Fire, TypeInv, LockHasHolder
<1>2. es \in Seq(Ptm216bTelegram) /\ es2 = Append(es, Telegram(TheSwitch))
  BY <1>1 DEF TypeInv, TypeOK, Fire
<1>3. /\ Len(es) \in Nat
      /\ Len(es2) = n
      /\ DOMAIN es = 1..Len(es)
      /\ DOMAIN es2 = 1..n
      /\ es2[n] = Telegram(TheSwitch)
      /\ \A i \in 1..Len(es) : es2[i] = es[i]
  BY <1>1, <1>2
<1>4. /\ \A q : Fired(q) = {i \in DOMAIN es : i > fresh /\ IsOf(es[i], q)}
      /\ \A q : Fired(q)' = {i \in DOMAIN es2 : i > fresh /\ IsOf(es2[i], q)}
  BY DEF Fired, IsOf
<1> HIDE DEF es, es2
<1>5. n \in Nat /\ n > fresh /\ fresh \in Nat
  BY <1>3 DEF RawInv, es
<1>6. DOMAIN es2 = DOMAIN es \cup {n}
  BY <1>3
<1>7. \A q \in Tracker!Pattern : q # p => ~IsOf(Telegram(TheSwitch), q)
  BY DEF IsOf
<1>8. Fired(p)' = Fired(p) \cup {n}
  BY <1>3, <1>4, <1>5, <1>6
<1>9. \A q \in Tracker!Pattern : q # p => Fired(q)' = Fired(q)
  BY <1>3, <1>4, <1>5, <1>6, <1>7
<1>10. Fired(p) \in SUBSET Nat /\ \A i \in Fired(p) : i < n
  BY <1>3, <1>4
<1>11. QED
  BY <1>3, <1>5, <1>8, <1>9, <1>10 DEF es, es2
\* The button of the event hears it as its next raw action, if somebody listens;
\* the histories of the other buttons and their events are what they were.
LEMMA RawFire ==
  ASSUME TypeInv, TrackerInv, RawInv, NEW s \in Switch, FireAndTrack(s)
  PROVE  RawInv'
<1> DEFINE es == events[TheSwitch]
           es2 == events'[TheSwitch]
           n == Len(es) + 1
<1>1. PICK p \in Tracker!Pattern :
        /\ IsOf(Telegram(TheSwitch), p)
        /\ Fire(TheSwitch)
        /\ UNCHANGED fresh
        /\ \/ RawAction(Telegram(TheSwitch)) = "press" /\ Tracker!HandlePress(p)
           \/ /\ RawAction(Telegram(TheSwitch)) = "release"
              /\ Tracker!HandleRelease(p) \/ Tracker!HandleLoneRelease(p)
  BY FireFacts DEF setupVars
<1> DEFINE h == heard[p]
           g == heard'[p]
<1>2. /\ Fired(p) \in SUBSET Nat
      /\ n \in Nat
      /\ \A i \in Fired(p) : i < n
      /\ Fired(p)' = Fired(p) \cup {n}
      /\ \A q \in Tracker!Pattern : q # p => Fired(q)' = Fired(q)
      /\ \A i \in DOMAIN es : es2[i] = es[i]
      /\ es2[n] = Telegram(TheSwitch)
      /\ Len(es2) = n
  BY <1>1, FiredGrows
<1>3. /\ \/ RawAction(es2[n]) = "press" /\ Told(p, <<"press">>)
         \/ RawAction(es2[n]) = "release" /\ Told(p, <<"release">>)
         \/ RawAction(es2[n]) = "release" /\ Told(p, <<"short_press", "release">>)
      /\ UNCHANGED listener
  <2>1. CASE /\ RawAction(Telegram(TheSwitch)) = "press"
             /\ Tracker!HandlePress(p)
    BY <2>1, <1>2, PressTells
  <2>2. CASE /\ RawAction(Telegram(TheSwitch)) = "release"
             /\ Tracker!HandleRelease(p) \/ Tracker!HandleLoneRelease(p)
    BY <2>2, <1>2, ReleaseTells
  <2>3. QED
    BY <1>1, <2>1, <2>2
<1>4. /\ h \in Seq(Tracker!PressAction)
      /\ "press" \in Tracker!PressAction
      /\ "release" \in Tracker!PressAction
      /\ "short_press" \in Tracker!PressAction
  BY HistoryType
<1>5. \A q \in Tracker!Pattern : Follows(es, Fired(q), heard[q], q \in listener)
  BY DEF RawInv
<1>6. \A q : Fired(q) \subseteq DOMAIN es
  BY DEF Fired
<1>7. /\ \A q \in Tracker!Pattern : q # p => heard'[q] = heard[q]
      /\ p \notin listener => g = h
      /\ p \in listener =>
           \/ RawAction(es2[n]) = "press" /\ g = h \o <<"press">>
           \/ RawAction(es2[n]) = "release" /\ g = h \o <<"release">>
           \/ RawAction(es2[n]) = "release" /\ g = h \o <<"short_press", "release">>
  BY <1>3 DEF Told
<1> HIDE DEF es, es2, n, h, g
<1>8. \A i \in Fired(p) : es2[i] = es[i]
  BY <1>2, <1>6
<1>9. Follows(es2, Fired(p)', g, p \in listener)
  <2>1. CASE p \in listener
    <3>1. AddsRaw(h, g, RawAction(es2[n]))
      <4>1. AddsRaw(h, h \o <<"press">>, "press")
        BY <1>4, RawToldOne
      <4>2. AddsRaw(h, h \o <<"release">>, "release")
        BY <1>4, RawToldOne
      <4>3. AddsRaw(h, h \o <<"short_press", "release">>, "release")
        BY <1>4, RawToldTwo
      <4>4. QED
        BY <4>1, <4>2, <4>3, <1>7, <2>1
    <3>2. Follows(es, Fired(p), h, TRUE)
      BY <1>5, <2>1 DEF h, Follows
    <3>3. Follows(es2, Fired(p) \cup {n}, g, TRUE)
      BY <3>1, <3>2, <1>2, <1>8, FollowsHeard
    <3>4. QED
      BY <3>3, <1>2, <2>1 DEF Follows
  <2>2. CASE p \notin listener
    <3>1. Follows(es, Fired(p), h, FALSE)
      BY <1>5, <2>2 DEF h, Follows
    <3>2. Follows(es2, Fired(p) \cup {n}, h, FALSE)
      BY <3>1, <1>2, <1>8, FollowsUnheard
    <3>3. QED
      BY <3>2, <1>2, <1>7, <2>2 DEF Follows
  <2>3. QED
    BY <2>1, <2>2
<1>10. ASSUME NEW q \in Tracker!Pattern, q # p
       PROVE  Follows(es2, Fired(q)', heard'[q], q \in listener)
  <2>1. \A i \in Fired(q) : es2[i] = es[i]
    BY <1>2, <1>6
  <2>2. Follows(es2, Fired(q), heard[q], q \in listener)
    BY <2>1, <1>5, KeepsItself, FollowsKept
  <2>3. QED
    BY <2>2, <1>2, <1>7, <1>10
<1>11. fresh' \in Nat /\ fresh' <= Len(es2)
  BY <1>1, <1>2 DEF RawInv, es, n
<1>12. \A q \in Tracker!Pattern :
         Follows(es2, Fired(q)', heard'[q], q \in listener')
  BY <1>3, <1>9, <1>10 DEF g
<1>13. QED
  BY <1>11, <1>12 DEF RawInv, es2, Follows, Matches, RawPlaces

\* A step that fires nothing and tells no raw action keeps the matching: a hold
\* timer, a listener that is removed, any other step of the pipeline.
LEMMA RawKept ==
  ASSUME RawInv, UNCHANGED <<events, fresh>>, listener' \subseteq listener,
         \A q \in Tracker!Pattern : KeepsRaw(heard[q], heard'[q])
  PROVE  RawInv'
<1>1. \A q : Fired(q)' = Fired(q)
  BY DEF Fired, IsOf
<1>2. ASSUME NEW q \in Tracker!Pattern
      PROVE  Follows(events[TheSwitch], Fired(q), heard'[q], q \in listener')
  <2>1. Follows(events[TheSwitch], Fired(q), heard[q], q \in listener)
    BY DEF RawInv
  <2>2. KeepsRaw(heard[q], heard'[q]) /\ (q \in listener' => q \in listener)
    OBVIOUS
  <2>3. QED
    BY <2>1, <2>2, FollowsKept
<1>3. \A q \in Tracker!Pattern :
        Follows(events'[TheSwitch], Fired(q)', heard'[q], q \in listener')
  BY <1>1, <1>2
<1>4. fresh' \in Nat /\ fresh' <= Len(events'[TheSwitch])
  BY DEF RawInv
<1>5. QED
  BY <1>3, <1>4 DEF RawInv, Follows, Matches, RawPlaces

\* A long press told is no raw action.
LEMMA RawLongPress ==
  ASSUME TrackerInv, RawInv, NEW t \in timers, Tracker!FireLongPress(t),
         UNCHANGED <<events, fresh>>
  PROVE  RawInv'
<1> DEFINE p == t.pattern
<1>1. /\ p \in Tracker!Pattern
      /\ Told(p, <<"long_press">>)
      /\ UNCHANGED listener
  BY LongPressTells
<1>2. KeepsRaw(heard[p], heard[p] \o <<"long_press">>)
  <2>1. /\ heard[p] \in Seq(Tracker!PressAction)
        /\ "long_press" \in Tracker!PressAction
    BY <1>1, HistoryType
  <2>2. QED
    BY <2>1, RawToldOne
<1>3. /\ \A q \in Tracker!Pattern : q # p => heard'[q] = heard[q]
      /\ heard'[p] = heard[p] \/ heard'[p] = heard[p] \o <<"long_press">>
  BY <1>1 DEF Told
<1>4. \A q \in Tracker!Pattern : KeepsRaw(heard[q], heard'[q])
  BY <1>2, <1>3, KeepsItself
<1>5. QED
  BY <1>1, <1>4, RawKept

\* A step that tells nothing.
LEMMA RawQuiet ==
  ASSUME RawInv, UNCHANGED <<events, heard, fresh>>, listener' \subseteq listener
  PROVE  RawInv'
<1>1. \A q \in Tracker!Pattern : KeepsRaw(heard[q], heard'[q])
  BY KeepsItself
<1>2. QED
  BY <1>1, RawKept

\* No other step of the pipeline fires an event.
LEMMA PipelineStepFiresNothing ==
  PipelineStep \/ SaveDone => UNCHANGED <<events, heard, open, listener, fresh>>
BY DEF PipelineStep, SaveDone, trackerVars, setupVars, async_add, Radio,
       RejectAdvertisement, CreateTask, FirstTrust, Accept, RejectReplay,
       FinishFirstTrust, RejectStatus, SaveRaised, WriteDone, WriteFails

\* Before the first event, and right after a setup, there is nothing to follow.
LEMMA NothingToFollow ==
  ASSUME NEW es, NEW listens PROVE Follows(es, {}, <<>>, listens)
<1>1. RawPlaces(<<>>) = {}
  BY DEF RawPlaces
<1>2. [x \in {} |-> 0] \in [{} -> {}]
  OBVIOUS
<1>3. Matches(es, {}, <<>>, RawPlaces(<<>>))
  BY <1>1, <1>2 DEF Matches
<1>4. QED
  BY <1>3 DEF Follows

\* The first event is still to come.
LEMMA RawInit == PressInit => RawInv
<1> SUFFICES ASSUME PressInit PROVE RawInv
  OBVIOUS
<1>1. TheSwitch \in Switch
  BY SwitchAssumption
<1>2. events[TheSwitch] = <<>> /\ fresh = 0
  BY <1>1 DEF PressInit, Init
<1>3. \A p \in Tracker!Pattern : Fired(p) = {} /\ heard[p] = <<>>
  BY <1>2 DEF PressInit, NothingHeard, Fired
<1>4. \A p \in Tracker!Pattern :
        Follows(events[TheSwitch], Fired(p), heard[p], p \in listener)
  BY <1>3, NothingToFollow
<1>5. fresh \in Nat /\ fresh <= Len(events[TheSwitch])
  BY <1>2
<1>6. QED
  BY <1>4, <1>5 DEF RawInv

\* A setup clears the histories and starts the session after all events.
LEMMA RawSetUp == TypeInv /\ SetUpAll => RawInv'
<1> SUFFICES ASSUME TypeInv, SetUpAll PROVE RawInv'
  OBVIOUS
<1>1. TheSwitch \in Switch
  BY SwitchAssumption
<1>2. events' = events /\ fresh' = Len(events[TheSwitch])
  BY DEF SetUpAll, Restart
<1>3. /\ fresh' \in Nat
      /\ DOMAIN events[TheSwitch] = 1..Len(events[TheSwitch])
  BY <1>1, <1>2 DEF TypeInv, TypeOK
<1>4. \A p \in Tracker!Pattern : Fired(p)' = {} /\ heard'[p] = <<>>
  BY <1>2, <1>3 DEF SetUpAll, NothingHeard, Fired
<1>5. \A p \in Tracker!Pattern :
        Follows(events'[TheSwitch], Fired(p)', heard'[p], p \in listener')
  BY <1>4, NothingToFollow
<1>6. fresh' <= Len(events'[TheSwitch])
  BY <1>2, <1>3
<1>7. QED
  BY <1>3, <1>5, <1>6 DEF RawInv, Follows, Matches, RawPlaces

\* Every step of the composition keeps the matching.
LEMMA RawInvStep ==
  TypeInv /\ TrackerInv /\ RawInv /\ [PressNext]_allVars => RawInv'
<1> SUFFICES ASSUME TypeInv, TrackerInv, RawInv, [PressNext]_allVars PROVE RawInv'
  OBVIOUS
<1>1. ASSUME NEW s \in Switch, FireAndTrack(s) PROVE RawInv'
  BY <1>1, RawFire
<1>2. CASE PipelineStep \/ SaveDone
  BY <1>2, PipelineStepFiresNothing, RawQuiet
<1>3. CASE HoldTimer
  <2>1. PICK t \in timers : Tracker!FireLongPress(t) \/ Tracker!FireStale(t)
    BY <1>3, HoldTimerFacts
  <2>2. UNCHANGED <<events, fresh>>
    BY <1>3, HoldTimerFacts DEF pipelineVars, setupVars, vars
  <2>3. CASE Tracker!FireLongPress(t)
    BY <2>2, <2>3, RawLongPress
  <2>4. CASE Tracker!FireStale(t)
    BY <2>2, <2>4, RawQuiet DEF Tracker!FireStale
  <2>5. QED
    BY <2>1, <2>3, <2>4
<1>4. CASE SetUpAll
  BY <1>4, RawSetUp
<1>5. CASE UNCHANGED allVars
  BY <1>5, RawQuiet DEF allVars, trackerVars, setupVars, pipelineVars, vars
<1>6. CASE RemoveEntity
  BY <1>6, RawQuiet
  DEF RemoveEntity, Tracker!RemoveListener, setupVars, pipelineVars, vars
<1>7. QED
  BY <1>1, <1>2, <1>3, <1>4, <1>5, <1>6 DEF PressNext

\* From the radio to the listener: in every reachable state, what a button's
\* listener has heard since the setup, durations aside, is what the durable events
\* of that button said, one for one, in their order and from the first one on; and
\* all of them, as long as the listener that a setup gave it is there.
THEOREM HeardIsWhatFired == PressSpec => []RawHeardIsWhatFired
<1>1. PressSpec => []RawInv
  BY TrackerCorrect, RawInit, RawInvStep, PTL DEF PressSpec
<1>2. QED
  BY <1>1, RawInvSays, PTL
=============================================================================
