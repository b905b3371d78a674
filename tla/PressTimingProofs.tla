-------------------------- MODULE PressTimingProofs --------------------------
(***************************************************************************)
(* Proofs about PressTiming, for any patterns, any rocker setting, any     *)
(* number of telegrams, and cancels that work or do not.                   *)
(***************************************************************************)
EXTENDS PressTiming, TLAPS

\* The patterns the tracker sees are the ones a listener can ask for, and two
\* timers with the same pattern and number are the same timer.
LEMMA TimerFacts ==
  /\ NoPress \in OpenPress
  /\ \A p \in Pattern, n \in Nat : [pattern |-> p, id |-> n] \in Timer
  /\ \A t \in Timer : /\ t.pattern \in Pattern
                      /\ t.id \in Nat
                      /\ t = [pattern |-> t.pattern, id |-> t.id]
BY DEF NoPress, OpenPress, Timer

\* Cancelling leaves no timer that was not there before; a reliable cancel
\* leaves exactly the others.
LEMMA CancelFacts ==
  ASSUME NEW p \in Pattern, NEW left \in AfterCancel(p)
  PROVE  /\ left \subseteq timers
         /\ timers \ {TimerOf(p)} \subseteq left
         /\ ReliableCancel => left = timers \ {TimerOf(p)}
BY DEF AfterCancel, TimerOf

\* Telling a listener keeps every history a sequence of press actions.
LEMMA EmitType ==
  ASSUME heard \in [Pattern -> Seq(PressAction)],
         NEW p \in Pattern,
         NEW actions \in Seq(PressAction),
         Emit(p, actions)
  PROVE  heard' \in [Pattern -> Seq(PressAction)]
<1>1. heard[p] \o actions \in Seq(PressAction)
  OBVIOUS
<1>2. QED
  BY <1>1 DEF Emit

-----------------------------------------------------------------------------

\* The tracker starts with no press open and no timer running.
LEMMA InvInit == Init => IInv
<1> SUFFICES ASSUME Init PROVE IInv
  OBVIOUS
<1>1. TypeOK
  BY TimerFacts DEF Init, TypeOK
<1>2. Numbered /\ TimerRunsOnce
  BY DEF Init, Numbered, TimerRunsOnce, NoPress
<1>3. TimersMatchOpenPresses
  BY DEF Init, TimersMatchOpenPresses, Unreported
<1>4. QED
  BY <1>1, <1>2, <1>3 DEF IInv

\* A press: the orphan, if any, gives way to a press with a new number.
LEMMA PressInv ==
  ASSUME IInv, NEW p \in Pattern, HandlePress(p)
  PROVE  IInv'
<1> DEFINE fresh == [id |-> fed + 1, long_fired |-> FALSE]
           mine == [pattern |-> p, id |-> fed + 1]
<1>1. fed \in Nat /\ fed' = fed + 1 /\ scheduler' = scheduler /\ listener' = listener
  BY DEF IInv, TypeOK, HandlePress
<1>2. fresh \in OpenPress /\ mine \in Timer
  BY <1>1 DEF OpenPress, Timer
<1>3. /\ open' = [open EXCEPT ![p] = fresh]
      /\ open \in [Pattern -> OpenPress]
      /\ open' \in [Pattern -> OpenPress]
      /\ open'[p] = fresh
      /\ \A q \in Pattern : q # p => open'[q] = open[q]
  BY <1>1, <1>2 DEF IInv, TypeOK, HandlePress
<1>4. PICK left \in AfterCancel(p) :
        timers' = IF scheduler THEN left \cup {mine} ELSE left
  BY DEF HandlePress
<1>5. /\ left \subseteq timers
      /\ timers \ {TimerOf(p)} \subseteq left
      /\ ReliableCancel => left = timers \ {TimerOf(p)}
  BY CancelFacts
<1>6. timers' \subseteq Timer
  BY <1>2, <1>4, <1>5 DEF IInv, TypeOK
<1>7. heard' \in [Pattern -> Seq(PressAction)]
  <2>1. <<"press">> \in Seq(PressAction)
    BY DEF PressAction
  <2>2. QED
    BY <2>1, EmitType DEF IInv, TypeOK, HandlePress
<1>8. TypeOK'
  <2>1. fed' \in Nat
    BY <1>1
  <2>2. scheduler' \in BOOLEAN /\ listener' \subseteq Pattern
    BY <1>1 DEF IInv, TypeOK
  <2>3. QED
    BY <2>1, <2>2, <1>3, <1>6, <1>7, Zenon DEF TypeOK
<1>9. Numbered'
  <2>1. \A q \in Pattern : open'[q].id <= fed' /\ (open'[q].id = 0 => open'[q] = NoPress)
    BY <1>1, <1>3 DEF IInv, Numbered, OpenPress
  <2>2. \A t \in timers' : t.id > 0 /\ t.id <= fed'
    BY <1>1, <1>4, <1>5, TimerFacts DEF IInv, TypeOK, Numbered
  <2>3. QED
    BY <2>1, <2>2 DEF Numbered
<1>10. TimerRunsOnce'
  <2> SUFFICES ASSUME NEW t \in timers', open'[t.pattern].id = t.id
               PROVE  ~open'[t.pattern].long_fired
    BY DEF TimerRunsOnce
  <2>1. t.pattern \in Pattern
    BY <1>6, TimerFacts
  <2>2. CASE t.pattern = p
    BY <2>2, <1>3
  <2>3. CASE t.pattern # p
    <3>1. t # mine
      BY <2>3
    <3>2. t \in timers
      BY <3>1, <1>4, <1>5
    <3>3. QED
      BY <3>2, <2>1, <2>3, <1>3 DEF IInv, TimerRunsOnce
  <2>4. QED
    BY <2>2, <2>3
<1>11. TimersMatchOpenPresses'
  <2>1. CASE ~scheduler
    BY <2>1, <1>1, <1>4, <1>5 DEF IInv, TimersMatchOpenPresses
  <2>2. CASE scheduler
    <3>1. timers' = left \cup {mine}
      BY <2>2, <1>4
    <3>2. /\ {TimerOf(q) : q \in Unreported} \subseteq timers
          /\ ReliableCancel => timers = {TimerOf(q) : q \in Unreported}
      BY <2>2 DEF IInv, TimersMatchOpenPresses
    <3>3. TimerOf(p)' = mine /\ p \in Unreported'
      BY <1>1, <1>3 DEF TimerOf, Unreported, NoPress
    <3>4. \A q \in Pattern : q # p => /\ TimerOf(q)' = TimerOf(q)
                                      /\ q \in Unreported' <=> q \in Unreported
                                      /\ TimerOf(q) # TimerOf(p)
      BY <1>3 DEF TimerOf, Unreported
    <3>5. \A q \in Unreported' : TimerOf(q)' \in timers'
      BY <3>1, <3>2, <3>3, <3>4, <1>5 DEF Unreported
    <3>6. ASSUME ReliableCancel, NEW t \in timers'
          PROVE  \E q \in Unreported' : t = TimerOf(q)'
      BY <3>1, <3>2, <3>3, <3>4, <3>6, <1>5 DEF Unreported
    <3>7. QED
      BY <2>2, <1>1, <3>5, <3>6 DEF TimersMatchOpenPresses
  <2>3. QED
    BY <2>1, <2>2
<1>12. QED
  BY <1>8, <1>9, <1>10, <1>11 DEF IInv

\* A release: the press, if one was open, and its timer are gone.
LEMMA ReleaseInv ==
  ASSUME IInv, NEW p \in Pattern, HandleRelease(p)
  PROVE  IInv'
<1>1. /\ fed \in Nat
      /\ fed' = fed + 1
      /\ fed' \in Nat
      /\ scheduler' = scheduler
      /\ listener' = listener
  BY DEF IInv, TypeOK, HandleRelease
<1>2. /\ open' = [open EXCEPT ![p] = NoPress]
      /\ open \in [Pattern -> OpenPress]
      /\ open' \in [Pattern -> OpenPress]
      /\ open'[p] = NoPress
      /\ \A q \in Pattern : q # p => open'[q] = open[q]
  BY TimerFacts DEF IInv, TypeOK, HandleRelease
<1>3. /\ timers' \subseteq timers
      /\ timers \ {TimerOf(p)} \subseteq timers'
      /\ ReliableCancel => timers' = timers \ {TimerOf(p)}
  BY CancelFacts DEF HandleRelease
<1>4. timers' \subseteq Timer
  BY <1>3 DEF IInv, TypeOK
<1>5. heard' \in [Pattern -> Seq(PressAction)]
  <2>1. /\ <<"release">> \in Seq(PressAction)
        /\ <<"short_press", "release">> \in Seq(PressAction)
    BY DEF PressAction
  <2>2. (IF open[p].long_fired THEN <<"release">> ELSE <<"short_press", "release">>)
          \in Seq(PressAction)
    BY <2>1
  <2>3. QED
    BY <2>2, EmitType DEF IInv, TypeOK, HandleRelease
<1>6. TypeOK'
  <2>1. scheduler' \in BOOLEAN /\ listener' \subseteq Pattern
    BY <1>1 DEF IInv, TypeOK
  <2>2. QED
    BY <2>1, <1>1, <1>2, <1>4, <1>5, Zenon DEF TypeOK
<1>7. Numbered'
  BY <1>1, <1>2, <1>3, TimerFacts DEF IInv, TypeOK, Numbered, OpenPress, NoPress
<1>8. TimerRunsOnce'
  BY <1>2, <1>3, <1>4, TimerFacts DEF IInv, TimerRunsOnce, NoPress
<1>9. TimersMatchOpenPresses'
  <2>1. CASE ~scheduler
    BY <2>1, <1>1, <1>3 DEF IInv, TimersMatchOpenPresses
  <2>2. CASE scheduler
    <3>1. /\ {TimerOf(q) : q \in Unreported} \subseteq timers
          /\ ReliableCancel => timers = {TimerOf(q) : q \in Unreported}
      BY <2>2 DEF IInv, TimersMatchOpenPresses
    <3>2. p \notin Unreported'
      BY <1>2 DEF Unreported
    <3>3. \A q \in Pattern : q # p => /\ TimerOf(q)' = TimerOf(q)
                                      /\ q \in Unreported' <=> q \in Unreported
                                      /\ TimerOf(q) # TimerOf(p)
      BY <1>2 DEF TimerOf, Unreported
    <3>4. \A q \in Unreported' : TimerOf(q)' \in timers'
      BY <3>1, <3>2, <3>3, <1>3 DEF Unreported
    <3>5. ASSUME ReliableCancel, NEW t \in timers'
          PROVE  \E q \in Unreported' : t = TimerOf(q)'
      BY <3>1, <3>3, <3>5, <1>3 DEF Unreported
    <3>6. QED
      BY <2>2, <1>1, <3>4, <3>5 DEF TimersMatchOpenPresses
  <2>3. QED
    BY <2>1, <2>2
<1>10. QED
  BY <1>6, <1>7, <1>8, <1>9 DEF IInv

\* A hold timer that finds its press open marks it, and is spent.
LEMMA LongPressInv ==
  ASSUME IInv, NEW t \in timers, FireLongPress(t)
  PROVE  IInv'
<1> DEFINE p == t.pattern
<1>1. /\ t \in Timer
      /\ p \in Pattern
      /\ fed \in Nat
      /\ fed' = fed
      /\ scheduler' = scheduler
      /\ listener' = listener
      /\ timers' = timers \ {t}
      /\ open[p].id = t.id
      /\ t = [pattern |-> p, id |-> t.id]
  BY TimerFacts DEF IInv, TypeOK, FireLongPress
<1>2. t = TimerOf(p)
  BY <1>1 DEF TimerOf
<1>3. open[p] \in OpenPress /\ open[p] # NoPress /\ open[p].id # 0
  BY <1>1 DEF IInv, TypeOK, Numbered, NoPress
<1>4. /\ open' = [open EXCEPT ![p].long_fired = TRUE]
      /\ open \in [Pattern -> OpenPress]
      /\ open' \in [Pattern -> OpenPress]
      /\ open'[p].long_fired
      /\ open'[p].id = open[p].id
      /\ \A q \in Pattern : q # p => open'[q] = open[q]
  BY <1>1, <1>3 DEF IInv, TypeOK, FireLongPress, OpenPress
<1>5. timers' \subseteq Timer
  BY <1>1 DEF IInv, TypeOK
<1>6. heard' \in [Pattern -> Seq(PressAction)]
  <2>1. <<"long_press">> \in Seq(PressAction)
    BY DEF PressAction
  <2>2. QED
    BY <1>1, <2>1, EmitType DEF IInv, TypeOK, FireLongPress
<1>7. TypeOK'
  <2>1. scheduler' \in BOOLEAN /\ listener' \subseteq Pattern /\ fed' \in Nat
    BY <1>1 DEF IInv, TypeOK
  <2>2. QED
    BY <2>1, <1>4, <1>5, <1>6, Zenon DEF TypeOK
<1>8. Numbered'
  BY <1>1, <1>3, <1>4 DEF IInv, Numbered
<1>9. TimerRunsOnce'
  <2> SUFFICES ASSUME NEW u \in timers', open'[u.pattern].id = u.id
               PROVE  ~open'[u.pattern].long_fired
    BY DEF TimerRunsOnce
  <2>1. u \in Timer /\ u.pattern \in Pattern /\ u = [pattern |-> u.pattern, id |-> u.id]
    BY <1>5, TimerFacts
  <2>2. u.pattern # p
    BY <1>1, <1>4, <2>1
  <2>3. QED
    BY <2>1, <2>2, <1>1, <1>4 DEF IInv, TimerRunsOnce
<1>10. TimersMatchOpenPresses'
  <2>1. CASE ~scheduler
    BY <2>1, <1>1 DEF IInv, TimersMatchOpenPresses
  <2>2. CASE scheduler
    <3>1. /\ {TimerOf(q) : q \in Unreported} \subseteq timers
          /\ ReliableCancel => timers = {TimerOf(q) : q \in Unreported}
      BY <2>2 DEF IInv, TimersMatchOpenPresses
    <3>2. p \notin Unreported'
      BY <1>4 DEF Unreported
    <3>3. \A q \in Pattern : q # p => /\ TimerOf(q)' = TimerOf(q)
                                      /\ q \in Unreported' <=> q \in Unreported
                                      /\ TimerOf(q) # TimerOf(p)
      BY <1>4 DEF TimerOf, Unreported
    <3>4. \A q \in Unreported' : TimerOf(q)' \in timers'
      BY <3>1, <3>2, <3>3, <1>1, <1>2 DEF Unreported
    <3>5. ASSUME ReliableCancel, NEW u \in timers'
          PROVE  \E q \in Unreported' : u = TimerOf(q)'
      BY <3>1, <3>3, <3>5, <1>1, <1>2 DEF Unreported
    <3>6. QED
      BY <2>2, <1>1, <3>4, <3>5 DEF TimersMatchOpenPresses
  <2>3. QED
    BY <2>1, <2>2
<1>11. QED
  BY <1>7, <1>8, <1>9, <1>10 DEF IInv

\* A stale timer is spent and changes nothing else; it belonged to no press
\* that is still open.
LEMMA StaleInv ==
  ASSUME IInv, NEW t \in timers, FireStale(t)
  PROVE  IInv'
<1>1. /\ timers' = timers \ {t}
      /\ UNCHANGED <<scheduler, listener, open, heard, fed>>
      /\ open[t.pattern].id # t.id
  BY DEF FireStale
<1>2. \A p \in Pattern : TimerOf(p) # t /\ TimerOf(p)' = TimerOf(p)
  BY <1>1 DEF TimerOf
<1>3. Unreported' = Unreported /\ \A p \in Unreported : p \in Pattern
  BY <1>1 DEF Unreported
<1>4. TypeOK' /\ Numbered' /\ TimerRunsOnce'
  BY <1>1 DEF IInv, TypeOK, Numbered, TimerRunsOnce
<1>5. TimersMatchOpenPresses'
  <2>1. CASE ~scheduler
    BY <2>1, <1>1 DEF IInv, TimersMatchOpenPresses
  <2>2. CASE scheduler
    <3>1. /\ {TimerOf(q) : q \in Unreported} \subseteq timers
          /\ ReliableCancel => timers = {TimerOf(q) : q \in Unreported}
      BY <2>2 DEF IInv, TimersMatchOpenPresses
    <3>2. ~ReliableCancel
      BY <3>1, <1>2, <1>3
    <3>3. \A q \in Unreported' : TimerOf(q)' \in timers'
      BY <3>1, <1>1, <1>2, <1>3
    <3>4. QED
      BY <2>2, <3>2, <3>3, <1>1 DEF TimersMatchOpenPresses
  <2>3. QED
    BY <2>1, <2>2
<1>6. QED
  BY <1>4, <1>5 DEF IInv

\* Unloading closes every press; no timer it leaves has a press to report.
LEMMA ClearInv ==
  ASSUME IInv, Clear
  PROVE  IInv'
<1>1. /\ open' = [p \in Pattern |-> NoPress]
      /\ UNCHANGED <<scheduler, listener, heard, fed>>
      /\ timers' \subseteq timers
      /\ ReliableCancel => timers' = timers \ {TimerOf(p) : p \in Pattern}
  BY DEF Clear, TimerOf
<1>2. TypeOK'
  BY <1>1, TimerFacts DEF IInv, TypeOK
<1>3. Numbered'
  BY <1>1 DEF IInv, TypeOK, Numbered, NoPress
<1>4. TimerRunsOnce'
  BY <1>1, TimerFacts DEF IInv, TypeOK, TimerRunsOnce, NoPress
<1>5. TimersMatchOpenPresses'
  <2>1. Unreported' = {}
    BY <1>1 DEF Unreported
  <2>2. CASE ~scheduler
    BY <2>2, <1>1 DEF IInv, TimersMatchOpenPresses
  <2>3. CASE scheduler
    <3>1. ReliableCancel => timers = {TimerOf(q) : q \in Unreported}
      BY <2>3 DEF IInv, TimersMatchOpenPresses
    <3>2. ReliableCancel => timers' = {}
      BY <3>1, <1>1 DEF Unreported
    <3>3. QED
      BY <2>1, <2>3, <3>2, <1>1 DEF TimersMatchOpenPresses
  <2>4. QED
    BY <2>2, <2>3
<1>6. QED
  BY <1>2, <1>3, <1>4, <1>5 DEF IInv

\* A lone release and a change of listeners touch neither presses nor timers.
LEMMA QuietInv ==
  ASSUME IInv,
         NEW p \in Pattern,
         HandleLoneRelease(p) \/ AddListener(p) \/ RemoveListener(p)
  PROVE  IInv'
<1>1. UNCHANGED <<scheduler, open, timers>>
  BY DEF HandleLoneRelease, AddListener, RemoveListener
<1>2. fed \in Nat /\ fed' \in Nat /\ fed <= fed'
  BY DEF IInv, TypeOK, HandleLoneRelease, AddListener, RemoveListener
<1>3. TypeOK'
  <2>1. heard' \in [Pattern -> Seq(PressAction)]
    <3>1. <<"release">> \in Seq(PressAction)
      BY DEF PressAction
    <3>2. CASE HandleLoneRelease(p)
      BY <3>1, <3>2, EmitType DEF IInv, TypeOK, HandleLoneRelease
    <3>3. CASE AddListener(p) \/ RemoveListener(p)
      BY <3>3 DEF IInv, TypeOK, AddListener, RemoveListener
    <3>4. QED
      BY <3>2, <3>3
  <2>2. listener' \subseteq Pattern
    BY DEF IInv, TypeOK, HandleLoneRelease, AddListener, RemoveListener
  <2>3. QED
    BY <1>1, <1>2, <2>1, <2>2 DEF IInv, TypeOK
<1>4. Numbered'
  BY <1>1, <1>2, TimerFacts DEF IInv, TypeOK, Numbered, OpenPress
<1>5. TimerRunsOnce' /\ TimersMatchOpenPresses'
  BY <1>1 DEF IInv, TimerRunsOnce, TimersMatchOpenPresses, Unreported, TimerOf
<1>6. QED
  BY <1>3, <1>4, <1>5 DEF IInv

\* Every step of the tracker keeps the invariant.
LEMMA InvStep == IInv /\ [Next]_vars => IInv'
<1> SUFFICES ASSUME IInv, [Next]_vars PROVE IInv'
  OBVIOUS
<1>1. ASSUME NEW p \in Pattern, AddListener(p) \/ RemoveListener(p) PROVE IInv'
  BY <1>1, QuietInv
<1>2. ASSUME NEW raw \in Raw, HandleButtonState(raw) PROVE IInv'
  <2>1. normalize_button_pattern(raw, Rockers) \in Pattern
    BY DEF Pattern
  <2>2. PICK p \in Pattern : HandlePress(p) \/ HandleRelease(p) \/ HandleLoneRelease(p)
    BY <1>2, <2>1 DEF HandleButtonState
  <2>3. QED
    BY <2>2, PressInv, ReleaseInv, QuietInv
<1>3. ASSUME NEW t \in timers, FireTimer(t) PROVE IInv'
  BY <1>3, LongPressInv, StaleInv DEF FireTimer
<1>4. CASE Clear
  BY <1>4, ClearInv
<1>5. CASE UNCHANGED vars
  BY <1>5 DEF vars, IInv, TypeOK, Numbered, TimerRunsOnce, TimersMatchOpenPresses,
              Unreported, TimerOf
<1>6. QED
  BY <1>1, <1>2, <1>3, <1>4, <1>5 DEF Next

\* The inductive invariant holds in every reachable state.
THEOREM Inductive == Spec => []IInv
BY InvInit, InvStep, PTL DEF Spec

\* The tracker's state stays well-formed.
THEOREM TypeCorrect == Spec => []TypeOK
<1>1. IInv => TypeOK
  BY DEF IInv
<1>2. QED
  BY <1>1, Inductive, PTL

\* A hold timer is pending for every open, unreported press and, if cancels
\* work, for nothing else.
THEOREM TimersCorrect == Spec => []TimersMatchOpenPresses
<1>1. IInv => TimersMatchOpenPresses
  BY DEF IInv
<1>2. QED
  BY <1>1, Inductive, PTL

-----------------------------------------------------------------------------

\* The phase of a pattern changes only with its open press.
LEMMA PhaseStep ==
  ASSUME TypeOK, NEW p \in Pattern, NEW new \in OpenPress,
         open' = [open EXCEPT ![p] = new],
         NEW name,
         name = IF new = NoPress THEN "idle" ELSE IF new.long_fired THEN "held" ELSE "pressed"
  PROVE  phase' = [phase EXCEPT ![p] = name]
<1>1. \A q \in Pattern : open'[q] = IF q = p THEN new ELSE open[q]
  BY DEF TypeOK
<1>2. QED
  BY <1>1 DEF phase

\* Telling a listener that may be missing is what the promise allows.
LEMMA TellStep ==
  ASSUME NEW p \in Pattern, NEW actions, Emit(p, actions)
  PROVE  Promise!Tell(p, actions)
BY DEF Emit, Promise!Tell

\* The tracker starts where the promise starts.
LEMMA PromiseInit == Init => Promise!Init
BY DEF Init, Promise!Init, phase

\* Every step of the tracker is a step the promise allows, or none.
LEMMA PromiseStep == IInv /\ [Next]_vars => [Promise!Next]_(Promise!vars)
<1> SUFFICES ASSUME IInv, [Next]_vars PROVE [Promise!Next]_(Promise!vars)
  OBVIOUS
<1> TypeOK /\ Numbered /\ TimerRunsOnce
  BY DEF IInv
<1>1. ASSUME NEW p \in Pattern, AddListener(p) \/ RemoveListener(p)
      PROVE  UNCHANGED Promise!vars
  BY <1>1 DEF AddListener, RemoveListener, Promise!vars, phase
<1>2. ASSUME NEW p \in Pattern, HandlePress(p) PROVE Promise!Press(p)
  <2> DEFINE new == [id |-> fed + 1, long_fired |-> FALSE]
  <2>1. new \in OpenPress /\ new # NoPress /\ ~new.long_fired
    BY DEF TypeOK, OpenPress, NoPress
  <2>2. open' = [open EXCEPT ![p] = new]
    BY <1>2 DEF HandlePress
  <2>3. phase' = [phase EXCEPT ![p] = "pressed"]
    BY <2>1, <2>2, PhaseStep
  <2>4. QED
    BY <1>2, <2>3, TellStep DEF HandlePress, Promise!Press, Promise!Become
<1>3. ASSUME NEW p \in Pattern, HandleRelease(p) PROVE Promise!Release(p)
  <2>1. phase' = [phase EXCEPT ![p] = "idle"]
    BY <1>3, TimerFacts, PhaseStep DEF HandleRelease
  <2>2. phase[p] = IF open[p].long_fired THEN "held" ELSE "pressed"
    BY <1>3 DEF HandleRelease, phase
  <2>3. QED
    BY <1>3, <2>1, <2>2, TellStep DEF HandleRelease, Promise!Release, Promise!Become
<1>4. ASSUME NEW p \in Pattern, HandleLoneRelease(p) PROVE Promise!Release(p)
  <2>1. phase[p] = "idle" /\ phase' = [phase EXCEPT ![p] = "idle"]
    BY <1>4 DEF HandleLoneRelease, phase
  <2>2. QED
    BY <1>4, <2>1, TellStep DEF HandleLoneRelease, Promise!Release, Promise!Become
<1>5. ASSUME NEW t \in timers, FireLongPress(t) PROVE Promise!Hold(t.pattern)
  <2> DEFINE p == t.pattern
             new == [open[p] EXCEPT !.long_fired = TRUE]
  <2>1. p \in Pattern /\ t.id > 0 /\ open[p].id = t.id /\ ~open[p].long_fired
    BY <1>5, TimerFacts DEF TypeOK, Numbered, TimerRunsOnce, FireLongPress
  <2>2. open[p] \in OpenPress /\ open[p] # NoPress
    BY <2>1 DEF TypeOK, NoPress
  <2>3. new \in OpenPress /\ new # NoPress /\ new.long_fired
    BY <2>1, <2>2 DEF OpenPress, NoPress
  <2>4. open' = [open EXCEPT ![p] = new]
    BY <1>5 DEF FireLongPress
  <2>5. phase' = [phase EXCEPT ![p] = "held"]
    BY <2>1, <2>3, <2>4, PhaseStep
  <2>6. phase[p] = "pressed"
    BY <2>1, <2>2 DEF phase
  <2>7. QED
    BY <1>5, <2>1, <2>5, <2>6, TellStep DEF FireLongPress, Promise!Hold, Promise!Become
<1>6. ASSUME NEW t \in timers, FireStale(t) PROVE UNCHANGED Promise!vars
  BY <1>6 DEF FireStale, Promise!vars, phase
<1>7. CASE Clear
  <2>1. phase' = [p \in Pattern |-> "idle"]
    BY <1>7 DEF Clear, phase
  <2>2. QED
    BY <1>7, <2>1 DEF Clear, Promise!Next, Promise!Forget
<1>8. CASE UNCHANGED vars
  BY <1>8 DEF vars, Promise!vars, phase
<1>9. ASSUME NEW raw \in Raw, HandleButtonState(raw)
      PROVE  Promise!Next
  <2>1. normalize_button_pattern(raw, Rockers) \in Pattern
    BY DEF Pattern
  <2>2. QED
    BY <1>9, <2>1, <1>2, <1>3, <1>4 DEF HandleButtonState, Promise!Next
<1>10. ASSUME NEW t \in timers, FireTimer(t)
       PROVE  [Promise!Next]_(Promise!vars)
  <2>1. t.pattern \in Pattern
    BY TimerFacts DEF TypeOK
  <2>2. QED
    BY <1>10, <2>1, <1>5, <1>6 DEF FireTimer, Promise!Next
<1>11. QED
  BY <1>1, <1>7, <1>8, <1>9, <1>10 DEF Next, Promise!Next

\* The tracker keeps the promise of Gestures, whatever timers run late or
\* despite their cancellation, and whatever telegrams are lost.
THEOREM KeepsPromise == Spec => GesturesSpec
BY PromiseInit, PromiseStep, Inductive, PTL DEF Spec, GesturesSpec, Promise!Spec
=============================================================================
