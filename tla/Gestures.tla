------------------------------ MODULE Gestures ------------------------------
(***************************************************************************)
(* What a button's listener is promised: every press is reported, then at  *)
(* most one of long_press (while it is held) and short_press (when it is   *)
(* released unheld), and every release. No timers, no identities, nothing  *)
(* reported later about a press whose release was lost.                    *)
(***************************************************************************)
EXTENDS Sequences

CONSTANT Pattern     \* the button patterns of one switch

VARIABLES phase,     \* per pattern: "idle", "pressed" or "held"
          heard      \* per pattern: the actions its listener has been told

vars == <<phase, heard>>

Init ==
  /\ phase = [p \in Pattern |-> "idle"]
  /\ heard = [p \in Pattern |-> <<>>]

\* The listener is told, or there is no listener.
Tell(p, actions) ==
  \/ heard' = [heard EXCEPT ![p] = @ \o actions]
  \/ UNCHANGED heard

Become(p, new) == phase' = [phase EXCEPT ![p] = new]

\* A press always starts afresh, whatever became of the one before it.
Press(p) == Become(p, "pressed") /\ Tell(p, <<"press">>)

Hold(p) ==
  /\ phase[p] = "pressed"
  /\ Become(p, "held")
  /\ Tell(p, <<"long_press">>)

Release(p) ==
  /\ Become(p, "idle")
  /\ Tell(p, IF phase[p] = "pressed" THEN <<"short_press", "release">>
                                     ELSE <<"release">>)

\* Unloading forgets every press and tells nobody.
Forget ==
  /\ phase' = [p \in Pattern |-> "idle"]
  /\ UNCHANGED heard

Next ==
  \/ \E p \in Pattern : Press(p) \/ Hold(p) \/ Release(p)
  \/ Forget

Spec == Init /\ [][Next]_vars
=============================================================================
