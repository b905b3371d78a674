----------------------------- MODULE ReplayGate -----------------------------
(***************************************************************************)
(* What the button pipeline promises, with no tasks, locks, caches or      *)
(* files in flight: per switch a durable high-water counter that only      *)
(* rises, and a stream of button events, each strictly newer than the one  *)
(* before it and each covered by the durable counter when it appears.      *)
(* The promise spans restarts: neither variable ever falls back.           *)
(***************************************************************************)
EXTENDS Integers, Sequences, Telegram

CONSTANTS Switch,    \* switches that may be commissioned
          Counter,   \* values of a telegram's sequence counter
          Status     \* values of a telegram's switch-status byte

VARIABLES durable,   \* the counter in the private store's file
          events     \* the button events fired so far

vars == <<durable, events>>

\* A record absent from the store, and a record whose counter is None: both
\* lie below every counter, an absent record below the other.
NoRecord == -2
NoCounter == -1

Value == {NoRecord, NoCounter} \cup Counter
Event == [counter : Counter, status : Status]

Init ==
  /\ durable = [s \in Switch |-> NoRecord]
  /\ events = [s \in Switch |-> <<>>]

\* One write of the file: any number of switches advance, none falls back.
Persist ==
  /\ durable' \in [Switch -> Value]
  /\ \A s \in Switch : durable[s] <= durable'[s]
  /\ UNCHANGED events

\* An event is fired only for a decodable status, only once its counter is
\* durable, and only if it is newer than every event before it.
Fire(s, e) ==
  /\ Decodes(e.status)
  /\ e.counter <= durable[s]
  /\ \A i \in DOMAIN events[s] : events[s][i].counter < e.counter
  /\ events' = [events EXCEPT ![s] = Append(@, e)]
  /\ UNCHANGED durable

Next ==
  \/ Persist
  \/ \E s \in Switch, e \in Event : Fire(s, e)

Spec == Init /\ [][Next]_vars
=============================================================================
