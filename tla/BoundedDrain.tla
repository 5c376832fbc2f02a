----------------------------- MODULE BoundedDrain -----------------------------
(***************************************************************************)
(* What a bounded drain promises, for one consumer that serves several     *)
(* streams (pkg/consumer/service.go, the comment at lines 53-56 and the    *)
(* response of line 101).                                                  *)
(*                                                                         *)
(* A client offers a stream of events and may close it.  The consumer      *)
(* settles them one at a time, in the order offered: an event is kept (its *)
(* effect is durable), lost (reported as failed) or skipped (not an input  *)
(* type of this consumer).  A stream is acknowledged only when it is       *)
(* closed and every event offered is settled, and never when every one was *)
(* skipped; nothing becomes durable after that.  A stream may be refused   *)
(* at any time, and then at most the event being worked on still becomes   *)
(* durable.                                                                *)
(***************************************************************************)
EXTENDS Naturals, Sequences, FiniteSets

CONSTANTS Streams, Types, InputTypes

VARIABLES
  offered,   \* offered[s] is the sequence of event types the client sent
  closed,    \* closed[s]: the client half-closed the stream
  kept,      \* number of events reported as consumed
  lost,      \* number of events reported as failed
  skipped,   \* number of events filtered out by type
  durable,   \* positions of the events whose effect is durable
  outcome    \* "pending", "acked" or "refused"

vars == <<offered, closed, kept, lost, skipped, durable, outcome>>

Wanted(t) == InputTypes = {} \/ t \in InputTypes

Init ==
  /\ offered = [s \in Streams |-> << >>]
  /\ closed = [s \in Streams |-> FALSE]
  /\ kept = [s \in Streams |-> 0]
  /\ lost = [s \in Streams |-> 0]
  /\ skipped = [s \in Streams |-> 0]
  /\ durable = [s \in Streams |-> {}]
  /\ outcome = [s \in Streams |-> "pending"]

\* Events are settled in order, so their number is also a position.
Settled(s) == kept[s] + lost[s] + skipped[s]

\* The one event that may be worked on.
Next1(s) == Settled(s) + 1

HasNext(s) == Next1(s) <= Len(offered[s])

Offer(s, t) ==
  /\ ~closed[s]
  /\ offered' = [offered EXCEPT ![s] = Append(@, t)]
  /\ UNCHANGED <<closed, kept, lost, skipped, durable, outcome>>

Close(s) ==
  /\ closed' = [closed EXCEPT ![s] = TRUE]
  /\ UNCHANGED <<offered, kept, lost, skipped, durable, outcome>>

Persist(s) ==
  /\ outcome[s] # "acked"
  /\ HasNext(s)
  /\ Wanted(offered[s][Next1(s)])
  /\ durable' = [durable EXCEPT ![s] = @ \cup {Next1(s)}]
  /\ UNCHANGED <<offered, closed, kept, lost, skipped, outcome>>

Keep(s) ==
  /\ outcome[s] = "pending"
  /\ Next1(s) \in durable[s]
  /\ kept' = [kept EXCEPT ![s] = @ + 1]
  /\ UNCHANGED <<offered, closed, lost, skipped, durable, outcome>>

\* A failed callback may have made its event durable before it failed.
Lose(s) ==
  /\ outcome[s] = "pending"
  /\ HasNext(s)
  /\ Wanted(offered[s][Next1(s)])
  /\ lost' = [lost EXCEPT ![s] = @ + 1]
  /\ UNCHANGED <<offered, closed, kept, skipped, durable, outcome>>

Skip(s) ==
  /\ outcome[s] = "pending"
  /\ HasNext(s)
  /\ ~Wanted(offered[s][Next1(s)])
  /\ skipped' = [skipped EXCEPT ![s] = @ + 1]
  /\ UNCHANGED <<offered, closed, kept, lost, durable, outcome>>

Acknowledge(s) ==
  /\ outcome[s] = "pending"
  /\ closed[s]
  /\ ~HasNext(s)
  /\ skipped[s] > 0 => kept[s] + lost[s] > 0
  /\ outcome' = [outcome EXCEPT ![s] = "acked"]
  /\ UNCHANGED <<offered, closed, kept, lost, skipped, durable>>

Refuse(s) ==
  /\ outcome[s] = "pending"
  /\ outcome' = [outcome EXCEPT ![s] = "refused"]
  /\ UNCHANGED <<offered, closed, kept, lost, skipped, durable>>

Next ==
  \E s \in Streams :
    \/ \E t \in Types : Offer(s, t)
    \/ Close(s)
    \/ Persist(s)
    \/ Keep(s)
    \/ Lose(s)
    \/ Skip(s)
    \/ Acknowledge(s)
    \/ Refuse(s)

Spec == Init /\ [][Next]_vars
===============================================================================
