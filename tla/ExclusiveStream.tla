---------------------------- MODULE ExclusiveStream ----------------------------
(***************************************************************************)
(* What a source promises its clients about their streams (pkg/source,     *)
(* StreamEvents and Stop).                                                 *)
(*                                                                         *)
(* A source that is open serves one stream at a time, and turns another    *)
(* away only while it serves one.  The events of the stream it serves are  *)
(* delivered one by one, each after it was produced.  The stream is        *)
(* complete only when the producer has sealed it and every event was       *)
(* delivered; it may be cut at any time, and after either nothing more is  *)
(* delivered.  The next stream is taken when this one is released.  A      *)
(* source that closes takes no stream, and comes to rest without one.      *)
(***************************************************************************)
EXTENDS Naturals

CONSTANT Streams

VARIABLES
  gate,        \* "open", "closing" or "closed"
  serving,     \* the streams that are served
  produced,    \* per stream: number of events produced
  sealed,      \* the streams whose producer will produce no more
  delivered,   \* per stream: number of events the client was sent
  outcome      \* per stream: "none", "complete" or "cut"

vars == <<gate, serving, produced, sealed, delivered, outcome>>

Init ==
  /\ gate = "open"
  /\ serving = {}
  /\ produced = [s \in Streams |-> 0]
  /\ sealed = {}
  /\ delivered = [s \in Streams |-> 0]
  /\ outcome = [s \in Streams |-> "none"]

Fresh(s) == s \notin serving /\ outcome[s] = "none"

Pending(s) == s \in serving /\ outcome[s] = "none"

Admit(s) ==
  /\ gate = "open"
  /\ Fresh(s)
  /\ serving = {}
  /\ serving' = {s}
  /\ UNCHANGED <<gate, produced, sealed, delivered, outcome>>

TurnAway(s) ==
  /\ gate = "open"
  /\ Fresh(s)
  /\ serving # {}
  /\ outcome' = [outcome EXCEPT ![s] = "cut"]
  /\ UNCHANGED <<gate, serving, produced, sealed, delivered>>

\* A producer may still be at work when the outcome of its stream is decided.
Produce(s) ==
  /\ s \in serving \ sealed
  /\ produced' = [produced EXCEPT ![s] = @ + 1]
  /\ UNCHANGED <<gate, serving, sealed, delivered, outcome>>

Seal(s) ==
  /\ s \in serving \ sealed
  /\ sealed' = sealed \cup {s}
  /\ UNCHANGED <<gate, serving, produced, delivered, outcome>>

Deliver(s) ==
  /\ Pending(s)
  /\ delivered[s] < produced[s]
  /\ delivered' = [delivered EXCEPT ![s] = @ + 1]
  /\ UNCHANGED <<gate, serving, produced, sealed, outcome>>

Complete(s) ==
  /\ Pending(s)
  /\ s \in sealed
  /\ delivered[s] = produced[s]
  /\ outcome' = [outcome EXCEPT ![s] = "complete"]
  /\ UNCHANGED <<gate, serving, produced, sealed, delivered>>

Cut(s) ==
  /\ Pending(s)
  /\ outcome' = [outcome EXCEPT ![s] = "cut"]
  /\ UNCHANGED <<gate, serving, produced, sealed, delivered>>

\* What the producer left is dropped with its stream.
Release(s) ==
  /\ s \in serving
  /\ outcome[s] # "none"
  /\ serving' = serving \ {s}
  /\ sealed' = sealed \ {s}
  /\ UNCHANGED <<gate, produced, delivered, outcome>>

Close ==
  /\ gate = "open"
  /\ gate' = "closing"
  /\ UNCHANGED <<serving, produced, sealed, delivered, outcome>>

Rest ==
  /\ gate = "closing"
  /\ serving = {}
  /\ gate' = "closed"
  /\ UNCHANGED <<serving, produced, sealed, delivered, outcome>>

Next ==
  \/ \E s \in Streams :
       \/ Admit(s)
       \/ TurnAway(s)
       \/ Produce(s)
       \/ Seal(s)
       \/ Deliver(s)
       \/ Complete(s)
       \/ Cut(s)
       \/ Release(s)
  \/ Close
  \/ Rest

Spec == Init /\ [][Next]_vars
===============================================================================
