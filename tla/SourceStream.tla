----------------------------- MODULE SourceStream -----------------------------
(***************************************************************************)
(* The streams of a source (pkg/source): StreamEvents, streamWithResult    *)
(* and failStream of source.go, streamStatus of stream.go, the end of      *)
(* Start and the part of Stop that concern the streams.                    *)
(*                                                                         *)
(* A stream has the goroutine of StreamEvents, a watcher that cancels the  *)
(* derived context when the source stops, and the user's producer, which   *)
(* fills the channel Events, sends a terminal result and closes Events.    *)
(* The client reads at its own pace and may cancel or run into its         *)
(* deadline.  A producer may break its contract in every way the code      *)
(* looks for: said records what it did.                                    *)
(***************************************************************************)
EXTENDS Naturals, Sequences, FiniteSets, Tallies

CONSTANTS
  Streams,      \* the StreamEvents calls
  Kinds,        \* the errors a producer may report, among ErrorKinds
  MaxEvents,    \* bound on the events a producer sends on one stream
  BufferSize    \* capacity of Events

CtxErrors == {"canceled", "deadline"}

\* The kinds of a StreamError, and three errors that are none: one that wraps
\* context.Canceled, one that wraps context.DeadlineExceeded, and any other.
Classified == {"InvalidRequest", "Canceled", "UpstreamUnavailable", "DataIntegrity",
               "DownstreamUnavailable", "Internal"}
ErrorKinds == Classified \cup CtxErrors \cup {"plain"}

ASSUME SourceAssumption ==
  /\ Kinds \subseteq ErrorKinds
  /\ MaxEvents \in Nat
  /\ BufferSize \in Nat \ {0}

VARIABLES
  handler,     \* the producer registered: "legacy" or "stream"; the two exclude
               \* each other (OnProduce, OnProduceStream), so it is fixed
  phase,       \* of the source: "starting" (Serve runs, Start has not returned),
               \* "up", "signalled" (stopCh closed), "stopping" (the controller is
               \* stopped), "draining" (the server), "stopped"
  health,      \* the status of the health server
  streaming,   \* the flag that admits one stream at a time
  ctxErr,      \* per stream: stream.Context().Err()
  derivedErr,  \* per stream: Err() of the context streamWithResult derives
  watching,    \* per stream: the watcher goroutine runs
  pc,          \* per stream: where StreamEvents is
  producer,    \* per stream: "none", "running", "ended"
  bounded,     \* per stream: ProducerStream.Bounded
  events,      \* per stream: contents of the channel Events
  event,       \* per stream: the event the loop took from it
  closed,      \* per stream: Events is closed
  result,      \* per stream: contents of the channel Result
  said,        \* per stream: errors and contract breaches of the producer
  produced,    \* per stream: number of events put into Events
  delivered,   \* per stream: number of events sent to the client
  code,        \* per stream: the status the client gets
  processed,   \* metrics: processed count
  succeeded,   \* metrics: success count
  errors       \* metrics: error count

sourceVars   == <<handler, phase, health, streaming>>
contextVars  == <<ctxErr, derivedErr, watching>>
producerVars == <<producer, bounded, events, closed, result, said, produced>>
deliveryVars == <<event, delivered>>
metricVars   == <<processed, succeeded, errors>>

vars == <<sourceVars, contextVars, pc, producerVars, deliveryVars,
          code, metricVars>>

Breaches == {"incomplete", "nilEvent", "missingResult", "twoResults",
             "unboundedEnd"}

Codes == {"OK", "InvalidArgument", "Canceled", "Unavailable", "DataLoss", "Internal",
          "DeadlineExceeded", "Unknown"}

LoopStates == {"idle", "start", "loop", "select", "got", "sending", "sent", "counted",
               "drained", "terminal", "returning", "done"}

TypeOK ==
  /\ handler \in {"legacy", "stream"}
  /\ phase \in {"starting", "up", "signalled", "stopping", "draining", "stopped"}
  /\ health \in {"STARTING", "HEALTHY", "UNHEALTHY", "STOPPING"}
  /\ streaming \in BOOLEAN
  /\ ctxErr \in [Streams -> {"nil"} \cup CtxErrors]
  /\ derivedErr \in [Streams -> {"nil"} \cup CtxErrors]
  /\ watching \in [Streams -> BOOLEAN]
  /\ pc \in [Streams -> LoopStates]
  /\ producer \in [Streams -> {"none", "running", "ended"}]
  /\ bounded \in [Streams -> BOOLEAN]
  /\ events \in [Streams -> Seq({"event", "nil"})]
  /\ \A s \in Streams : Len(events[s]) <= BufferSize
  /\ event \in [Streams -> {"none", "event", "nil"}]
  /\ closed \in [Streams -> BOOLEAN]
  /\ result \in [Streams -> Seq({"nil"} \cup ErrorKinds)]
  /\ said \in [Streams -> SUBSET (ErrorKinds \cup Breaches)]
  /\ produced \in [Streams -> Nat]
  /\ delivered \in [Streams -> Nat]
  /\ code \in [Streams -> {"none"} \cup Codes]
  /\ processed \in Nat
  /\ succeeded \in Nat
  /\ errors \in Nat

Init ==
  /\ handler \in {"legacy", "stream"}
  /\ phase = "starting"
  /\ health = "STARTING"
  /\ streaming = FALSE
  /\ ctxErr = [s \in Streams |-> "nil"]
  /\ derivedErr = [s \in Streams |-> "nil"]
  /\ watching = [s \in Streams |-> FALSE]
  /\ pc = [s \in Streams |-> "idle"]
  /\ producer = [s \in Streams |-> "none"]
  /\ bounded = [s \in Streams |-> FALSE]
  /\ events = [s \in Streams |-> << >>]
  /\ event = [s \in Streams |-> "none"]
  /\ closed = [s \in Streams |-> FALSE]
  /\ result = [s \in Streams |-> << >>]
  /\ said = [s \in Streams |-> {}]
  /\ produced = [s \in Streams |-> 0]
  /\ delivered = [s \in Streams |-> 0]
  /\ code = [s \in Streams |-> "none"]
  /\ processed = 0
  /\ succeeded = 0
  /\ errors = 0

\* stopCh is closed by Stop and never reopened.
Stopped == phase \in {"signalled", "stopping", "draining", "stopped"}

\* GracefulStop refuses new streams.
Accepting == phase \in {"starting", "up", "signalled", "stopping"}

Live(s) == pc[s] \notin {"idle", "done"}

\* Err() of the context the producer was given.
ProducerCtxErr(s) ==
  IF handler = "stream" THEN derivedErr[s] ELSE ctxErr[s]

CtxStatus(e) == IF e = "deadline" THEN "DeadlineExceeded" ELSE "Canceled"

\* Variant for a mutation run: an error without a classification is passed on.
StatusOfUnclassified(k) == IF k \in CtxErrors THEN CtxStatus(k) ELSE k

\* streamStatus: a classification comes before what it wraps.
StatusOf(k) ==
  CASE k = "InvalidRequest" -> "InvalidArgument"
    [] k \in {"Canceled", "canceled"} -> "Canceled"
    [] k \in {"UpstreamUnavailable", "DownstreamUnavailable"} -> "Unavailable"
    [] k = "DataIntegrity" -> "DataLoss"
    [] k = "deadline" -> "DeadlineExceeded"
    [] OTHER -> "Internal"

\* The errors that failStream turns into UNHEALTHY.
Severe(k) == k \notin {"Canceled", "InvalidRequest", "canceled"}

-------------------------------------------------------------------------------
(* The client and the transport *)

\* Variant for a mutation run: the flag is not looked at.
AdmitUnguarded(s) ==
  /\ Accepting
  /\ pc[s] = "idle"
  /\ streaming' = TRUE
  /\ pc' = [pc EXCEPT ![s] = "start"]
  /\ watching' = [watching EXCEPT ![s] = handler = "stream"]
  /\ UNCHANGED <<handler, phase, health, ctxErr, derivedErr, producerVars,
                 deliveryVars, code, metricVars>>

\* The first lines of StreamEvents, under the mutex.  With an error-aware producer
\* the context is derived and the watcher started.
Admit(s) ==
  /\ Accepting
  /\ pc[s] = "idle"
  /\ ~streaming
  /\ streaming' = TRUE
  /\ pc' = [pc EXCEPT ![s] = "start"]
  /\ watching' = [watching EXCEPT ![s] = handler = "stream"]
  /\ UNCHANGED <<handler, phase, health, ctxErr, derivedErr, producerVars,
                 deliveryVars, code, metricVars>>

\* ErrAlreadyStreaming is not a status, so the client sees Unknown.
Reject(s) ==
  /\ Accepting
  /\ pc[s] = "idle"
  /\ streaming
  /\ pc' = [pc EXCEPT ![s] = "done"]
  /\ code' = [code EXCEPT ![s] = "Unknown"]
  /\ UNCHANGED <<sourceVars, contextVars, producerVars, deliveryVars, metricVars>>

\* The client cancels, disconnects, or its deadline passes; the derived context
\* ends with it unless it has already ended.
ClientEnds(s, e) ==
  /\ Live(s)
  /\ ctxErr[s] = "nil"
  /\ ctxErr' = [ctxErr EXCEPT ![s] = e]
  /\ derivedErr' = [derivedErr EXCEPT ![s] = IF @ = "nil" THEN e ELSE @]
  /\ UNCHANGED <<sourceVars, watching, pc, producerVars, deliveryVars, code,
                 metricVars>>

\* The watcher: on stopCh it cancels the derived context, and it ends with it.
Watch(s) ==
  /\ watching[s]
  /\ Stopped \/ derivedErr[s] # "nil"
  /\ derivedErr' = [derivedErr EXCEPT ![s] = IF @ = "nil" THEN "canceled" ELSE @]
  /\ watching' = [watching EXCEPT ![s] = FALSE]
  /\ UNCHANGED <<sourceVars, ctxErr, pc, producerVars, deliveryVars, code,
                 metricVars>>

-------------------------------------------------------------------------------
(* The producer, user code *)

Running(s) == producer[s] = "running"

Produce(s, e) ==
  /\ Running(s)
  /\ produced[s] < MaxEvents
  /\ Len(events[s]) < BufferSize
  /\ events' = [events EXCEPT ![s] = Append(@, e)]
  /\ produced' = [produced EXCEPT ![s] = @ + 1]
  /\ said' = [said EXCEPT ![s] = IF e = "nil" THEN @ \cup {"nilEvent"} ELSE @]
  /\ UNCHANGED <<sourceVars, contextVars, pc, producer, bounded, closed, result,
                 deliveryVars, code, metricVars>>

SendResult(s, r, what) ==
  /\ Running(s)
  /\ handler = "stream"
  /\ result[s] = << >>
  /\ result' = [result EXCEPT ![s] = <<r>>]
  /\ said' = [said EXCEPT ![s] = @ \cup what]
  /\ UNCHANGED <<sourceVars, contextVars, pc, producer, bounded, events, closed,
                 produced, deliveryVars, code, metricVars>>

Succeed(s) == SendResult(s, "nil", IF bounded[s] THEN {} ELSE {"unboundedEnd"})

Fail(s, k) == SendResult(s, k, {k})

\* A producer that stops because its context ended reports the context's error.
ReportCancel(s) ==
  /\ ProducerCtxErr(s) # "nil"
  /\ SendResult(s, ProducerCtxErr(s), {})

\* A second result, whatever it is, in a channel with room for it.
SendSecondResult(s) ==
  /\ Running(s)
  /\ Len(result[s]) = 1
  /\ result' = [result EXCEPT ![s] = Append(@, "nil")]
  /\ said' = [said EXCEPT ![s] = @ \cup {"twoResults"}]
  /\ UNCHANGED <<sourceVars, contextVars, pc, producer, bounded, events, closed,
                 produced, deliveryVars, code, metricVars>>

CloseEvents(s) ==
  /\ Running(s)
  /\ closed' = [closed EXCEPT ![s] = TRUE]
  /\ producer' = [producer EXCEPT ![s] = "ended"]
  /\ said' = [said EXCEPT ![s] =
                IF handler = "stream" /\ result[s] = << >>
                THEN @ \cup {"missingResult"} ELSE @]
  /\ UNCHANGED <<sourceVars, contextVars, pc, bounded, events, result, produced,
                 deliveryVars, code, metricVars>>

-------------------------------------------------------------------------------
(* StreamEvents *)

\* StreamEvents goes on at l; nothing but its place and its producer changes.
Goto(s, l) ==
  /\ pc' = [pc EXCEPT ![s] = l]
  /\ UNCHANGED <<sourceVars, contextVars, deliveryVars, code, metricVars>>

\* StreamEvents has its status; what is deferred is still to run.
ReturnWith(s, c) ==
  /\ pc' = [pc EXCEPT ![s] = "returning"]
  /\ code' = [code EXCEPT ![s] = c]

ReturnUnfailed(s, c) ==
  /\ ReturnWith(s, c)
  /\ UNCHANGED <<sourceVars, contextVars, deliveryVars, metricVars>>

\* failStream
FailStream(s, k) ==
  /\ ReturnWith(s, StatusOf(k))
  /\ health' = IF Severe(k) THEN "UNHEALTHY" ELSE health
  /\ errors' = errors + 1
  /\ UNCHANGED <<handler, phase, streaming, contextVars, deliveryVars, processed,
                 succeeded>>

\* The producer is called.  It returns an error (which for the legacy producer
\* is wrapped and not a status), nothing usable, or channels; when the derived
\* context has ended meanwhile the outcome is that, whatever it returned.
StartProducer(s) ==
  /\ pc[s] = "start"
  /\ \E b \in BOOLEAN :
       /\ producer' = [producer EXCEPT ![s] = "running"]
       /\ bounded' = [bounded EXCEPT ![s] = b]
       /\ UNCHANGED <<events, closed, result, said, produced>>
  /\ IF handler = "stream" /\ derivedErr[s] # "nil"
     THEN ReturnUnfailed(s, CtxStatus(derivedErr[s]))
     ELSE Goto(s, "loop")

\* A producer that fails to start because its context ended says so.  The legacy
\* error is no status, so the client sees Unknown unless it wraps a context's.
StartFails(s, k) ==
  /\ pc[s] = "start"
  /\ k = "incomplete" => handler = "stream"
  /\ said' = [said EXCEPT ![s] = IF k = ProducerCtxErr(s) THEN @ ELSE @ \cup {k}]
  /\ UNCHANGED <<producer, bounded, events, closed, result, produced>>
  /\ CASE handler = "legacy" ->
            ReturnUnfailed(s, IF k \in CtxErrors THEN CtxStatus(k) ELSE "Unknown")
       [] handler = "stream" /\ derivedErr[s] # "nil" ->
            ReturnUnfailed(s, CtxStatus(derivedErr[s]))
       [] OTHER -> FailStream(s, IF k = "incomplete" THEN "plain" ELSE k)

\* The loop looks at the derived context first: cancellation comes before any
\* buffered event.  The legacy loop has no such check.
CheckContext(s) ==
  /\ pc[s] = "loop"
  /\ UNCHANGED producerVars
  /\ IF handler = "stream" /\ derivedErr[s] # "nil"
     THEN ReturnUnfailed(s, CtxStatus(derivedErr[s]))
     ELSE Goto(s, "select")

\* Variant for a mutation run: the loop with an error-aware producer waits for
\* its events only.
SelectContextLegacy(s) ==
  /\ pc[s] = "select"
  /\ handler = "legacy"
  /\ ctxErr[s] # "nil"
  /\ ReturnUnfailed(s, CtxStatus(ctxErr[s]))
  /\ UNCHANGED producerVars

\* The cases of the select are ready independently of each other; any ready one
\* may be taken.
SelectContext(s) ==
  /\ pc[s] = "select"
  /\ ProducerCtxErr(s) # "nil"
  /\ ReturnUnfailed(s, CtxStatus(ProducerCtxErr(s)))
  /\ UNCHANGED producerVars

\* Only the legacy loop selects on stopCh; ErrSourceStopped is not a status.
SelectStop(s) ==
  /\ pc[s] = "select"
  /\ handler = "legacy"
  /\ Stopped
  /\ ReturnUnfailed(s, "Unknown")
  /\ UNCHANGED producerVars

SelectEvent(s) ==
  /\ pc[s] = "select"
  /\ events[s] # << >>
  /\ event' = [event EXCEPT ![s] = Head(events[s])]
  /\ events' = [events EXCEPT ![s] = Tail(@)]
  /\ pc' = [pc EXCEPT ![s] = "got"]
  /\ UNCHANGED <<sourceVars, contextVars, producer, bounded, closed, result, said,
                 produced, delivered, code, metricVars>>

\* Variant for a mutation run: the end is looked at before buffered events.
SelectClosedEarly(s) ==
  /\ pc[s] = "select"
  /\ closed[s]
  /\ Goto(s, "drained")
  /\ UNCHANGED producerVars

SelectClosed(s) ==
  /\ pc[s] = "select"
  /\ events[s] = << >>
  /\ closed[s]
  /\ Goto(s, "drained")
  /\ UNCHANGED producerVars

\* The event is dropped when the derived context has ended; a nil event is a
\* failure of the producer, but the legacy loop sends it.
CheckEvent(s) ==
  /\ pc[s] = "got"
  /\ UNCHANGED producerVars
  /\ CASE handler = "stream" /\ derivedErr[s] # "nil" ->
            ReturnUnfailed(s, CtxStatus(derivedErr[s]))
       [] handler = "stream" /\ derivedErr[s] = "nil" /\ event[s] = "nil" ->
            FailStream(s, "plain")
       [] OTHER -> Goto(s, "sending")

\* Send returns when the client made room.
Sent(s) ==
  /\ pc[s] = "sending"
  /\ delivered' = [delivered EXCEPT ![s] = @ + 1]
  /\ pc' = [pc EXCEPT ![s] = "sent"]
  /\ UNCHANGED <<event, sourceVars, contextVars, producerVars, code, metricVars>>

\* The two increments that follow.
CountProcessed(s) ==
  /\ pc[s] = "sent"
  /\ processed' = processed + 1
  /\ pc' = [pc EXCEPT ![s] = "counted"]
  /\ UNCHANGED <<sourceVars, contextVars, producerVars, deliveryVars, code, succeeded,
                 errors>>

CountSuccess(s) ==
  /\ pc[s] = "counted"
  /\ succeeded' = succeeded + 1
  /\ pc' = [pc EXCEPT ![s] = "loop"]
  /\ UNCHANGED <<sourceVars, contextVars, producerVars, deliveryVars, code, processed,
                 errors>>

\* Variant for a mutation run: a failed Send counts as a failure of the source.
SendFailsAsFailure(s) ==
  /\ pc[s] = "sending"
  /\ FailStream(s, "DownstreamUnavailable")
  /\ UNCHANGED producerVars

\* Send fails when the stream ended or the transport broke; that is not a
\* failure of the source.  The legacy loop passes the transport's status on.
SendFails(s) ==
  /\ pc[s] = "sending"
  /\ \/ handler = "stream" /\ ReturnUnfailed(s, StatusOf("DownstreamUnavailable"))
     \/ /\ handler = "legacy"
        /\ ReturnUnfailed(s, IF ctxErr[s] = "nil" THEN "Unavailable"
                             ELSE CtxStatus(ctxErr[s]))
  /\ UNCHANGED producerVars

\* Variant for a mutation run: no look at the derived context after the end.
CheckDrainedOnly(s) ==
  /\ pc[s] = "drained"
  /\ UNCHANGED producerVars
  /\ IF handler = "legacy"
     THEN ReturnUnfailed(s, "OK")
     ELSE Goto(s, "terminal")

\* Events is closed and drained.  The legacy loop takes that for success.
CheckDrained(s) ==
  /\ pc[s] = "drained"
  /\ UNCHANGED producerVars
  /\ CASE handler = "legacy" -> ReturnUnfailed(s, "OK")
       [] handler = "stream" /\ derivedErr[s] # "nil" ->
            ReturnUnfailed(s, CtxStatus(derivedErr[s]))
       [] OTHER -> Goto(s, "terminal")

\* Variant for a mutation run: a missing result is waited for.
TerminalAwaited(s) ==
  /\ pc[s] = "terminal"
  /\ result[s] # << >>
  /\ UNCHANGED producerVars
  /\ IF result[s][1] = "nil" THEN ReturnUnfailed(s, "OK")
     ELSE FailStream(s, result[s][1])

\* The terminal result is read without waiting: exactly one must be there.
Terminal(s) ==
  /\ pc[s] = "terminal"
  /\ UNCHANGED producerVars
  /\ LET r == result[s] IN
     CASE Len(r) # 1 -> FailStream(s, "plain")
       [] Len(r) = 1 /\ r[1] = "nil" ->
            IF bounded[s] THEN ReturnUnfailed(s, "OK") ELSE FailStream(s, "plain")
       [] Len(r) = 1 /\ r[1] = "canceled" /\ derivedErr[s] # "nil" ->
            ReturnUnfailed(s, CtxStatus(derivedErr[s]))
       [] OTHER -> FailStream(s, r[1])

\* The deferred calls: the derived context is cancelled; when the watcher has
\* ended, the next stream is admitted.
CancelDerived(s) ==
  /\ pc[s] = "returning"
  /\ handler = "stream"
  /\ derivedErr[s] = "nil"
  /\ derivedErr' = [derivedErr EXCEPT ![s] = "canceled"]
  /\ UNCHANGED <<sourceVars, ctxErr, watching, pc, producerVars, deliveryVars,
                 code, metricVars>>

\* The channels of a stream that is over are garbage.
Forget(s) ==
  /\ producer' = [producer EXCEPT ![s] = "none"]
  /\ bounded' = [bounded EXCEPT ![s] = FALSE]
  /\ events' = [events EXCEPT ![s] = << >>]
  /\ closed' = [closed EXCEPT ![s] = FALSE]
  /\ result' = [result EXCEPT ![s] = << >>]

Release(s) ==
  /\ pc[s] = "returning"
  /\ handler = "stream" => derivedErr[s] # "nil" /\ ~watching[s]
  /\ streaming' = FALSE
  /\ pc' = [pc EXCEPT ![s] = "done"]
  /\ event' = [event EXCEPT ![s] = "none"]
  /\ Forget(s)
  /\ UNCHANGED <<handler, phase, health, contextVars, said, produced, delivered,
                 code, metricVars>>

-------------------------------------------------------------------------------
(* The source: the last statement of Start, and Stop *)

Started ==
  /\ phase = "starting"
  /\ phase' = "up"
  /\ health' = "HEALTHY"
  /\ UNCHANGED <<handler, streaming, contextVars, pc, producerVars, deliveryVars,
                 code, metricVars>>

Stop ==
  /\ phase = "up"
  /\ phase' = "signalled"
  /\ UNCHANGED <<handler, health, streaming, contextVars, pc, producerVars,
                 deliveryVars, code, metricVars>>

StopHealth ==
  /\ phase = "signalled"
  /\ phase' = "stopping"
  /\ health' = "STOPPING"
  /\ UNCHANGED <<handler, streaming, contextVars, pc, producerVars, deliveryVars,
                 code, metricVars>>

\* The controller's Stop, which waits for nobody, returns, and GracefulStop begins.
BeginDrain ==
  /\ phase = "stopping"
  /\ phase' = "draining"
  /\ UNCHANGED <<handler, health, streaming, contextVars, pc, producerVars,
                 deliveryVars, code, metricVars>>

\* Variant for a mutation run: the server is stopped without waiting.
DrainedAtOnce ==
  /\ phase = "draining"
  /\ phase' = "stopped"
  /\ UNCHANGED <<handler, health, streaming, contextVars, pc, producerVars,
                 deliveryVars, code, metricVars>>

\* GracefulStop returns when no stream is left.
Drained ==
  /\ phase = "draining"
  /\ \A s \in Streams : ~Live(s)
  /\ phase' = "stopped"
  /\ UNCHANGED <<handler, health, streaming, contextVars, pc, producerVars,
                 deliveryVars, code, metricVars>>

-------------------------------------------------------------------------------
Client(s) ==
  \/ Admit(s)
  \/ Reject(s)
  \/ \E e \in CtxErrors : ClientEnds(s, e)

Producer(s) ==
  \/ \E e \in {"event", "nil"} : Produce(s, e)
  \/ Succeed(s)
  \/ \E k \in Kinds : Fail(s, k)
  \/ ReportCancel(s)
  \/ SendSecondResult(s)
  \/ CloseEvents(s)

StartFailure(s) == \E k \in Kinds \cup {"incomplete"} : StartFails(s, k)

\* What the goroutine of StreamEvents does without waiting for its client.
Loop(s) ==
  \/ StartProducer(s)
  \/ StartFailure(s)
  \/ CheckContext(s)
  \/ SelectContext(s)
  \/ SelectStop(s)
  \/ SelectEvent(s)
  \/ SelectClosed(s)
  \/ CheckEvent(s)
  \/ CountProcessed(s)
  \/ CountSuccess(s)
  \/ CheckDrained(s)
  \/ Terminal(s)
  \/ CancelDerived(s)
  \/ Release(s)

Shutdown == StopHealth \/ BeginDrain \/ Drained

Next ==
  \/ \E s \in Streams :
       Client(s) \/ Watch(s) \/ Producer(s) \/ Loop(s) \/ Sent(s) \/ SendFails(s)
  \/ Started
  \/ Stop
  \/ Shutdown

Spec == Init /\ [][Next]_vars

(***************************************************************************)
(* Fairness.  Goroutines of the source that can take a step do; a Send on  *)
(* a stream that ended fails; a producer is called and returns.  Clients,  *)
(* producers, the transport and the calls of Start and Stop have none.     *)
(***************************************************************************)
Fairness ==
  /\ \A s \in Streams :
       /\ WF_vars(Loop(s))
       /\ WF_vars(Watch(s))
       /\ WF_vars(ctxErr[s] # "nil" /\ SendFails(s))
  /\ WF_vars(Shutdown)

FairSpec == Spec /\ Fairness

-------------------------------------------------------------------------------
(* Properties *)

\* At most one stream is served at a time, from its admission until its watcher
\* has ended (source.go:259-273, 330).
OneStream ==
  \A s, t \in Streams : Live(s) /\ Live(t) => s = t

\* A successful stream is complete: the producer closed Events, every event it
\* put there was sent to the client, none was nil, and an error-aware producer
\* was bounded and reported success, once.
Complete(s) ==
  /\ closed[s]
  /\ events[s] = << >>
  /\ delivered[s] = produced[s]
  /\ handler = "stream" => bounded[s] /\ result[s] = <<"nil">> /\ said[s] = {}

\* The status a client gets is justified by what happened on its stream: OK by
\* a complete stream, a cancellation by its own context, by Stop or by the
\* producer, and any failure by what the producer reported or broke, or by a
\* Send that failed.
OutcomeJustified ==
  \A s \in Streams :
    CASE code[s] = "OK" -> pc[s] = "returning" => Complete(s)
      [] code[s] = "Canceled" ->
           ctxErr[s] = "canceled" \/ Stopped \/ said[s] \cap {"Canceled", "canceled"} # {}
      [] code[s] = "DeadlineExceeded" ->
           ctxErr[s] = "deadline" \/ "deadline" \in said[s]
      [] code[s] = "InvalidArgument" -> "InvalidRequest" \in said[s]
      [] code[s] = "DataLoss" -> "DataIntegrity" \in said[s]
      [] code[s] = "Internal" -> said[s] \cap ({"Internal", "plain"} \cup Breaches) # {}
      [] code[s] \in {"Unavailable", "Unknown", "none"} -> TRUE

\* Only a producer can make the source unhealthy, with an error that is neither
\* a cancellation nor a bad request or with a breach of its contract: a client
\* that cancels, stops reading or has a deadline cannot, whatever the order of
\* its cancellation, the producer's reaction to it and the checks of the loop
\* (source.go:352, 366, 398-406).
HealthJustified ==
  health = "UNHEALTHY" => \E s \in Streams : \E k \in said[s] : Severe(k)

\* The metrics count every event sent, each count behind by the streams that have
\* still to raise it, and every failed stream once; a client that goes away is no
\* error of the source (source.go:385-391, 398-406).
At(places) == {s \in Streams : pc[s] \in places}

MetricsAgree ==
  /\ processed + Cardinality(At({"sent"})) = Total(delivered)
  /\ succeeded + Cardinality(At({"sent", "counted"})) = Total(delivered)
  /\ errors >= Cardinality({s \in Streams :
                              code[s] \in {"InvalidArgument", "DataLoss", "Internal"}})
  /\ errors <= Cardinality({s \in Streams : said[s] # {}})

\* The source implements the exclusive stream: a stream is served from its
\* admission to its release, complete when its status is OK and cut by any other
\* (source.go:259-330); the source is open until Stop reaches GracefulStop.
Gate ==
  IF Accepting THEN "open"
  ELSE IF phase = "draining" THEN "closing" ELSE "closed"

Outcome(s) ==
  IF code[s] = "none" THEN "none" ELSE IF code[s] = "OK" THEN "complete" ELSE "cut"

Exclusive == INSTANCE ExclusiveStream WITH
  gate    <- Gate,
  serving <- {s \in Streams : Live(s)},
  sealed  <- {s \in Streams : closed[s]},
  outcome <- [s \in Streams |-> Outcome(s)]

ImplementsExclusive == Exclusive!Spec

\* A stream whose client cancelled, or whose deadline passed, ends: no goroutine
\* of it waits for the producer, and the derived context reaches the producer.
CancelEndsStream ==
  \A s \in Streams : (Live(s) /\ ctxErr[s] # "nil") ~> pc[s] = "done"

\* If clients keep reading, a stream ends when its producer has closed Events,
\* whatever result it left, and Stop's GracefulStop comes to its end.
Reading(s) == []<>(pc[s] # "sending")

StreamsEnd ==
  (\A s \in Streams : Reading(s)) =>
    /\ \A s \in Streams : (Live(s) /\ closed[s]) ~> pc[s] = "done"
    /\ phase = "signalled" ~> phase = "stopped"

\* docs/modernization-plan.md:42: the health does not stay healthy after an
\* unrecoverable failure of a stream.
FailureShowsInHealth ==
  (\E s \in Streams : code[s] \in {"DataLoss", "Internal"}) => health # "HEALTHY"
===============================================================================
