------------------------------- MODULE Processor -------------------------------
(***************************************************************************)
(* The streams of a processor: Process and processAndSend of processor.go, *)
(* the handler registry of handler.go, the counters of metrics.go, and the *)
(* heartbeats in which controller.go reports them.                         *)
(*                                                                         *)
(* Each Process call is one goroutine that receives an event, runs the     *)
(* handler of its type, sends the output and only then receives again.     *)
(* All share one set of counters.  Stop closes stopCh, stops the           *)
(* controller, and waits in GracefulStop for the streams; it cancels none. *)
(* Lifecycle.tla has the other steps of Start and Stop, and their failures.*)
(***************************************************************************)
EXTENDS Naturals, Sequences, FiniteSets

CONSTANTS
  Streams,      \* the Process calls
  Types,        \* event types
  Unreadable,   \* a message no event comes of: too large, or not decodable
  CtxErrors,    \* how a context ends: Canceled, DeadlineExceeded
  InputTypes,   \* the sets of input types of the program's handlers
  MaxEvents,    \* bound on the events all clients send
  MaxHandlers   \* bound on the handlers that are registered

ASSUME ProcessorAssumption ==
  /\ InputTypes \subseteq SUBSET Types
  /\ Unreadable \notin Types
  /\ CtxErrors \cap {"none", "OK", "Unknown", "Internal", "ResourceExhausted",
                     "output", "nil", "failed"} = {}
  /\ MaxEvents \in Nat
  /\ MaxHandlers \in Nat

VARIABLES
  handlers,   \* the registry: the input types of each handler, in order
  phase,      \* "setup", "serving", then the steps of Stop
  metrics,    \* StandardMetrics
  heartbeat,  \* the counts the latest heartbeat carries
  pc,         \* per stream: where its Process call is
  sent,       \* per stream: the types of the events the client sent, in order
  closed,     \* per stream: the client half-closed
  ended,      \* per stream: stream.Context().Err()
  result,     \* per stream: what the handler returned
  done,       \* per stream: what became of each event that is dealt with
  status,     \* per stream: the status the client is given
  late        \* per stream: events received after stopCh was closed

clientVars == <<sent, closed, ended>>
vars == <<handlers, phase, metrics, heartbeat, pc, clientVars, result, done,
          status, late>>

Messages  == Types \cup {Unreadable}
Fates     == {"delivered", "filtered", "failed", "unhandled", "lost"}
Running   == {"find", "handle", "tally", "judge", "send"}
Counts    == [processed : Nat, errors : Nat, success : Nat]
Zero      == [processed |-> 0, errors |-> 0, success |-> 0]

Init ==
  /\ handlers = <<>>
  /\ phase = "setup"
  /\ metrics = Zero
  /\ heartbeat = Zero
  /\ pc = [s \in Streams |-> "idle"]
  /\ sent = [s \in Streams |-> <<>>]
  /\ closed = [s \in Streams |-> FALSE]
  /\ ended = [s \in Streams |-> "none"]
  /\ result = [s \in Streams |-> "none"]
  /\ done = [s \in Streams |-> <<>>]
  /\ status = [s \in Streams |-> "none"]
  /\ late = [s \in Streams |-> 0]

Stopping    == phase \in {"stopping", "draining", "stopped"}   \* stopCh is closed
Received(s) == Len(done[s]) + IF pc[s] \in Running THEN 1 ELSE 0
Event(s)    == sent[s][Received(s)]
Arrived(s)  == sent[s][Received(s) + 1]   \* what Recv finds, if there is any

\* GetHandlersForType, of which processAndSend takes the first.
GetHandlersForType(t) == {h \in DOMAIN handlers : t \in handlers[h]}

\* IncrementProcessedCount and its likes, each in its own critical section.
Increment(count) == metrics' = [metrics EXCEPT ![count] = @ + 1]

Goto(s, here, there) ==
  /\ pc[s] = here
  /\ pc' = [pc EXCEPT ![s] = there]

\* Process returns; gRPC turns what is not a status into Unknown, but for the
\* errors of a context, which keep their code.
Return(s, here, code) ==
  /\ Goto(s, here, "ended")
  /\ status' = [status EXCEPT ![s] = code]

Finish(s, fate) ==
  /\ done' = [done EXCEPT ![s] = Append(@, fate)]
  /\ result' = [result EXCEPT ![s] = "none"]

-------------------------------------------------------------------------------
(* The program: handlers, Start, Stop, heartbeats. *)

\* Handlers are registered before the processor serves: the registry has no lock.
RegisterHandler(ts) ==
  /\ phase = "setup"
  /\ Len(handlers) < MaxHandlers
  /\ handlers' = Append(handlers, ts)
  /\ UNCHANGED <<phase, metrics, heartbeat, pc, clientVars, result, done, status,
                 late>>

Advance(here, there) ==
  /\ phase = here
  /\ phase' = there
  /\ UNCHANGED <<handlers, metrics, pc, clientVars, result, done, status, late>>

Start == Advance("setup", "serving") /\ UNCHANGED heartbeat

Stop == Advance("serving", "stopping") /\ UNCHANGED heartbeat

\* The heartbeats end.  GracefulStop follows, and admits no more streams.
StopController == Advance("stopping", "draining") /\ UNCHANGED heartbeat

\* Mutant: processAndSend leaves processingWg up when it finds no handler.
DrainedUnlessUnhandled ==
  /\ \A s \in Streams :
       pc[s] \in {"idle", "ended"} /\ "unhandled" \notin {done[s][i] : i \in DOMAIN done[s]}
  /\ Advance("draining", "stopped")
  /\ UNCHANGED heartbeat

\* GracefulStop returns, and processingWg has nothing to wait for.
Drained ==
  /\ \A s \in Streams : pc[s] \in {"idle", "ended"}
  /\ Advance("draining", "stopped")
  /\ UNCHANGED heartbeat

\* Mutant: the processed count was read before, under another lock.
SendHeartbeatStale ==
  /\ phase \in {"serving", "stopping"}
  /\ heartbeat' = [metrics EXCEPT !.processed = heartbeat.processed]
  /\ UNCHANGED <<handlers, phase, metrics, pc, clientVars, result, done, status,
                 late>>

\* The ticker fires: GetMetrics copies all counts under one lock.  Whether the
\* RPC succeeds changes nothing here.
SendHeartbeat ==
  /\ phase \in {"serving", "stopping"}
  /\ heartbeat' = metrics
  /\ UNCHANGED <<handlers, phase, metrics, pc, clientVars, result, done, status,
                 late>>

-------------------------------------------------------------------------------
(* The client of a stream. *)

Open(s) ==
  /\ phase \in {"serving", "stopping"}
  /\ Goto(s, "idle", "select")
  /\ UNCHANGED <<handlers, phase, metrics, heartbeat, clientVars, result, done,
                 status, late>>

Live(s) == pc[s] \notin {"idle", "ended"} /\ ended[s] = "none"

EventsSent == UNION {{s} \X DOMAIN sent[s] : s \in Streams}

Send(s, t) ==
  /\ Live(s) /\ ~closed[s]
  /\ Cardinality(EventsSent) < MaxEvents
  /\ sent' = [sent EXCEPT ![s] = Append(@, t)]
  /\ UNCHANGED <<handlers, phase, metrics, heartbeat, pc, closed, ended, result,
                 done, status, late>>

CloseSend(s) ==
  /\ Live(s) /\ ~closed[s]
  /\ closed' = [closed EXCEPT ![s] = TRUE]
  /\ UNCHANGED <<handlers, phase, metrics, heartbeat, pc, sent, ended, result,
                 done, status, late>>

\* It cancels, goes away, or its deadline passes.
ClientEnds(s, err) ==
  /\ Live(s)
  /\ ended' = [ended EXCEPT ![s] = err]
  /\ UNCHANGED <<handlers, phase, metrics, heartbeat, pc, sent, closed, result,
                 done, status, late>>

-------------------------------------------------------------------------------
(* Process.  The select takes any of its ready cases, and the default, which *)
(* receives, only when none is ready.                                        *)

SelectContext(s) ==
  /\ ended[s] # "none"
  /\ Return(s, "select", ended[s])
  /\ UNCHANGED <<handlers, phase, metrics, heartbeat, clientVars, result, done,
                 late>>

SelectStop(s) ==
  /\ Stopping
  /\ Return(s, "select", "Unknown")
  /\ UNCHANGED <<handlers, phase, metrics, heartbeat, clientVars, result, done,
                 late>>

\* Mutant: only the context is looked at.
SelectDefaultStopped(s) ==
  /\ ended[s] = "none"
  /\ Goto(s, "select", "recv")
  /\ UNCHANGED <<handlers, phase, metrics, heartbeat, clientVars, result, done,
                 status, late>>

SelectDefault(s) ==
  /\ ended[s] = "none" /\ ~Stopping
  /\ Goto(s, "select", "recv")
  /\ UNCHANGED <<handlers, phase, metrics, heartbeat, clientVars, result, done,
                 status, late>>

RecvEvent(s) ==
  /\ Received(s) < Len(sent[s]) /\ Arrived(s) \in Types
  /\ Goto(s, "recv", "find")
  /\ late' = [late EXCEPT ![s] = @ + IF Stopping THEN 1 ELSE 0]
  /\ UNCHANGED <<handlers, phase, metrics, heartbeat, clientVars, result, done,
                 status>>

RecvEOF(s) ==
  /\ closed[s] /\ Received(s) = Len(sent[s])
  /\ Return(s, "recv", "OK")
  /\ UNCHANGED <<handlers, phase, metrics, heartbeat, clientVars, result, done,
                 late>>

\* What Recv returns when it has neither an event nor the end of the stream: the
\* end of the context, or, with the context alive, the error of a message that is
\* over the receive limit or cannot be decoded.
RecvErrors(s) ==
  (IF ended[s] = "none" THEN {} ELSE {ended[s]}) \cup
  (IF Received(s) < Len(sent[s]) /\ Arrived(s) = Unreadable
   THEN {"ResourceExhausted", "Internal"} ELSE {})

\* Mutant: an error other than EOF is ignored, and Recv called again.
RecvFailsRetried(s) ==
  /\ RecvErrors(s) # {}
  /\ Goto(s, "recv", "recv")
  /\ UNCHANGED <<handlers, phase, metrics, heartbeat, clientVars, result, done,
                 status, late>>

\* Any error ends the stream.
RecvFails(s) ==
  /\ \E code \in RecvErrors(s) : Return(s, "recv", code)
  /\ UNCHANGED <<handlers, phase, metrics, heartbeat, clientVars, result, done,
                 late>>

-------------------------------------------------------------------------------
(* processAndSend. *)

HandlerNotFound(s) ==
  /\ pc[s] = "find" /\ GetHandlersForType(Event(s)) = {}
  /\ Return(s, "find", "Unknown")
  /\ Increment("errors")
  /\ Finish(s, "unhandled")
  /\ UNCHANGED <<handlers, phase, heartbeat, clientVars, late>>

Handle(s) ==
  /\ pc[s] = "find" /\ GetHandlersForType(Event(s)) # {}
  /\ Goto(s, "find", "handle")
  /\ UNCHANGED <<handlers, phase, metrics, heartbeat, clientVars, result, done,
                 status, late>>

\* The handler may also report the end of a context of its own.
HandlerReturns(s, r) ==
  /\ Goto(s, "handle", "tally")
  /\ result' = [result EXCEPT ![s] = r]
  /\ UNCHANGED <<handlers, phase, metrics, heartbeat, clientVars, done, status,
                 late>>

CountProcessed(s) ==
  /\ Goto(s, "tally", "judge")
  /\ Increment("processed")
  /\ UNCHANGED <<handlers, phase, heartbeat, clientVars, result, done, status,
                 late>>

\* Mutant: an error is passed on without a status.
HandlerStatusRaw(s) == IF ended[s] # "none" THEN ended[s] ELSE result[s]

\* The end of the stream's context goes before the handler's own error.
HandlerStatus(s) ==
  IF ended[s] # "none" THEN ended[s]
  ELSE IF result[s] \in CtxErrors THEN result[s] ELSE "Unknown"

\* Mutant: the errors of cancelled streams are returned before they are counted.
HandlerFailedUncounted(s) ==
  /\ result[s] \notin {"output", "nil"}
  /\ Return(s, "judge", HandlerStatus(s))
  /\ IF ended[s] # "none" THEN UNCHANGED metrics ELSE Increment("errors")
  /\ Finish(s, "failed")
  /\ UNCHANGED <<handlers, phase, heartbeat, clientVars, late>>

HandlerFailed(s) ==
  /\ result[s] \notin {"output", "nil"}
  /\ Return(s, "judge", HandlerStatus(s))
  /\ Increment("errors")
  /\ Finish(s, "failed")
  /\ UNCHANGED <<handlers, phase, heartbeat, clientVars, late>>

Filter(s) ==
  /\ result[s] = "nil"
  /\ Goto(s, "judge", "select")
  /\ Finish(s, "filtered")
  /\ UNCHANGED <<handlers, phase, metrics, heartbeat, clientVars, status, late>>

CountSuccess(s) ==
  /\ result[s] = "output"
  /\ Goto(s, "judge", "send")
  /\ Increment("success")
  /\ UNCHANGED <<handlers, phase, heartbeat, clientVars, result, done, status,
                 late>>

SendOutput(s) ==
  /\ Goto(s, "send", "select")
  /\ Finish(s, "delivered")
  /\ UNCHANGED <<handlers, phase, metrics, heartbeat, clientVars, status, late>>

\* Mutant: the error is logged and the stream goes on.
SendFailsLogged(s) ==
  /\ Goto(s, "send", "select")
  /\ Finish(s, "lost")
  /\ UNCHANGED <<handlers, phase, metrics, heartbeat, clientVars, status, late>>

\* The stream has ended, or the output cannot be encoded.
SendFails(s) ==
  /\ Return(s, "send", IF ended[s] # "none" THEN ended[s] ELSE "Internal")
  /\ Finish(s, "lost")
  /\ UNCHANGED <<handlers, phase, metrics, heartbeat, clientVars, late>>

-------------------------------------------------------------------------------
Results == {"output", "nil", "failed"} \cup CtxErrors

Program ==
  \/ \E ts \in InputTypes : RegisterHandler(ts)
  \/ Start \/ Stop \/ StopController \/ Drained
  \/ SendHeartbeat

Client(s) ==
  \/ Open(s) \/ CloseSend(s)
  \/ \E t \in Messages : Send(s, t)
  \/ \E err \in CtxErrors : ClientEnds(s, err)

Select(s) == SelectContext(s) \/ SelectStop(s) \/ SelectDefault(s)
Recv(s)   == RecvEvent(s) \/ RecvEOF(s) \/ RecvFails(s)
Judge(s)  == HandlerFailed(s) \/ Filter(s) \/ CountSuccess(s)
Finishes(s) == \E r \in Results : HandlerReturns(s, r)
Deliver(s) == SendOutput(s) \/ SendFails(s)

Process(s) ==
  \/ Select(s) \/ Recv(s) \/ HandlerNotFound(s) \/ Handle(s) \/ Finishes(s)
  \/ CountProcessed(s) \/ Judge(s) \/ Deliver(s)

Next == Program \/ \E s \in Streams : Client(s) \/ Process(s)

Spec == Init /\ [][Next]_vars

\* What a Process call does by itself.  A handler is only known to return, and a
\* Send to get through, once the context of the stream has ended; a Recv returns
\* when there is something to return.
Advances(s) ==
  /\ pc[s] \in {"handle", "send"} => ended[s] # "none"
  /\ Process(s)

\* Goroutines run, each one step after the other, Stop's and those of the streams.
\* The client does as it likes.
Fairness ==
  /\ WF_vars(StopController \/ Drained)
  /\ \A s \in Streams : WF_vars(Advances(s))

FairSpec == Spec /\ Fairness

-------------------------------------------------------------------------------
(* Properties. *)

TypeOK ==
  /\ handlers \in Seq(SUBSET Types) /\ Len(handlers) <= MaxHandlers
  /\ phase \in {"setup", "serving", "stopping", "draining", "stopped"}
  /\ {metrics, heartbeat} \subseteq Counts
  /\ pc \in [Streams -> {"idle", "select", "recv", "ended"} \cup Running]
  /\ sent \in [Streams -> Seq(Messages)]
  /\ closed \in [Streams -> BOOLEAN]
  /\ ended \in [Streams -> CtxErrors \cup {"none"}]
  /\ result \in [Streams -> Results \cup {"none"}]
  /\ done \in [Streams -> Seq(Fates)]
  /\ status \in [Streams -> CtxErrors \cup {"none", "OK", "Unknown", "Internal",
                                            "ResourceExhausted"}]
  /\ late \in [Streams -> Nat]

Fated(fates) ==
  UNION {{s} \X {i \in DOMAIN done[s] : done[s][i] \in fates} : s \in Streams}

Last(s, fates) == done[s] # <<>> /\ done[s][Len(done[s])] \in fates

\* The message after the last event that was dealt with is unreadable.
Refused(s) == Len(done[s]) < Len(sent[s]) /\ sent[s][Len(done[s]) + 1] = Unreadable

\* The status of a stream says what became of its events (processor.go:221-301).
\* OK: the client half-closed, and every event it sent was filtered or its output
\* sent; any other status has its cause in the last event, in a message that could
\* not be read, in the stream's context or in Stop.  An event that fails, for want
\* of a handler, in its handler or in Send, is the last of its stream, and so is
\* the one before an unreadable message: no later event overtakes it.  (What
\* docs/QUICKSTART.md:266 says of a handler's error, that it is logged and that
\* processing continues, is not so: the stream ends with it.)
Justified(s) ==
  /\ status[s] = "OK" => closed[s] /\ Len(done[s]) = Len(sent[s])
  /\ status[s] = "Unknown" => Stopping \/ Last(s, {"failed", "unhandled"})
  /\ status[s] = "Internal" => Last(s, {"lost"}) \/ Refused(s)
  /\ status[s] = "ResourceExhausted" => Refused(s)
  /\ status[s] \in CtxErrors => ended[s] = status[s] \/ Last(s, {"failed"})
  /\ \A i \in DOMAIN done[s] :
       /\ sent[s][i] # Unreadable
       /\ done[s][i] \in {"failed", "unhandled", "lost"} =>
            i = Len(done[s]) /\ status[s] \notin {"none", "OK"}

StatusJustified == \A s \in Streams : Justified(s)

At(places) == {s \in Streams : pc[s] \in places}

\* The counts that all streams share are, at every moment, those of the fates of
\* their events, with what is under way; a success is an output that Send was
\* called with (processor.go:273-291).
MetricsAgree ==
  /\ metrics.processed = Cardinality(Fated(Fates \ {"unhandled"}))
                            + Cardinality(At({"judge", "send"}))
  /\ metrics.errors = Cardinality(Fated({"failed", "unhandled"}))
  /\ metrics.success = Cardinality(Fated({"delivered", "lost"})) + Cardinality(At({"send"}))

\* A heartbeat carries counts that were true together, though the streams count
\* in several steps: no more successes than processed events, and never ahead of
\* the counts themselves (controller.go:274-363, metrics.go:87-111).
ReportsAgree ==
  /\ heartbeat.success <= heartbeat.processed
  /\ \A c \in DOMAIN Zero : heartbeat[c] <= metrics[c]

\* Once stopCh is closed a stream takes at most one more event, the one its Recv
\* was waiting for (processor.go:228).
StopBounded == \A s \in Streams : late[s] <= 1

\* A stream whose client has gone comes to an end, whatever it was doing.
EndsWithClient ==
  \A s \in Streams :
    (ended[s] # "none" /\ pc[s] # "idle") ~> pc[s] = "ended"

\* Stop returns once every stream that is open has lost its client.  It cancels
\* none, and Recv does not look at stopCh: a client that stays and is silent
\* holds it for ever (processor.go:195, 232).
StopReturns ==
  (phase = "draining" /\ \A s \in Streams : ~Live(s)) ~> phase = "stopped"
===============================================================================
