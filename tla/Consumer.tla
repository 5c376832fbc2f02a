------------------------------- MODULE Consumer -------------------------------
(***************************************************************************)
(* The flowctl consumer of pkg/consumer: the Consume handler of            *)
(* service.go, one instance per stream, and the shutdown sequence of Run   *)
(* in consumer.go.                                                         *)
(*                                                                         *)
(* Per stream there are three goroutines: the loop of Consume, at most one *)
(* goroutine blocked in stream.Recv, and at most one callback goroutine    *)
(* that runs the user's OnEvent.  The client sends, half-closes and        *)
(* cancels at any time; Run's main goroutine stops the service and then    *)
(* the gRPC server, without waiting for a handler, and the process ends.   *)
(*                                                                         *)
(* The messages of a stream are never removed from sent: rcvd counts those *)
(* a Recv returned, so an event is known by its position.                  *)
(***************************************************************************)
EXTENDS Naturals, Sequences, FiniteSets, Tallies

CONSTANTS
  Streams,       \* the Consume calls, concurrent or one after the other
  Types,         \* event types
  InputTypes,    \* inputTypeSet; empty when the consumer takes every type
  MaxEvents,     \* bound on the events a client sends on one stream
  SummaryLimit   \* 8 in the code

ASSUME ConsumerAssumption ==
  /\ InputTypes \subseteq Types
  /\ MaxEvents \in Nat
  /\ SummaryLimit \in Nat

VARIABLES
  onEvent,         \* whether ConsumerConfig.OnEvent is set: fixed at the start
  proc,            \* the process: "up", "closed" (gRPC server stopped), "exited"
  stopCh,          \* whether ConsumerService.stopCh is closed
  sent,            \* per stream: event types the client sent
  halfClosed,      \* per stream: the client half-closed
  ctxErr,          \* per stream: stream.Context().Err()
  pc,              \* per stream: where its Consume call is
  receiver,        \* per stream: a goroutine is in stream.Recv
  rcvd,            \* per stream: events Recv has returned
  inbox,           \* per stream: the result Recv left in received, then r
  inflight,        \* per stream: positions of the callbacks that are running
  done,            \* per stream: the result a callback left in done
  committed,       \* per stream: positions whose effect is durable
  okRet,           \* per stream: positions whose callback returned nil
  failRet,         \* per stream: positions whose callback returned an error
  consumed, failed, filtered, summaries,   \* the locals of Consume
  code,            \* per stream: the status Consume returned
  eventsConsumed,  \* the service's counters; successCount and errorCount
  eventsFailed     \* are always updated together with them

procVars     == <<onEvent, proc, stopCh>>
clientVars   == <<sent, halfClosed>>
recvVars     == <<receiver, rcvd, inbox>>
callbackVars == <<inflight, done, committed, okRet, failRet>>
tallyVars    == <<consumed, failed, filtered, summaries,
                  eventsConsumed, eventsFailed>>

vars == <<procVars, clientVars, ctxErr, pc, recvVars, callbackVars,
          tallyVars, code>>

LoopStates    == {"idle", "top", "recv", "got", "checked", "handle",
                  "handled", "done"}
CtxErrors     == {"canceled", "deadline"}
RecvResults   == {"event", "eof", "error", "nil"}
HandlerErrors == {"fail"} \cup CtxErrors
Refusals      == {"Canceled", "DeadlineExceeded", "Unavailable",
                  "InvalidArgument", "FailedPrecondition", "SendFailed"}

TypeOK ==
  /\ onEvent \in BOOLEAN
  /\ proc \in {"up", "closed", "exited"}
  /\ stopCh \in BOOLEAN
  /\ sent \in [Streams -> Seq(Types)]
  /\ halfClosed \in [Streams -> BOOLEAN]
  /\ ctxErr \in [Streams -> {"nil"} \cup CtxErrors]
  /\ pc \in [Streams -> LoopStates]
  /\ receiver \in [Streams -> BOOLEAN]
  /\ rcvd \in [Streams -> Nat]
  /\ \A s \in Streams : rcvd[s] <= Len(sent[s])
  /\ inbox \in [Streams -> {"none"} \cup RecvResults]
  /\ inflight \in [Streams -> SUBSET Nat]
  /\ done \in [Streams -> {"none", "ok"} \cup HandlerErrors]
  /\ committed \in [Streams -> SUBSET Nat]
  /\ okRet \in [Streams -> SUBSET Nat]
  /\ failRet \in [Streams -> SUBSET Nat]
  /\ consumed \in [Streams -> Nat]
  /\ failed \in [Streams -> Nat]
  /\ filtered \in [Streams -> Nat]
  /\ summaries \in [Streams -> Nat]
  /\ code \in [Streams -> {"none", "OK"} \cup Refusals]
  /\ eventsConsumed \in Nat
  /\ eventsFailed \in Nat

Init ==
  /\ onEvent \in BOOLEAN
  /\ proc = "up"
  /\ stopCh = FALSE
  /\ sent = [s \in Streams |-> << >>]
  /\ halfClosed = [s \in Streams |-> FALSE]
  /\ ctxErr = [s \in Streams |-> "nil"]
  /\ pc = [s \in Streams |-> "idle"]
  /\ receiver = [s \in Streams |-> FALSE]
  /\ rcvd = [s \in Streams |-> 0]
  /\ inbox = [s \in Streams |-> "none"]
  /\ inflight = [s \in Streams |-> {}]
  /\ done = [s \in Streams |-> "none"]
  /\ committed = [s \in Streams |-> {}]
  /\ okRet = [s \in Streams |-> {}]
  /\ failRet = [s \in Streams |-> {}]
  /\ consumed = [s \in Streams |-> 0]
  /\ failed = [s \in Streams |-> 0]
  /\ filtered = [s \in Streams |-> 0]
  /\ summaries = [s \in Streams |-> 0]
  /\ code = [s \in Streams |-> "none"]
  /\ eventsConsumed = 0
  /\ eventsFailed = 0

Alive == proc # "exited"

\* Variant for a mutation run: the bare context error is returned as a status.
StatusOfBareError(e) == "Unknown"

StatusOf(e) == IF e = "deadline" THEN "DeadlineExceeded" ELSE "Canceled"

Accepts(t) == InputTypes = {} \/ t \in InputTypes

\* The positions among the first n events of a stream that a callback is due for.
Wanted(s, n) == {i \in 1..n : Accepts(sent[s][i])}

Cancelled(s) == ctxErr[s] # "nil" \/ stopCh

\* What cancelled() returns: the stream's context is looked at first.
CancelledStatus(s) == IF ctxErr[s] # "nil" THEN StatusOf(ctxErr[s]) ELSE "Canceled"

\* Variant for a mutation run: the selects do not look at stopCh.
SelectWithoutStop(s) == IF ctxErr[s] # "nil" THEN {StatusOf(ctxErr[s])} ELSE {}

\* What a select on ctx.Done and stopCh may return: either ready case may win.
SelectStatuses(s) ==
  (IF ctxErr[s] # "nil" THEN {StatusOf(ctxErr[s])} ELSE {})
    \cup (IF stopCh THEN {"Canceled"} ELSE {})

\* Variant for a mutation run: no deferred cancel.
HandlerCtxWithoutCancel(s) == ctxErr[s] # "nil"

\* The context given to OnEvent ends with the stream's own context, and by the
\* deferred cancel when Consume returns.
HandlerCtxDone(s) == ctxErr[s] # "nil" \/ pc[s] = "done"

\* The loop goes on at l; nothing but its place changes.
Goto(s, l) ==
  /\ pc' = [pc EXCEPT ![s] = l]
  /\ UNCHANGED <<procVars, clientVars, ctxErr, recvVars, callbackVars,
                 tallyVars, code>>

Return(s, c) ==
  /\ pc' = [pc EXCEPT ![s] = "done"]
  /\ code' = [code EXCEPT ![s] = c]
  /\ UNCHANGED <<procVars, clientVars, ctxErr, recvVars, callbackVars, tallyVars>>

-------------------------------------------------------------------------------
(* The client, and the gRPC transport that carries its calls *)

Open(s) ==
  /\ proc = "up"
  /\ pc[s] = "idle"
  /\ Goto(s, "top")

ClientActive(s) ==
  /\ proc = "up"
  /\ pc[s] \notin {"idle", "done"}
  /\ ctxErr[s] = "nil"

Send(s, t) ==
  /\ ClientActive(s)
  /\ ~halfClosed[s]
  /\ Len(sent[s]) < MaxEvents
  /\ sent' = [sent EXCEPT ![s] = Append(@, t)]
  /\ UNCHANGED <<procVars, halfClosed, ctxErr, pc, recvVars, callbackVars,
                 tallyVars, code>>

CloseSend(s) ==
  /\ ClientActive(s)
  /\ ~halfClosed[s]
  /\ halfClosed' = [halfClosed EXCEPT ![s] = TRUE]
  /\ UNCHANGED <<procVars, sent, ctxErr, pc, recvVars, callbackVars,
                 tallyVars, code>>

\* The client cancels, disconnects, or its deadline passes.
Cancel(s, e) ==
  /\ ClientActive(s)
  /\ ctxErr' = [ctxErr EXCEPT ![s] = e]
  /\ UNCHANGED <<procVars, clientVars, pc, recvVars, callbackVars, tallyVars, code>>

-------------------------------------------------------------------------------
(* The goroutine in stream.Recv.  The channel received has room for its     *)
(* result, so it ends even when Consume has returned.                       *)

RecvReturns(s, r) ==
  /\ Alive
  /\ receiver[s]
  /\ receiver' = [receiver EXCEPT ![s] = FALSE]
  /\ inbox' = [inbox EXCEPT ![s] = r]
  /\ UNCHANGED <<procVars, clientVars, ctxErr, pc, callbackVars, tallyVars, code>>

RecvEvent(s) ==
  /\ rcvd[s] < Len(sent[s])
  /\ rcvd' = [rcvd EXCEPT ![s] = @ + 1]
  /\ RecvReturns(s, "event")

RecvEOF(s) ==
  /\ halfClosed[s]
  /\ rcvd[s] = Len(sent[s])
  /\ RecvReturns(s, "eof")
  /\ UNCHANGED rcvd

\* The context ended, the transport broke, or a message cannot be decoded.
RecvError(s) ==
  /\ RecvReturns(s, "error")
  /\ UNCHANGED rcvd

\* A stream implementation may return a nil event and no error.
RecvNil(s) ==
  /\ RecvReturns(s, "nil")
  /\ UNCHANGED rcvd

-------------------------------------------------------------------------------
(* The loop of Consume *)

\* A check of cancelled() that fails: at the top of the loop, after a receive
\* and after a callback.
ReturnCancelled(s) ==
  /\ Alive
  /\ pc[s] \in {"top", "got", "handled"}
  /\ Cancelled(s)
  /\ Return(s, CancelledStatus(s))

\* The two selects: while a receive and while a callback is awaited.
SelectCancelled(s) ==
  /\ Alive
  /\ pc[s] \in {"recv", "handle"}
  /\ \E c \in SelectStatuses(s) : Return(s, c)

StartRecv(s) ==
  /\ Alive
  /\ pc[s] = "top"
  /\ ~Cancelled(s)
  /\ pc' = [pc EXCEPT ![s] = "recv"]
  /\ receiver' = [receiver EXCEPT ![s] = TRUE]
  /\ UNCHANGED <<procVars, clientVars, ctxErr, rcvd, inbox, callbackVars,
                 tallyVars, code>>

AwaitRecv(s) ==
  /\ Alive
  /\ pc[s] = "recv"
  /\ inbox[s] # "none"
  /\ Goto(s, "got")

\* cancelled() returned nil: a Stop or a cancellation from here on is not seen
\* before the next select.
CheckRecv(s) ==
  /\ Alive
  /\ pc[s] = "got"
  /\ ~Cancelled(s)
  /\ Goto(s, "checked")

\* Variant for a mutation run: a stream whose events were all filtered out is
\* acknowledged.
EOFStatusesUnfiltered(s) == {"OK", "SendFailed"}

\* The statuses Consume may return at the client's half-close.  SendAndClose
\* fails on a stream that has ended meanwhile.
EOFStatuses(s) ==
  IF filtered[s] > 0 /\ consumed[s] + failed[s] = 0
  THEN {"FailedPrecondition"}
  ELSE {"OK", "SendFailed"}

\* Variant for a mutation run: any error of Recv is taken for the end.
EndOfStreamOnError(s) ==
  /\ Alive
  /\ pc[s] = "checked"
  /\ inbox[s] \in {"eof", "error"}
  /\ \E c \in EOFStatuses(s) : Return(s, c)

EndOfStream(s) ==
  /\ Alive
  /\ pc[s] = "checked"
  /\ inbox[s] = "eof"
  /\ \E c \in EOFStatuses(s) : Return(s, c)

\* Variant for a mutation run: a receive error is retried.
RecvFailedRetried(s) ==
  /\ Alive
  /\ pc[s] = "checked"
  /\ inbox[s] \in {"error", "nil"}
  /\ inbox' = [inbox EXCEPT ![s] = "none"]
  /\ pc' = [pc EXCEPT ![s] = "top"]
  /\ UNCHANGED <<procVars, clientVars, ctxErr, receiver, rcvd, callbackVars,
                 tallyVars, code>>

RecvFailed(s) ==
  /\ Alive
  /\ pc[s] = "checked"
  /\ inbox[s] \in {"error", "nil"}
  /\ Return(s, IF inbox[s] = "error" THEN "Unavailable" ELSE "InvalidArgument")

\* An event is at hand; its position is rcvd[s].
EventAtHand(s) ==
  /\ Alive
  /\ pc[s] = "checked"
  /\ inbox[s] = "event"

Filter(s) ==
  /\ EventAtHand(s)
  /\ ~Accepts(sent[s][rcvd[s]])
  /\ filtered' = [filtered EXCEPT ![s] = @ + 1]
  /\ inbox' = [inbox EXCEPT ![s] = "none"]
  /\ pc' = [pc EXCEPT ![s] = "top"]
  /\ UNCHANGED <<procVars, clientVars, ctxErr, receiver, rcvd, callbackVars,
                 consumed, failed, summaries, eventsConsumed, eventsFailed, code>>

NoHandler(s) ==
  /\ EventAtHand(s)
  /\ Accepts(sent[s][rcvd[s]])
  /\ ~onEvent
  /\ Return(s, "FailedPrecondition")

StartHandler(s) ==
  /\ EventAtHand(s)
  /\ Accepts(sent[s][rcvd[s]])
  /\ onEvent
  /\ inflight' = [inflight EXCEPT ![s] = @ \cup {rcvd[s]}]
  /\ inbox' = [inbox EXCEPT ![s] = "none"]
  /\ pc' = [pc EXCEPT ![s] = "handle"]
  /\ UNCHANGED <<procVars, clientVars, ctxErr, receiver, rcvd, done, committed,
                 okRet, failRet, tallyVars, code>>

\* Variant for a mutation run: the loop goes on without awaiting the callback.
AwaitHandlerSkipped(s) ==
  /\ Alive
  /\ pc[s] = "handle"
  /\ Goto(s, "top")

AwaitHandler(s) ==
  /\ Alive
  /\ pc[s] = "handle"
  /\ done[s] # "none"
  /\ Goto(s, "handled")

\* cancelled() returned nil after a callback; the rest of the iteration is
\* local to the loop.
Tallying(s) ==
  /\ Alive
  /\ pc[s] = "handled"
  /\ ~Cancelled(s)

\* Variant for a mutation run: a cancelled callback counts as failed.
HandlerCancelledCounted(s) ==
  /\ Tallying(s)
  /\ done[s] \in CtxErrors
  /\ pc' = [pc EXCEPT ![s] = "done"]
  /\ code' = [code EXCEPT ![s] = StatusOf(done[s])]
  /\ eventsFailed' = eventsFailed + 1
  /\ UNCHANGED <<procVars, clientVars, ctxErr, recvVars, callbackVars, consumed,
                 failed, filtered, summaries, eventsConsumed>>

HandlerCancelled(s) ==
  /\ Tallying(s)
  /\ done[s] \in CtxErrors
  /\ Return(s, StatusOf(done[s]))

NextIteration(s) ==
  /\ pc' = [pc EXCEPT ![s] = "top"]
  /\ done' = [done EXCEPT ![s] = "none"]
  /\ UNCHANGED <<procVars, clientVars, ctxErr, recvVars, inflight, committed,
                 okRet, failRet, filtered, code>>

CountFailed(s) ==
  /\ Tallying(s)
  /\ done[s] = "fail"
  /\ failed' = [failed EXCEPT ![s] = @ + 1]
  /\ eventsFailed' = eventsFailed + 1
  /\ summaries' = [summaries EXCEPT ![s] = IF @ < SummaryLimit THEN @ + 1 ELSE @]
  /\ NextIteration(s)
  /\ UNCHANGED <<consumed, eventsConsumed>>

CountConsumed(s) ==
  /\ Tallying(s)
  /\ done[s] = "ok"
  /\ consumed' = [consumed EXCEPT ![s] = @ + 1]
  /\ eventsConsumed' = eventsConsumed + 1
  /\ NextIteration(s)
  /\ UNCHANGED <<failed, summaries, eventsFailed>>

-------------------------------------------------------------------------------
(* The callback OnEvent, user code: it makes its event durable at some      *)
(* point, returns nil only after that, and may fail before or after.        *)

Commit(s, i) ==
  /\ Alive
  /\ i \in inflight[s]
  /\ committed' = [committed EXCEPT ![s] = @ \cup {i}]
  /\ UNCHANGED <<procVars, clientVars, ctxErr, pc, recvVars, inflight, done,
                 okRet, failRet, tallyVars, code>>

HandlerReturns(s, i, e) ==
  /\ Alive
  /\ i \in inflight[s]
  /\ inflight' = [inflight EXCEPT ![s] = @ \ {i}]
  /\ done' = [done EXCEPT ![s] = e]
  /\ UNCHANGED <<procVars, clientVars, ctxErr, pc, recvVars, committed,
                 tallyVars, code>>

HandlerOk(s, i) ==
  /\ i \in committed[s]
  /\ HandlerReturns(s, i, "ok")
  /\ okRet' = [okRet EXCEPT ![s] = @ \cup {i}]
  /\ UNCHANGED failRet

HandlerFails(s, i, e) ==
  /\ HandlerReturns(s, i, e)
  /\ failRet' = [failRet EXCEPT ![s] = @ \cup {i}]
  /\ UNCHANGED okRet

-------------------------------------------------------------------------------
(* Run: a signal stops the service, then the gRPC server, then main returns *)

Stop ==
  /\ proc = "up"
  /\ ~stopCh
  /\ stopCh' = TRUE
  /\ UNCHANGED <<onEvent, proc, clientVars, ctxErr, pc, recvVars, callbackVars,
                 tallyVars, code>>

\* grpcServer.Stop closes every transport, which ends every stream's context;
\* it does not wait for the handlers.
StopServer ==
  /\ stopCh
  /\ proc = "up"
  /\ proc' = "closed"
  /\ ctxErr' = [s \in Streams |->
                  IF ctxErr[s] = "nil" /\ pc[s] # "idle" THEN "canceled" ELSE ctxErr[s]]
  /\ UNCHANGED <<onEvent, stopCh, clientVars, pc, recvVars, callbackVars, tallyVars, code>>

\* main returns; or, at any time, log.Fatalf in the goroutine that serves or
\* in the one that registers with the control plane, or a crash.
Exit ==
  /\ Alive
  /\ proc' = "exited"
  /\ UNCHANGED <<onEvent, stopCh, clientVars, ctxErr, pc, recvVars, callbackVars,
                 tallyVars, code>>

-------------------------------------------------------------------------------
Client(s) ==
  \/ Open(s)
  \/ \E t \in Types : Send(s, t)
  \/ CloseSend(s)
  \/ \E e \in CtxErrors : Cancel(s, e)

Receiver(s) ==
  \/ RecvEvent(s)
  \/ RecvEOF(s)
  \/ RecvError(s)
  \/ RecvNil(s)

Loop(s) ==
  \/ ReturnCancelled(s)
  \/ SelectCancelled(s)
  \/ StartRecv(s)
  \/ AwaitRecv(s)
  \/ CheckRecv(s)
  \/ EndOfStream(s)
  \/ RecvFailed(s)
  \/ Filter(s)
  \/ NoHandler(s)
  \/ StartHandler(s)
  \/ AwaitHandler(s)
  \/ HandlerCancelled(s)
  \/ CountFailed(s)
  \/ CountConsumed(s)

Callback(s) ==
  \E i \in inflight[s] :
    \/ Commit(s, i)
    \/ HandlerOk(s, i)
    \/ \E e \in HandlerErrors : HandlerFails(s, i, e)

Shutdown == Stop \/ StopServer \/ Exit

Next ==
  \/ \E s \in Streams : Client(s) \/ Receiver(s) \/ Loop(s) \/ Callback(s)
  \/ Shutdown

Spec == Init /\ [][Next]_vars

(***************************************************************************)
(* Fairness.  The Go scheduler runs every goroutine that can take a step.  *)
(* A Recv returns what has arrived, and an error once its context has      *)
(* ended.  A callback is only assumed to honour its context; that it       *)
(* returns without being cancelled is a hypothesis of DrainCompletes.      *)
(* The client, signals, failures of the transport and the exit of the      *)
(* process have no fairness.                                               *)
(***************************************************************************)
CallbackReturns(s) ==
  \E i \in inflight[s] :
    \/ HandlerOk(s, i)
    \/ \E e \in HandlerErrors : HandlerFails(s, i, e)

LoopFairness == \A s \in Streams : WF_vars(Loop(s))

RecvFairness ==
  \A s \in Streams :
    /\ WF_vars(RecvEvent(s) \/ RecvEOF(s))
    /\ WF_vars(HandlerCtxDone(s) /\ RecvError(s))

CallbackHonoursContext ==
  \A s \in Streams : WF_vars(HandlerCtxDone(s) /\ CallbackReturns(s))

FairSpec == Spec /\ LoopFairness /\ RecvFairness /\ CallbackHonoursContext

-------------------------------------------------------------------------------
(* Properties *)

\* A response that acknowledges a stream (service.go:101) accounts for every
\* event the client sent: the client half-closed, every event was received, a
\* callback ran to its end for exactly those of an input type, none is running
\* any more, EventsConsumed counts those that returned nil, all of them durable,
\* EventsFailed those that failed, and Errors has one summary per failure up to
\* the limit.
AckSound ==
  \A s \in Streams : code[s] = "OK" =>
    /\ halfClosed[s]
    /\ rcvd[s] = Len(sent[s])
    /\ okRet[s] \cup failRet[s] = Wanted(s, Len(sent[s]))
    /\ inflight[s] = {}
    /\ okRet[s] \subseteq committed[s]
    /\ consumed[s] = Cardinality(okRet[s])
    /\ failed[s] = Cardinality(failRet[s])
    /\ summaries[s] = IF failed[s] < SummaryLimit THEN failed[s] ELSE SummaryLimit

\* An acknowledgement with no failure means that every event of an input type
\* is durable, and that there was one unless the stream was empty: a stream
\* whose events were all filtered out is refused (service.go:98).
AckDurable ==
  \A s \in Streams : code[s] = "OK" /\ failed[s] = 0 =>
    /\ Wanted(s, Len(sent[s])) \subseteq committed[s]
    /\ Wanted(s, Len(sent[s])) = {} => sent[s] = << >>

\* Events are processed in receive order with at most one callback in flight
\* (service.go:53), also while the stream is being cancelled: when a callback
\* runs, those of all earlier events have returned.
OneInOrder ==
  \A s \in Streams : \A i \in inflight[s] :
    /\ inflight[s] = {i}
    /\ Wanted(s, i - 1) = okRet[s] \cup failRet[s]

\* The service's counters, which every stream updates and HealthCheck reports,
\* are the sums of the streams' own counts: a callback that was cancelled is
\* in neither.
CountersAgree ==
  /\ eventsConsumed = Total(consumed)
  /\ eventsFailed = Total(failed)

\* Stop alone, without the gRPC server being stopped, ends every Consume call:
\* it never waits for a Recv or for a callback (service.go:87-93, 121-127).
StopReturns ==
  \A s \in Streams : (stopCh /\ pc[s] # "idle") ~> (pc[s] = "done" \/ ~Alive)

\* Stop reaches a running callback: the stop channel makes Consume return, its
\* deferred cancel ends the context of the callback, which honours it.
StopReachesCallback ==
  \A s \in Streams : (stopCh /\ inflight[s] # {}) ~> (inflight[s] = {} \/ ~Alive)

\* If its callbacks return, a stream the client half-closes gets its outcome,
\* whatever it holds and whatever Recv returns: no receive error is retried for
\* ever (service.go:97-108).
DrainCompletes ==
  \A s \in Streams :
    []<>(inflight[s] = {}) => (halfClosed[s] ~> (code[s] # "none" \/ ~Alive))

\* docs/bounded-drain-remediation.md:47: on cancellation and on shutdown Consume
\* cancels its outstanding work, waits for it, and then returns.
ReapedOnReturn == \A s \in Streams : code[s] # "none" => inflight[s] = {}

\* Consume implements the bounded drain: its response counters are what is
\* settled, its commits what is durable, any status but OK a refusal.
Outcome(s) ==
  CASE code[s] = "none" -> "pending"
    [] code[s] = "OK" -> "acked"
    [] OTHER -> "refused"

Drain == INSTANCE BoundedDrain WITH
  offered <- sent,
  closed  <- halfClosed,
  kept    <- consumed,
  lost    <- failed,
  skipped <- filtered,
  durable <- committed,
  outcome <- [s \in Streams |-> Outcome(s)]

ImplementsDrain == Drain!Spec

-------------------------------------------------------------------------------
(***************************************************************************)
(* The inductive invariant behind AckSound, AckDurable, OneInOrder and     *)
(* ImplementsDrain.  It says where each of the three goroutines of a       *)
(* stream can be relative to the others, and what the counters and the     *)
(* history of the callbacks add up to meanwhile.                           *)
(***************************************************************************)

\* The loop and the goroutine in Recv: at most one of them holds an event.
RecvInv(s) ==
  /\ receiver[s] => pc[s] \in {"recv", "done"} /\ inbox[s] = "none"
  /\ pc[s] \in {"idle", "top", "handle", "handled"} => inbox[s] = "none" /\ ~receiver[s]
  /\ pc[s] \in {"got", "checked"} => inbox[s] # "none"
  /\ inbox[s] = "event" => rcvd[s] >= 1
  /\ inbox[s] = "eof" => halfClosed[s] /\ rcvd[s] = Len(sent[s])

\* The loop and the callback: the one that runs is for the last event received.
CallbackInv(s) ==
  /\ inflight[s] # {} =>
       /\ inflight[s] = {rcvd[s]}
       /\ rcvd[s] >= 1
       /\ Accepts(sent[s][rcvd[s]])
       /\ done[s] = "none"
       /\ pc[s] \in {"handle", "done"}
  /\ done[s] # "none" => rcvd[s] >= 1 /\ pc[s] \in {"handle", "handled", "done"}
  /\ inflight[s] # {} \/ done[s] # "none" => ~receiver[s] /\ inbox[s] = "none"
  /\ pc[s] = "handle" => inflight[s] # {} \/ done[s] # "none"
  /\ pc[s] = "handled" => done[s] # "none"

\* The events whose callback, if one was due, has returned.
Answered(s) ==
  IF inbox[s] = "event" \/ inflight[s] # {} THEN rcvd[s] - 1 ELSE rcvd[s]

HistoryInv(s) ==
  /\ okRet[s] \cup failRet[s] = Wanted(s, Answered(s))
  /\ okRet[s] \subseteq committed[s]
  /\ done[s] = "ok" => rcvd[s] \in okRet[s]
  /\ done[s] \in HandlerErrors => rcvd[s] \in failRet[s]
  /\ IsFiniteSet(okRet[s])
  /\ IsFiniteSet(failRet[s])

\* A callback's result is counted when the loop takes it out of done.
CountInv(s) ==
  /\ Cardinality(okRet[s]) = consumed[s] + (IF done[s] = "ok" THEN 1 ELSE 0)
  /\ Cardinality(failRet[s]) = failed[s] + (IF done[s] \in HandlerErrors THEN 1 ELSE 0)
  /\ consumed[s] + failed[s] + filtered[s] =
       IF inbox[s] = "event" \/ inflight[s] # {} \/ done[s] # "none"
       THEN rcvd[s] - 1 ELSE rcvd[s]
  /\ summaries[s] = IF failed[s] < SummaryLimit THEN failed[s] ELSE SummaryLimit

OutcomeInv(s) ==
  /\ code[s] = "none" <=> pc[s] # "done"
  /\ code[s] = "OK" =>
       /\ inbox[s] = "eof"
       /\ inflight[s] = {}
       /\ done[s] = "none"
       /\ filtered[s] > 0 => consumed[s] + failed[s] > 0

StreamInv(s) ==
  /\ RecvInv(s)
  /\ CallbackInv(s)
  /\ HistoryInv(s)
  /\ CountInv(s)
  /\ OutcomeInv(s)

\* The inductive invariant as a property of the runs: see above.
IInv == TypeOK /\ \A s \in Streams : StreamInv(s)
===============================================================================
