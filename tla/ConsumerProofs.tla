---------------------------- MODULE ConsumerProofs ----------------------------
(***************************************************************************)
(* Proofs about Consumer, for every set of streams, every event type and   *)
(* every bound: type correctness, the inductive invariant, and the         *)
(* soundness of an acknowledgement.                                        *)
(***************************************************************************)
EXTENDS Consumer, TallyProofs

\* The abbreviations of tuples, sets of values and frames, expanded everywhere.
USE DEF procVars, clientVars, recvVars, callbackVars, tallyVars, Goto,
        LoopStates, CtxErrors, RecvResults, HandlerErrors, Refusals

-------------------------------------------------------------------------------
(* Type correctness *)

LEMMA StatusType ==
  ASSUME NEW e \in CtxErrors PROVE StatusOf(e) \in Refusals
BY DEF StatusOf

LEMMA ReturnType ==
  ASSUME TypeOK, NEW s \in Streams, NEW c \in {"OK"} \cup Refusals, Return(s, c)
  PROVE  TypeOK'
BY DEF TypeOK, Return

LEMMA ClientType ==
  ASSUME TypeOK, NEW s \in Streams, Client(s) PROVE TypeOK'
<1>1. CASE Open(s)
  BY <1>1 DEF Open, TypeOK
<1>2. ASSUME NEW t \in Types, Send(s, t) PROVE TypeOK'
  <2>1. sent' = [sent EXCEPT ![s] = Append(@, t)]
    BY <1>2 DEF Send
  <2>2. sent' \in [Streams -> Seq(Types)]
    BY <2>1 DEF TypeOK
  <2>3. \A q \in Streams : rcvd[q] <= Len(sent'[q])
    BY <2>1 DEF TypeOK
  <2>. QED BY <1>2, <2>2, <2>3 DEF Send, TypeOK
<1>3. CASE CloseSend(s)
  BY <1>3 DEF CloseSend, TypeOK
<1>4. ASSUME NEW e \in CtxErrors, Cancel(s, e) PROVE TypeOK'
  BY <1>4 DEF Cancel, TypeOK
<1>. QED BY <1>1, <1>2, <1>3, <1>4 DEF Client

LEMMA ReceiverType ==
  ASSUME TypeOK, NEW s \in Streams, Receiver(s) PROVE TypeOK'
<1>1. CASE RecvEvent(s)
  BY <1>1 DEF RecvEvent, RecvReturns, TypeOK
<1>2. CASE RecvEOF(s)
  BY <1>2 DEF RecvEOF, RecvReturns, TypeOK
<1>3. CASE RecvError(s)
  BY <1>3 DEF RecvError, RecvReturns, TypeOK
<1>4. CASE RecvNil(s)
  BY <1>4 DEF RecvNil, RecvReturns, TypeOK
<1>. QED BY <1>1, <1>2, <1>3, <1>4 DEF Receiver

LEMMA LoopType ==
  ASSUME TypeOK, NEW s \in Streams, Loop(s) PROVE TypeOK'
<1>1. CASE ReturnCancelled(s)
  <2>1. CancelledStatus(s) \in Refusals
    BY StatusType DEF CancelledStatus, TypeOK
  <2>. QED BY <1>1, <2>1, ReturnType DEF ReturnCancelled, TypeOK
<1>2. CASE SelectCancelled(s)
  <2>1. PICK c \in SelectStatuses(s) : Return(s, c)
    BY <1>2 DEF SelectCancelled
  <2>2. c \in Refusals
    BY <2>1, StatusType DEF SelectStatuses, TypeOK
  <2>. QED BY <1>2, <2>1, <2>2, ReturnType DEF SelectCancelled, TypeOK
<1>3. CASE StartRecv(s)
  BY <1>3 DEF StartRecv, TypeOK
<1>4. CASE AwaitRecv(s)
  BY <1>4 DEF AwaitRecv, TypeOK
<1>5. CASE CheckRecv(s)
  BY <1>5 DEF CheckRecv, TypeOK
<1>6. CASE EndOfStream(s)
  <2>1. PICK c \in EOFStatuses(s) : Return(s, c)
    BY <1>6 DEF EndOfStream
  <2>2. c \in {"OK"} \cup Refusals
    BY <2>1 DEF EOFStatuses
  <2>. QED BY <1>6, <2>1, <2>2, ReturnType DEF EndOfStream, TypeOK
<1>7. CASE RecvFailed(s)
  BY <1>7, ReturnType DEF RecvFailed, TypeOK
<1>8. CASE Filter(s)
  BY <1>8 DEF Filter, EventAtHand, TypeOK
<1>9. CASE NoHandler(s)
  BY <1>9, ReturnType DEF NoHandler, EventAtHand, TypeOK
<1>10. CASE StartHandler(s)
  BY <1>10 DEF StartHandler, EventAtHand, TypeOK
<1>11. CASE AwaitHandler(s)
  BY <1>11 DEF AwaitHandler, TypeOK
<1>12. CASE HandlerCancelled(s)
  BY <1>12, StatusType, ReturnType DEF HandlerCancelled, Tallying, TypeOK
<1>13. CASE CountFailed(s)
  <2>1. /\ failed' \in [Streams -> Nat]
        /\ summaries' \in [Streams -> Nat]
        /\ eventsFailed' \in Nat
    BY <1>13 DEF CountFailed, TypeOK
  <2>2. pc' \in [Streams -> LoopStates] /\ done' \in [Streams -> {"none", "ok"} \cup HandlerErrors]
    BY <1>13 DEF CountFailed, NextIteration, TypeOK
  <2>. QED BY <1>13, <2>1, <2>2 DEF CountFailed, NextIteration, TypeOK
<1>14. CASE CountConsumed(s)
  <2>1. consumed' \in [Streams -> Nat] /\ eventsConsumed' \in Nat
    BY <1>14 DEF CountConsumed, TypeOK
  <2>2. pc' \in [Streams -> LoopStates] /\ done' \in [Streams -> {"none", "ok"} \cup HandlerErrors]
    BY <1>14 DEF CountConsumed, NextIteration, TypeOK
  <2>. QED BY <1>14, <2>1, <2>2 DEF CountConsumed, NextIteration, TypeOK
<1>. QED
  BY <1>1, <1>2, <1>3, <1>4, <1>5, <1>6, <1>7, <1>8, <1>9, <1>10, <1>11, <1>12,
     <1>13, <1>14 DEF Loop

LEMMA CallbackType ==
  ASSUME TypeOK, NEW s \in Streams, Callback(s) PROVE TypeOK'
<1>1. PICK i \in inflight[s] :
         \/ Commit(s, i)
         \/ HandlerOk(s, i)
         \/ \E e \in HandlerErrors : HandlerFails(s, i, e)
  BY DEF Callback
<1>2. i \in Nat
  BY DEF TypeOK
<1>3. CASE Commit(s, i)
  BY <1>2, <1>3 DEF Commit, TypeOK
<1>4. CASE HandlerOk(s, i)
  BY <1>2, <1>4 DEF HandlerOk, HandlerReturns, TypeOK
<1>5. ASSUME NEW e \in HandlerErrors, HandlerFails(s, i, e) PROVE TypeOK'
  BY <1>2, <1>5 DEF HandlerFails, HandlerReturns, TypeOK
<1>. QED BY <1>1, <1>3, <1>4, <1>5

LEMMA ShutdownType ==
  ASSUME TypeOK, Shutdown PROVE TypeOK'
<1>1. CASE Stop
  BY <1>1 DEF Stop, TypeOK
<1>2. CASE StopServer
  BY <1>2 DEF StopServer, TypeOK
<1>3. CASE Exit
  BY <1>3 DEF Exit, TypeOK
<1>. QED BY <1>1, <1>2, <1>3 DEF Shutdown

\* Every variable keeps its type, and no stream is received further than it
\* was sent.
THEOREM TypeCorrect == Spec => []TypeOK
<1>1. Init => TypeOK
  <2>. SUFFICES ASSUME Init PROVE TypeOK
    OBVIOUS
  <2>1. sent \in [Streams -> Seq(Types)]
    BY DEF Init
  <2>2. \A s \in Streams : rcvd[s] <= Len(sent[s])
    BY DEF Init
  <2>. QED BY <2>1, <2>2 DEF Init, TypeOK
<1>2. TypeOK /\ [Next]_vars => TypeOK'
  <2>. SUFFICES ASSUME TypeOK, [Next]_vars PROVE TypeOK'
    OBVIOUS
  <2>1. CASE Next
    BY <2>1, ClientType, ReceiverType, LoopType, CallbackType, ShutdownType DEF Next
  <2>2. CASE UNCHANGED vars
    BY <2>2 DEF vars, TypeOK
  <2>. QED BY <2>1, <2>2
<1>. QED BY <1>1, <1>2, PTL DEF Spec

-------------------------------------------------------------------------------
(* The inductive invariant.  A step of one stream leaves the others alone,   *)
(* so each action is looked at for its own stream only.                      *)

\* What the invariant of stream q reads.
SameStream(q) ==
  /\ sent'[q] = sent[q] /\ halfClosed'[q] = halfClosed[q]
  /\ pc'[q] = pc[q] /\ code'[q] = code[q]
  /\ receiver'[q] = receiver[q] /\ rcvd'[q] = rcvd[q] /\ inbox'[q] = inbox[q]
  /\ inflight'[q] = inflight[q] /\ done'[q] = done[q]
  /\ committed'[q] = committed[q] /\ okRet'[q] = okRet[q] /\ failRet'[q] = failRet[q]
  /\ consumed'[q] = consumed[q] /\ failed'[q] = failed[q]
  /\ filtered'[q] = filtered[q] /\ summaries'[q] = summaries[q]

LEMMA Frame ==
  ASSUME NEW q \in Streams, StreamInv(q), SameStream(q) PROVE StreamInv(q)'
<1>1. Wanted(q, Answered(q))' = Wanted(q, Answered(q))
  BY DEF SameStream, Wanted, Answered
<1>2. RecvInv(q)'
  BY DEF SameStream, StreamInv, RecvInv
<1>3. CallbackInv(q)'
  BY DEF SameStream, StreamInv, CallbackInv
<1>4. HistoryInv(q)'
  BY <1>1 DEF SameStream, StreamInv, HistoryInv
<1>5. CountInv(q)'
  BY DEF SameStream, StreamInv, CountInv
<1>6. OutcomeInv(q)'
  BY DEF SameStream, StreamInv, OutcomeInv
<1>. QED BY <1>2, <1>3, <1>4, <1>5, <1>6 DEF StreamInv

LEMMA ClientElsewhere ==
  ASSUME TypeOK, NEW s \in Streams, Client(s), NEW q \in Streams, q # s
  PROVE  SameStream(q)
<1>1. CASE Open(s)
  BY <1>1 DEF Open, TypeOK, SameStream
<1>2. ASSUME NEW t \in Types, Send(s, t) PROVE SameStream(q)
  BY <1>2 DEF Send, TypeOK, SameStream
<1>3. CASE CloseSend(s)
  BY <1>3 DEF CloseSend, TypeOK, SameStream
<1>4. ASSUME NEW e \in CtxErrors, Cancel(s, e) PROVE SameStream(q)
  BY <1>4 DEF Cancel, TypeOK, SameStream
<1>. QED BY <1>1, <1>2, <1>3, <1>4 DEF Client

LEMMA ReceiverElsewhere ==
  ASSUME TypeOK, NEW s \in Streams, Receiver(s), NEW q \in Streams, q # s
  PROVE  SameStream(q)
BY DEF Receiver, RecvEvent, RecvEOF, RecvError, RecvNil, RecvReturns, TypeOK, SameStream

LEMMA LoopElsewhere ==
  ASSUME TypeOK, NEW s \in Streams, Loop(s), NEW q \in Streams, q # s
  PROVE  SameStream(q)
<1>1. CASE ReturnCancelled(s) \/ SelectCancelled(s) \/ EndOfStream(s) \/ RecvFailed(s)
             \/ NoHandler(s) \/ HandlerCancelled(s)
  BY <1>1 DEF ReturnCancelled, SelectCancelled, EndOfStream, RecvFailed, NoHandler,
              HandlerCancelled, Return, TypeOK, SameStream
<1>2. CASE StartRecv(s) \/ AwaitRecv(s) \/ CheckRecv(s) \/ AwaitHandler(s)
  BY <1>2 DEF StartRecv, AwaitRecv, CheckRecv, AwaitHandler, TypeOK, SameStream
<1>3. CASE Filter(s) \/ StartHandler(s)
  BY <1>3 DEF Filter, StartHandler, TypeOK, SameStream
<1>4. CASE CountFailed(s) \/ CountConsumed(s)
  BY <1>4 DEF CountFailed, CountConsumed, NextIteration, TypeOK, SameStream
<1>. QED BY <1>1, <1>2, <1>3, <1>4 DEF Loop

LEMMA CallbackElsewhere ==
  ASSUME TypeOK, NEW s \in Streams, Callback(s), NEW q \in Streams, q # s
  PROVE  SameStream(q)
BY DEF Callback, Commit, HandlerOk, HandlerFails, HandlerReturns, TypeOK, SameStream

\* The events a callback is due for depend only on what was sent so far.
LEMMA WantedStable ==
  ASSUME TypeOK, NEW s \in Streams, NEW t \in Types, NEW n \in Nat, n <= Len(sent[s]),
         sent' = [sent EXCEPT ![s] = Append(@, t)]
  PROVE  Wanted(s, n)' = Wanted(s, n)
<1>1. \A i \in 1..n : sent'[s][i] = sent[s][i]
  BY DEF TypeOK
<1>. QED BY <1>1 DEF Wanted

LEMMA WantedNext ==
  ASSUME NEW s \in Streams, NEW n \in Nat, n >= 1
  PROVE  Wanted(s, n) =
           IF Accepts(sent[s][n]) THEN Wanted(s, n - 1) \cup {n} ELSE Wanted(s, n - 1)
BY DEF Wanted

LEMMA ClientInv ==
  ASSUME TypeOK, NEW s \in Streams, StreamInv(s), Client(s) PROVE StreamInv(s)'
<1>. USE DEF StreamInv, RecvInv, CallbackInv, HistoryInv, CountInv, OutcomeInv, Answered
<1>1. CASE Open(s)
  BY <1>1 DEF Open, TypeOK, Wanted
<1>2. ASSUME NEW t \in Types, Send(s, t) PROVE StreamInv(s)'
  <2>1. sent' = [sent EXCEPT ![s] = Append(@, t)] /\ ~halfClosed[s]
    BY <1>2 DEF Send
  <2>2. Wanted(s, Answered(s))' = Wanted(s, Answered(s))
    <3>1. Answered(s) \in Nat /\ Answered(s) <= Len(sent[s])
      BY DEF TypeOK
    <3>2. PICK n \in Nat : n = Answered(s) /\ n <= Len(sent[s])
      BY <3>1
    <3>3. Answered(s)' = n
      BY <1>2, <3>2 DEF Send
    <3>4. Wanted(s, n)' = Wanted(s, n)
      BY <2>1, <3>2, WantedStable
    <3>. QED BY <3>2, <3>3, <3>4 DEF Wanted
  <2>3. rcvd[s] >= 1 => sent'[s][rcvd[s]] = sent[s][rcvd[s]]
    BY <2>1 DEF TypeOK
  <2>. QED BY <1>2, <2>1, <2>2, <2>3 DEF Send, TypeOK
<1>3. CASE CloseSend(s)
  BY <1>3 DEF CloseSend, TypeOK, Wanted
<1>4. ASSUME NEW e \in CtxErrors, Cancel(s, e) PROVE StreamInv(s)'
  BY <1>4 DEF Cancel, TypeOK, Wanted
<1>. QED BY <1>1, <1>2, <1>3, <1>4 DEF Client

LEMMA ReceiverInv ==
  ASSUME TypeOK, NEW s \in Streams, StreamInv(s), Receiver(s) PROVE StreamInv(s)'
<1>. USE DEF StreamInv, RecvInv, CallbackInv, HistoryInv, CountInv, OutcomeInv,
             Answered, RecvReturns
<1>1. receiver[s] /\ inbox[s] = "none" /\ inflight[s] = {} /\ done[s] = "none"
  BY DEF Receiver, RecvEvent, RecvEOF, RecvError, RecvNil, TypeOK
<1>2. CASE RecvEvent(s)
  <2>1. Wanted(s, Answered(s))' = Wanted(s, Answered(s))
    BY <1>1, <1>2 DEF RecvEvent, TypeOK, Wanted
  <2>. QED BY <1>1, <1>2, <2>1 DEF RecvEvent, TypeOK
<1>3. ASSUME NEW r \in {"eof", "error", "nil"}, RecvReturns(s, r), UNCHANGED rcvd,
             r = "eof" => halfClosed[s] /\ rcvd[s] = Len(sent[s])
      PROVE  StreamInv(s)'
  <2>1. Wanted(s, Answered(s))' = Wanted(s, Answered(s))
    BY <1>1, <1>3 DEF TypeOK, Wanted
  <2>. QED BY <1>1, <1>3, <2>1 DEF TypeOK
<1>. QED BY <1>2, <1>3 DEF Receiver, RecvEOF, RecvError, RecvNil

\* The steps with which Consume returns a status other than OK, or OK when the
\* stream was received to its end, nothing runs and not all was filtered out.
LEMMA ReturnInv ==
  ASSUME TypeOK, NEW s \in Streams, StreamInv(s), pc[s] # "done",
         NEW c \in {"OK"} \cup Refusals, Return(s, c),
         c = "OK" => /\ pc[s] = "checked"
                     /\ inbox[s] = "eof"
                     /\ filtered[s] > 0 => consumed[s] + failed[s] > 0
  PROVE  StreamInv(s)'
<1>1. pc'[s] = "done" /\ code'[s] = c
  BY DEF Return, TypeOK
<1>2. Wanted(s, Answered(s))' = Wanted(s, Answered(s))
  BY DEF Return, Wanted, Answered
<1>3. c = "OK" => inflight[s] = {} /\ done[s] = "none"
  BY DEF StreamInv, CallbackInv
<1>4. RecvInv(s)'
  BY <1>1 DEF Return, StreamInv, RecvInv
<1>5. CallbackInv(s)'
  BY <1>1 DEF Return, StreamInv, CallbackInv
<1>6. HistoryInv(s)' /\ CountInv(s)'
  BY <1>2 DEF Return, StreamInv, HistoryInv, CountInv
<1>7. OutcomeInv(s)'
  BY <1>1, <1>3 DEF Return, OutcomeInv
<1>. QED BY <1>4, <1>5, <1>6, <1>7 DEF StreamInv

\* Every step of Consume that returns is one of those.
LEMMA ReturningInv ==
  ASSUME TypeOK, NEW s \in Streams, StreamInv(s),
         \/ ReturnCancelled(s) \/ SelectCancelled(s) \/ EndOfStream(s)
         \/ RecvFailed(s) \/ NoHandler(s) \/ HandlerCancelled(s)
  PROVE  StreamInv(s)'
<1>1. CASE ReturnCancelled(s)
  <2>1. CancelledStatus(s) \in Refusals /\ CancelledStatus(s) # "OK"
    BY StatusType DEF CancelledStatus, TypeOK
  <2>. QED BY <1>1, <2>1, ReturnInv DEF ReturnCancelled
<1>2. CASE SelectCancelled(s)
  <2>1. PICK c \in SelectStatuses(s) : Return(s, c)
    BY <1>2 DEF SelectCancelled
  <2>2. c \in Refusals /\ c # "OK"
    BY <2>1, StatusType DEF SelectStatuses, TypeOK
  <2>. QED BY <1>2, <2>1, <2>2, ReturnInv DEF SelectCancelled
<1>3. CASE EndOfStream(s)
  <2>1. PICK c \in EOFStatuses(s) : Return(s, c)
    BY <1>3 DEF EndOfStream
  <2>2. c \in {"OK"} \cup Refusals
    BY <2>1 DEF EOFStatuses
  <2>3. c = "OK" => (filtered[s] > 0 => consumed[s] + failed[s] > 0)
    BY <2>1 DEF EOFStatuses, TypeOK
  <2>. QED BY <1>3, <2>1, <2>2, <2>3, ReturnInv DEF EndOfStream
<1>4. CASE RecvFailed(s)
  BY <1>4, ReturnInv DEF RecvFailed
<1>5. CASE NoHandler(s)
  BY <1>5, ReturnInv DEF NoHandler, EventAtHand
<1>6. CASE HandlerCancelled(s)
  <2>1. StatusOf(done[s]) \in Refusals /\ StatusOf(done[s]) # "OK"
    BY <1>6, StatusType DEF HandlerCancelled
  <2>. QED BY <1>6, <2>1, ReturnInv DEF HandlerCancelled, Tallying
<1>. QED BY <1>1, <1>2, <1>3, <1>4, <1>5, <1>6

LEMMA LoopInv ==
  ASSUME TypeOK, NEW s \in Streams, StreamInv(s), Loop(s) PROVE StreamInv(s)'
<1>. USE DEF StreamInv, RecvInv, CallbackInv, HistoryInv, CountInv, OutcomeInv, Answered
<1>1. CASE StartRecv(s) \/ AwaitRecv(s) \/ CheckRecv(s) \/ AwaitHandler(s)
  <2>1. Wanted(s, Answered(s))' = Wanted(s, Answered(s))
    BY <1>1 DEF StartRecv, AwaitRecv, CheckRecv, AwaitHandler, Wanted
  <2>2. CASE StartRecv(s)
    BY <2>1, <2>2 DEF StartRecv, TypeOK
  <2>3. CASE AwaitRecv(s)
    BY <2>1, <2>3 DEF AwaitRecv, TypeOK
  <2>4. CASE CheckRecv(s)
    BY <2>1, <2>4 DEF CheckRecv, TypeOK
  <2>5. CASE AwaitHandler(s)
    BY <2>1, <2>5 DEF AwaitHandler, TypeOK
  <2>. QED BY <1>1, <2>2, <2>3, <2>4, <2>5
<1>2. CASE Filter(s)
  <2>1. rcvd[s] \in Nat /\ rcvd[s] >= 1 /\ inflight[s] = {} /\ done[s] = "none"
    BY <1>2 DEF Filter, EventAtHand, TypeOK
  <2>2. Wanted(s, rcvd[s]) = Wanted(s, rcvd[s] - 1)
    BY <1>2, <2>1, WantedNext DEF Filter
  <2>3. Wanted(s, Answered(s))' = Wanted(s, Answered(s))
    BY <1>2, <2>1, <2>2 DEF Filter, EventAtHand, TypeOK, Wanted
  <2>. QED BY <1>2, <2>1, <2>3 DEF Filter, EventAtHand, TypeOK
<1>3. CASE StartHandler(s)
  <2>1. inflight[s] = {} /\ done[s] = "none" /\ ~receiver[s]
    BY <1>3 DEF StartHandler, EventAtHand, TypeOK
  <2>2. inflight'[s] = {rcvd[s]} /\ inbox'[s] = "none" /\ pc'[s] = "handle"
    BY <1>3, <2>1 DEF StartHandler, TypeOK
  <2>3. Wanted(s, Answered(s))' = Wanted(s, Answered(s))
    BY <1>3, <2>1, <2>2 DEF StartHandler, EventAtHand, Wanted
  <2>. QED BY <1>3, <2>1, <2>2, <2>3 DEF StartHandler, EventAtHand, TypeOK
<1>4. CASE CountFailed(s) \/ CountConsumed(s)
  <2>1. /\ inflight[s] = {} /\ inbox[s] = "none" /\ ~receiver[s] /\ rcvd[s] >= 1
        /\ done[s] \in {"ok", "fail"}
    BY <1>4 DEF CountFailed, CountConsumed, Tallying, TypeOK
  <2>2. pc'[s] = "top" /\ done'[s] = "none"
    BY <1>4 DEF CountFailed, CountConsumed, NextIteration, TypeOK
  <2>3. Wanted(s, Answered(s))' = Wanted(s, Answered(s))
    BY <1>4 DEF CountFailed, CountConsumed, NextIteration, Wanted
  <2>4. CASE CountFailed(s)
    <3>1. RecvInv(s)' /\ CallbackInv(s)' /\ OutcomeInv(s)'
      BY <2>1, <2>2, <2>4 DEF CountFailed, Tallying, NextIteration, TypeOK
    <3>2. HistoryInv(s)'
      BY <2>1, <2>2, <2>3, <2>4 DEF CountFailed, NextIteration
    <3>3. CountInv(s)'
      BY <2>1, <2>2, <2>4, ConsumerAssumption DEF CountFailed, NextIteration, TypeOK
    <3>. QED BY <3>1, <3>2, <3>3
  <2>5. CASE CountConsumed(s)
    <3>1. RecvInv(s)' /\ CallbackInv(s)' /\ OutcomeInv(s)'
      BY <2>1, <2>2, <2>5 DEF CountConsumed, Tallying, NextIteration, TypeOK
    <3>2. HistoryInv(s)'
      BY <2>1, <2>2, <2>3, <2>5 DEF CountConsumed, NextIteration
    <3>3. CountInv(s)'
      BY <2>1, <2>2, <2>5 DEF CountConsumed, NextIteration, TypeOK
    <3>. QED BY <3>1, <3>2, <3>3
  <2>. QED BY <1>4, <2>4, <2>5
<1>. QED BY <1>1, <1>2, <1>3, <1>4, ReturningInv DEF Loop

LEMMA CallbackStepInv ==
  ASSUME TypeOK, NEW s \in Streams, StreamInv(s), Callback(s) PROVE StreamInv(s)'
<1>. USE DEF StreamInv, RecvInv, CallbackInv, HistoryInv, CountInv, OutcomeInv, Answered
<1>1. PICK i \in inflight[s] :
         \/ Commit(s, i)
         \/ HandlerOk(s, i)
         \/ \E e \in HandlerErrors : HandlerFails(s, i, e)
  BY DEF Callback
<1>2. /\ i = rcvd[s] /\ i \in Nat /\ i >= 1 /\ Accepts(sent[s][i])
      /\ inflight[s] = {i} /\ done[s] = "none" /\ ~receiver[s] /\ inbox[s] = "none"
  BY <1>1 DEF TypeOK
<1>3. CASE Commit(s, i)
  <2>1. Wanted(s, Answered(s))' = Wanted(s, Answered(s))
    BY <1>3 DEF Commit, Wanted
  <2>. QED BY <1>2, <1>3, <2>1 DEF Commit, TypeOK
<1>4. Wanted(s, i) = Wanted(s, i - 1) \cup {i} /\ i \notin Wanted(s, i - 1)
  <2>1. Wanted(s, i) = Wanted(s, i - 1) \cup {i}
    BY <1>2, WantedNext
  <2>. QED BY <1>2, <2>1 DEF Wanted
<1>5. i \notin okRet[s] /\ i \notin failRet[s]
  BY <1>2, <1>4
<1>6. ASSUME NEW v, HandlerReturns(s, i, v)
      PROVE  /\ inflight'[s] = {} /\ done'[s] = v
             /\ Wanted(s, Answered(s))' = Wanted(s, Answered(s)) \cup {i}
  <2>1. inflight'[s] = {} /\ done'[s] = v
    BY <1>2, <1>6 DEF HandlerReturns, TypeOK
  <2>2. Answered(s)' = i /\ Answered(s) = i - 1
    BY <1>2, <1>6, <2>1 DEF HandlerReturns
  <2>. QED BY <1>4, <1>6, <2>1, <2>2 DEF HandlerReturns, Wanted
<1>7. CASE HandlerOk(s, i)
  <2>1. okRet'[s] = okRet[s] \cup {i} /\ failRet'[s] = failRet[s]
    BY <1>7 DEF HandlerOk, TypeOK
  <2>2. IsFiniteSet(okRet[s])
    OBVIOUS
  <2>3. /\ IsFiniteSet(okRet[s] \cup {i})
        /\ Cardinality(okRet[s] \cup {i}) = Cardinality(okRet[s]) + 1
    BY ONLY <1>5, <2>2, FS_AddElement
  <2>4. RecvInv(s)' /\ CallbackInv(s)' /\ OutcomeInv(s)'
    BY <1>2, <1>6, <1>7 DEF HandlerOk, HandlerReturns, TypeOK
  <2>5. HistoryInv(s)'
    BY <1>2, <1>6, <1>7, <2>1, <2>3 DEF HandlerOk, HandlerReturns, TypeOK
  <2>6. CountInv(s)'
    BY <1>2, <1>6, <1>7, <2>1, <2>3 DEF HandlerOk, HandlerReturns, TypeOK
  <2>. QED BY <2>4, <2>5, <2>6
<1>8. ASSUME NEW e \in HandlerErrors, HandlerFails(s, i, e) PROVE StreamInv(s)'
  <2>1. failRet'[s] = failRet[s] \cup {i} /\ okRet'[s] = okRet[s]
    BY <1>8 DEF HandlerFails, TypeOK
  <2>2. IsFiniteSet(failRet[s])
    OBVIOUS
  <2>3. /\ IsFiniteSet(failRet[s] \cup {i})
        /\ Cardinality(failRet[s] \cup {i}) = Cardinality(failRet[s]) + 1
    BY ONLY <1>5, <2>2, FS_AddElement
  <2>4. RecvInv(s)' /\ CallbackInv(s)' /\ OutcomeInv(s)'
    BY <1>2, <1>6, <1>8 DEF HandlerFails, HandlerReturns, TypeOK
  <2>5. HistoryInv(s)'
    BY <1>2, <1>6, <1>8, <2>1, <2>3 DEF HandlerFails, HandlerReturns, TypeOK
  <2>6. CountInv(s)'
    BY <1>2, <1>6, <1>8, <2>1, <2>3 DEF HandlerFails, HandlerReturns, TypeOK
  <2>. QED BY <2>4, <2>5, <2>6
<1>. QED BY <1>1, <1>3, <1>7, <1>8

LEMMA ShutdownInv ==
  ASSUME NEW s \in Streams, StreamInv(s), Shutdown PROVE StreamInv(s)'
BY Frame DEF Shutdown, Stop, StopServer, Exit, SameStream

LEMMA InitInv == Init => IInv
<1>. SUFFICES ASSUME Init PROVE IInv
  OBVIOUS
<1>1. TypeOK
  <2>1. sent \in [Streams -> Seq(Types)] /\ \A s \in Streams : rcvd[s] <= Len(sent[s])
    BY DEF Init
  <2>. QED BY <2>1 DEF Init, TypeOK
<1>2. ASSUME NEW s \in Streams PROVE StreamInv(s)
  <2>1. Wanted(s, 0) = {}
    BY DEF Wanted
  <2>2. HistoryInv(s)
    BY <2>1, FS_EmptySet DEF Init, HistoryInv, Answered
  <2>3. CountInv(s)
    BY FS_EmptySet, ConsumerAssumption DEF Init, CountInv
  <2>. QED BY <2>2, <2>3 DEF Init, StreamInv, RecvInv, CallbackInv, OutcomeInv
<1>. QED BY <1>1, <1>2 DEF IInv

LEMMA NextInv == IInv /\ [Next]_vars => IInv'
<1>. SUFFICES ASSUME IInv, [Next]_vars PROVE IInv'
  OBVIOUS
<1>. USE DEF IInv
<1>1. TypeOK'
  <2>1. CASE Next
    BY <2>1, ClientType, ReceiverType, LoopType, CallbackType, ShutdownType DEF Next
  <2>2. CASE UNCHANGED vars
    BY <2>2 DEF vars, TypeOK
  <2>. QED BY <2>1, <2>2
<1>2. ASSUME NEW q \in Streams PROVE StreamInv(q)'
  <2>1. ASSUME NEW s \in Streams, Client(s) \/ Receiver(s) \/ Loop(s) \/ Callback(s)
        PROVE  StreamInv(q)'
    <3>1. CASE q = s
      BY <2>1, <3>1, ClientInv, ReceiverInv, LoopInv, CallbackStepInv
    <3>2. CASE q # s
      BY <2>1, <3>2, Frame, ClientElsewhere, ReceiverElsewhere, LoopElsewhere, CallbackElsewhere
    <3>. QED BY <3>1, <3>2
  <2>2. CASE Shutdown
    BY <2>2, ShutdownInv
  <2>3. CASE UNCHANGED vars
    BY <2>3, Frame DEF vars, SameStream
  <2>. QED BY <2>1, <2>2, <2>3 DEF Next
<1>. QED BY <1>1, <1>2

\* The invariant of every stream holds throughout.
THEOREM Invariance == Spec => []IInv
BY InitInv, NextInv, PTL DEF Spec

-------------------------------------------------------------------------------
(* What the invariant implies *)

\* A stream that was acknowledged is at rest, and all of it was answered.
LEMMA Acked ==
  ASSUME IInv, NEW s \in Streams, code[s] = "OK"
  PROVE  /\ inflight[s] = {} /\ done[s] = "none"
         /\ halfClosed[s] /\ rcvd[s] = Len(sent[s])
         /\ okRet[s] \cup failRet[s] = Wanted(s, Len(sent[s]))
         /\ consumed[s] = Cardinality(okRet[s])
         /\ failed[s] = Cardinality(failRet[s])
         /\ consumed[s] + failed[s] + filtered[s] = Len(sent[s])
<1>1. inbox[s] = "eof" /\ inflight[s] = {} /\ done[s] = "none"
  BY DEF IInv, StreamInv, OutcomeInv
<1>2. halfClosed[s] /\ rcvd[s] = Len(sent[s])
  BY <1>1 DEF IInv, StreamInv, RecvInv
<1>3. okRet[s] \cup failRet[s] = Wanted(s, Len(sent[s]))
  BY <1>1, <1>2 DEF IInv, StreamInv, HistoryInv, Answered
<1>4. /\ consumed[s] = Cardinality(okRet[s])
      /\ failed[s] = Cardinality(failRet[s])
      /\ consumed[s] + failed[s] + filtered[s] = Len(sent[s])
  <2>1. consumed[s] \in Nat /\ failed[s] \in Nat
    BY DEF IInv, TypeOK
  <2>2. CountInv(s)
    BY DEF IInv, StreamInv
  <2>. QED BY <1>1, <1>2, <2>1, <2>2 DEF CountInv
<1>. QED BY <1>1, <1>2, <1>3, <1>4

\* An acknowledgement accounts for every event of its stream.
THEOREM AckSoundness == Spec => []AckSound
<1>1. IInv => AckSound
  <2>. SUFFICES ASSUME IInv, NEW s \in Streams, code[s] = "OK"
                PROVE  /\ okRet[s] \subseteq committed[s]
                       /\ summaries[s] = IF failed[s] < SummaryLimit
                                         THEN failed[s] ELSE SummaryLimit
    BY Acked DEF AckSound
  <2>. QED BY DEF IInv, StreamInv, HistoryInv, CountInv
<1>. QED BY <1>1, Invariance, PTL

\* An acknowledgement without failures means that all was made durable, and
\* that something was unless the stream was empty.
THEOREM AckDurability == Spec => []AckDurable
<1>1. IInv => AckDurable
  <2>. SUFFICES ASSUME IInv, NEW s \in Streams, code[s] = "OK", failed[s] = 0
                PROVE  /\ Wanted(s, Len(sent[s])) \subseteq committed[s]
                       /\ Wanted(s, Len(sent[s])) = {} => sent[s] = << >>
    BY DEF AckDurable
  <2>1. IsFiniteSet(okRet[s]) /\ IsFiniteSet(failRet[s]) /\ okRet[s] \subseteq committed[s]
    BY DEF IInv, StreamInv, HistoryInv
  <2>2. failRet[s] = {} /\ okRet[s] = Wanted(s, Len(sent[s]))
    <3>1. failRet[s] = {}
      BY <2>1, Acked, FS_EmptySet
    <3>. QED BY <3>1, Acked
  <2>3. ASSUME okRet[s] = {} PROVE sent[s] = << >>
    <3>1. consumed[s] = 0 /\ filtered[s] = Len(sent[s])
      <4>1. consumed[s] \in Nat /\ filtered[s] \in Nat /\ consumed[s] = Cardinality(okRet[s])
        BY Acked DEF IInv, TypeOK
      <4>2. consumed[s] = 0
        BY <2>3, <4>1, FS_EmptySet
      <4>. QED BY <4>1, <4>2, Acked
    <3>2. ~(filtered[s] > 0)
      BY <3>1 DEF IInv, StreamInv, OutcomeInv
    <3>. QED BY <3>1, <3>2 DEF IInv, TypeOK
  <2>. QED BY <2>1, <2>2, <2>3
<1>. QED BY <1>1, Invariance, PTL

\* At most one callback runs, and only when the earlier events are answered.
THEOREM Ordering == Spec => []OneInOrder
<1>1. IInv => OneInOrder
  <2>. SUFFICES ASSUME IInv, NEW s \in Streams, NEW i \in inflight[s]
                PROVE  inflight[s] = {i} /\ Wanted(s, i - 1) = okRet[s] \cup failRet[s]
    BY DEF OneInOrder
  <2>1. inflight[s] = {rcvd[s]}
    BY DEF IInv, StreamInv, CallbackInv
  <2>2. okRet[s] \cup failRet[s] = Wanted(s, rcvd[s] - 1)
    BY DEF IInv, StreamInv, HistoryInv, Answered
  <2>. QED BY <2>1, <2>2
<1>. QED BY <1>1, Invariance, PTL

-------------------------------------------------------------------------------
(* Consumer implements BoundedDrain *)

LEMMA DrainWanted == \A t : Drain!Wanted(t) <=> Accepts(t)
BY DEF Drain!Wanted, Accepts

LEMMA InitDrain == Init => Drain!Init
BY DEF Init, Drain!Init, Outcome

\* Steps that touch none of the variables of the abstract specification.
LEMMA DrainStutter ==
  ASSUME UNCHANGED <<sent, halfClosed, consumed, failed, filtered, committed, code>>
  PROVE  UNCHANGED Drain!vars
BY DEF Drain!vars, Outcome

\* A status is returned once: OK acknowledges, any other refuses.
LEMMA DrainReturn ==
  ASSUME IInv, NEW s \in Streams, pc[s] # "done", NEW c \in {"OK"} \cup Refusals,
         Return(s, c),
         c = "OK" => /\ halfClosed[s]
                     /\ consumed[s] + failed[s] + filtered[s] = Len(sent[s])
                     /\ filtered[s] > 0 => consumed[s] + failed[s] > 0
  PROVE  Drain!Acknowledge(s) \/ Drain!Refuse(s)
<1>. DEFINE o == [q \in Streams |-> Outcome(q)]
<1>1. code[s] = "none"
  BY DEF IInv, StreamInv, OutcomeInv
<1>2. o[s] = "pending"
  BY <1>1 DEF Outcome
<1>3. code' = [code EXCEPT ![s] = c]
  BY DEF Return
<1>4. o' = [o EXCEPT ![s] = IF c = "OK" THEN "acked" ELSE "refused"]
  BY <1>3 DEF Outcome, IInv, TypeOK
<1>5. CASE c = "OK"
  BY <1>2, <1>4, <1>5 DEF Return, Drain!Acknowledge, Drain!HasNext, Drain!Next1, Drain!Settled,
                          IInv, TypeOK
<1>6. CASE c # "OK"
  BY <1>2, <1>4, <1>6 DEF Return, Drain!Refuse
<1>. QED BY <1>5, <1>6

LEMMA DrainLoop ==
  ASSUME IInv, NEW s \in Streams, Loop(s)
  PROVE  Drain!Next \/ UNCHANGED Drain!vars
<1>. USE DEF IInv
<1>1. ASSUME Drain!Acknowledge(s) \/ Drain!Refuse(s) PROVE Drain!Next
  BY <1>1 DEF Drain!Next
<1>2. CASE ReturnCancelled(s)
  <2>1. CancelledStatus(s) \in Refusals /\ CancelledStatus(s) # "OK"
    BY StatusType DEF CancelledStatus, TypeOK
  <2>. QED BY <1>1, <1>2, <2>1, DrainReturn DEF ReturnCancelled
<1>3. CASE SelectCancelled(s)
  <2>1. PICK c \in SelectStatuses(s) : Return(s, c)
    BY <1>3 DEF SelectCancelled
  <2>2. c \in Refusals /\ c # "OK"
    BY <2>1, StatusType DEF SelectStatuses, TypeOK
  <2>. QED BY <1>1, <1>3, <2>1, <2>2, DrainReturn DEF SelectCancelled
<1>4. CASE EndOfStream(s)
  <2>1. PICK c \in EOFStatuses(s) : Return(s, c)
    BY <1>4 DEF EndOfStream
  <2>2. c \in {"OK"} \cup Refusals
    BY <2>1 DEF EOFStatuses
  <2>3. c = "OK" => (filtered[s] > 0 => consumed[s] + failed[s] > 0)
    BY <2>1 DEF EOFStatuses, TypeOK
  <2>4. inflight[s] = {} /\ done[s] = "none"
    BY <1>4 DEF EndOfStream, StreamInv, CallbackInv
  <2>5. halfClosed[s] /\ consumed[s] + failed[s] + filtered[s] = Len(sent[s])
    BY <1>4, <2>4 DEF EndOfStream, StreamInv, RecvInv, CountInv
  <2>. QED BY <1>1, <1>4, <2>1, <2>2, <2>3, <2>5, DrainReturn DEF EndOfStream
<1>5. CASE RecvFailed(s)
  BY <1>1, <1>5, DrainReturn DEF RecvFailed
<1>6. CASE NoHandler(s)
  BY <1>1, <1>6, DrainReturn DEF NoHandler, EventAtHand
<1>7. CASE HandlerCancelled(s)
  <2>1. StatusOf(done[s]) \in Refusals /\ StatusOf(done[s]) # "OK"
    BY <1>7, StatusType DEF HandlerCancelled
  <2>. QED BY <1>1, <1>7, <2>1, DrainReturn DEF HandlerCancelled, Tallying
<1>8. CASE StartRecv(s) \/ AwaitRecv(s) \/ CheckRecv(s) \/ StartHandler(s) \/ AwaitHandler(s)
  BY <1>8, DrainStutter DEF StartRecv, AwaitRecv, CheckRecv, StartHandler, AwaitHandler
<1>9. ASSUME pc[s] # "done"
      PROVE  [q \in Streams |-> Outcome(q)][s] = "pending"
  BY <1>9 DEF StreamInv, OutcomeInv, Outcome
<1>10. CASE Filter(s)
  <2>1. /\ rcvd[s] \in Nat /\ rcvd[s] >= 1 /\ rcvd[s] <= Len(sent[s])
        /\ consumed[s] + failed[s] + filtered[s] = rcvd[s] - 1
    BY <1>10 DEF Filter, EventAtHand, TypeOK, StreamInv, RecvInv, CountInv
  <2>2. Drain!Next1(s) = rcvd[s]
    BY <2>1 DEF Drain!Next1, Drain!Settled
  <2>3. Drain!Skip(s)
    BY <1>9, <1>10, <2>1, <2>2, DrainWanted
       DEF Filter, EventAtHand, Drain!Skip, Drain!HasNext, Outcome
  <2>. QED BY <2>3 DEF Drain!Next
<1>11. CASE CountFailed(s) \/ CountConsumed(s)
  <2>1. done[s] \in {"ok", "fail"} /\ inflight[s] = {} /\ inbox[s] = "none"
    BY <1>11 DEF CountFailed, CountConsumed, Tallying, TypeOK, StreamInv, CallbackInv
  <2>2. /\ rcvd[s] \in Nat /\ rcvd[s] >= 1 /\ rcvd[s] <= Len(sent[s])
        /\ consumed[s] + failed[s] + filtered[s] = rcvd[s] - 1
    BY <2>1 DEF TypeOK, StreamInv, CallbackInv, CountInv
  <2>3. Drain!Next1(s) = rcvd[s]
    BY <2>2 DEF Drain!Next1, Drain!Settled
  <2>4. CASE CountFailed(s)
    <3>1. Accepts(sent[s][rcvd[s]])
      BY <2>4 DEF CountFailed, StreamInv, HistoryInv, Wanted
    <3>2. Drain!Lose(s)
      BY <1>9, <2>2, <2>3, <2>4, <3>1, DrainWanted
         DEF CountFailed, Tallying, NextIteration, Drain!Lose, Drain!HasNext, Outcome
    <3>. QED BY <3>2 DEF Drain!Next
  <2>5. CASE CountConsumed(s)
    <3>1. rcvd[s] \in committed[s]
      BY <2>5 DEF CountConsumed, StreamInv, HistoryInv
    <3>2. Drain!Keep(s)
      BY <1>9, <2>3, <2>5, <3>1
         DEF CountConsumed, Tallying, NextIteration, Drain!Keep, Outcome
    <3>. QED BY <3>2 DEF Drain!Next
  <2>. QED BY <1>11, <2>4, <2>5
<1>. QED
  BY <1>2, <1>3, <1>4, <1>5, <1>6, <1>7, <1>8, <1>10, <1>11 DEF Loop

LEMMA DrainElsewhere ==
  ASSUME IInv, NEW s \in Streams, Client(s) \/ Receiver(s) \/ Callback(s)
  PROVE  Drain!Next \/ UNCHANGED Drain!vars
<1>. USE DEF IInv
<1>1. CASE Client(s)
  <2>1. CASE Open(s)
    BY <2>1, DrainStutter DEF Open
  <2>2. ASSUME NEW t \in Types, Send(s, t) PROVE Drain!Next
    <3>1. Drain!Offer(s, t)
      BY <2>2 DEF Send, Drain!Offer, Outcome
    <3>. QED BY <3>1 DEF Drain!Next
  <2>3. CASE CloseSend(s)
    <3>1. Drain!Close(s)
      BY <2>3 DEF CloseSend, Drain!Close, Outcome
    <3>. QED BY <3>1 DEF Drain!Next
  <2>4. ASSUME NEW e \in CtxErrors, Cancel(s, e) PROVE UNCHANGED Drain!vars
    BY <2>4, DrainStutter DEF Cancel
  <2>. QED BY <1>1, <2>1, <2>2, <2>3, <2>4 DEF Client
<1>2. CASE Receiver(s)
  BY <1>2, DrainStutter DEF Receiver, RecvEvent, RecvEOF, RecvError, RecvNil, RecvReturns
<1>3. CASE Callback(s)
  <2>1. PICK i \in inflight[s] :
           \/ Commit(s, i)
           \/ HandlerOk(s, i)
           \/ \E e \in HandlerErrors : HandlerFails(s, i, e)
    BY <1>3 DEF Callback
  <2>2. /\ i = rcvd[s] /\ i >= 1 /\ i <= Len(sent[s]) /\ Accepts(sent[s][i])
        /\ consumed[s] + failed[s] + filtered[s] = i - 1
    BY <2>1 DEF TypeOK, StreamInv, CallbackInv, CountInv
  <2>3. CASE Commit(s, i)
    <3>1. Drain!Next1(s) = i
      BY <2>2 DEF TypeOK, Drain!Next1, Drain!Settled
    <3>2. Outcome(s) # "acked"
      BY <2>1 DEF StreamInv, OutcomeInv, Outcome
    <3>3. Drain!Persist(s)
      BY <2>2, <2>3, <3>1, <3>2, DrainWanted DEF Commit, Drain!Persist, Drain!HasNext, Outcome
    <3>. QED BY <3>3 DEF Drain!Next
  <2>4. CASE HandlerOk(s, i) \/ \E e \in HandlerErrors : HandlerFails(s, i, e)
    BY <2>4, DrainStutter DEF HandlerOk, HandlerFails, HandlerReturns
  <2>. QED BY <2>1, <2>3, <2>4
<1>. QED BY <1>1, <1>2, <1>3

\* The initial state of Consumer is one of BoundedDrain, and every step of
\* Consumer is a step of BoundedDrain or leaves its variables alone.
THEOREM Refinement == Spec => ImplementsDrain
<1>1. IInv /\ [Next]_vars => [Drain!Next]_(Drain!vars)
  <2>. SUFFICES ASSUME IInv, [Next]_vars PROVE Drain!Next \/ UNCHANGED Drain!vars
    OBVIOUS
  <2>1. CASE Shutdown
    BY <2>1, DrainStutter DEF Shutdown, Stop, StopServer, Exit
  <2>2. CASE UNCHANGED vars
    BY <2>2, DrainStutter DEF vars
  <2>. QED BY <2>1, <2>2, DrainLoop, DrainElsewhere DEF Next
<1>. QED BY <1>1, InitDrain, Invariance, PTL DEF Spec, ImplementsDrain, Drain!Spec

-------------------------------------------------------------------------------
(* The counters of the service *)

\* Whatever the number of streams, what they counted so far is finite.
CountersInv ==
  /\ IsFiniteSet(Units(consumed))
  /\ IsFiniteSet(Units(failed))
  /\ CountersAgree

LEMMA CountersNext == TypeOK /\ CountersInv /\ [Next]_vars => CountersInv'
<1>. SUFFICES ASSUME TypeOK, CountersInv, [Next]_vars PROVE CountersInv'
  OBVIOUS
<1>. USE DEF CountersInv, CountersAgree
<1>1. ASSUME UNCHANGED <<consumed, failed, eventsConsumed, eventsFailed>>
      PROVE  CountersInv'
  BY <1>1
<1>2. ASSUME NEW s \in Streams, CountConsumed(s) PROVE CountersInv'
  <2>1. /\ IsFiniteSet(Units(consumed'))
        /\ Total(consumed') = Total(consumed) + 1
    BY <1>2, TotalUp DEF CountConsumed, TypeOK
  <2>. QED BY <1>2, <2>1 DEF CountConsumed
<1>3. ASSUME NEW s \in Streams, CountFailed(s) PROVE CountersInv'
  <2>1. /\ IsFiniteSet(Units(failed'))
        /\ Total(failed') = Total(failed) + 1
    BY <1>3, TotalUp DEF CountFailed, TypeOK
  <2>. QED BY <1>3, <2>1 DEF CountFailed
<1>4. ASSUME NEW s \in Streams, Client(s) \/ Receiver(s) PROVE CountersInv'
  BY <1>1, <1>4 DEF Client, Open, Send, CloseSend, Cancel, Receiver, RecvEvent, RecvEOF,
                    RecvError, RecvNil, RecvReturns
<1>5. ASSUME NEW s \in Streams, Loop(s) PROVE CountersInv'
  <2>1. CASE ReturnCancelled(s) \/ SelectCancelled(s) \/ EndOfStream(s)
    BY <1>1, <2>1 DEF ReturnCancelled, SelectCancelled, EndOfStream, Return
  <2>2. CASE StartRecv(s) \/ AwaitRecv(s) \/ CheckRecv(s)
    BY <1>1, <2>2 DEF StartRecv, AwaitRecv, CheckRecv
  <2>3. CASE RecvFailed(s) \/ NoHandler(s) \/ HandlerCancelled(s)
    BY <1>1, <2>3 DEF RecvFailed, NoHandler, HandlerCancelled, Return
  <2>4. CASE Filter(s) \/ StartHandler(s) \/ AwaitHandler(s)
    BY <1>1, <2>4 DEF Filter, StartHandler, AwaitHandler
  <2>. QED BY <1>2, <1>3, <1>5, <2>1, <2>2, <2>3, <2>4 DEF Loop
<1>6. ASSUME NEW s \in Streams, Callback(s) PROVE CountersInv'
  BY <1>1, <1>6 DEF Callback, Commit, HandlerOk, HandlerFails, HandlerReturns
<1>7. CASE Shutdown \/ UNCHANGED vars
  BY <1>1, <1>7 DEF Shutdown, Stop, StopServer, Exit, vars
<1>. QED BY <1>4, <1>5, <1>6, <1>7 DEF Next

\* The service's counters are the sums of those of its streams, which all update
\* them, at every moment: none is lost and none counted twice (service.go:141-147).
THEOREM CountersAddUp == Spec => []CountersAgree
<1>1. Init => CountersInv
  BY TotalZero DEF Init, CountersInv, CountersAgree
<1>2. CountersInv => CountersAgree
  BY DEF CountersInv
<1>. QED BY <1>1, <1>2, TypeCorrect, CountersNext, PTL DEF Spec
===============================================================================
