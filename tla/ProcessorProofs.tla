---------------------------- MODULE ProcessorProofs ----------------------------
(***************************************************************************)
(* Proofs about Processor, for every set of streams, every set of types    *)
(* and handlers and every bound: type correctness, the cause of every      *)
(* status, what a Stop lets through, and the counts and their reports.     *)
(***************************************************************************)
EXTENDS Processor, FiniteSetTheorems, TLAPS

\* The abbreviations of tuples, of sets of values and of steps, expanded everywhere.
USE DEF clientVars, Fates, Running, Results, Goto, Return, Finish, Advance

-------------------------------------------------------------------------------
(* Type correctness. *)

LEMMA CountsType ==
  ASSUME metrics \in Counts, NEW c \in {"processed", "errors", "success"},
         Increment(c)
  PROVE  metrics' \in Counts
BY DEF Counts, Increment

LEMMA ProgramType ==
  ASSUME TypeOK, Program PROVE TypeOK'
<1>. USE ProcessorAssumption
<1>1. ASSUME NEW ts \in InputTypes, RegisterHandler(ts) PROVE TypeOK'
  <2>1. handlers' \in Seq(SUBSET Types) /\ Len(handlers') <= MaxHandlers
    BY <1>1 DEF RegisterHandler, TypeOK
  <2>. QED BY <1>1, <2>1 DEF RegisterHandler, TypeOK
<1>2. CASE Start
  BY <1>2 DEF Start, TypeOK
<1>3. CASE Stop
  BY <1>3 DEF Stop, TypeOK
<1>4. CASE StopController
  BY <1>4 DEF StopController, TypeOK
<1>5. CASE Drained
  BY <1>5 DEF Drained, TypeOK
<1>6. CASE SendHeartbeat
  BY <1>6 DEF SendHeartbeat, TypeOK
<1>. QED BY <1>1, <1>2, <1>3, <1>4, <1>5, <1>6 DEF Program

LEMMA ClientType ==
  ASSUME TypeOK, NEW s \in Streams, Client(s) PROVE TypeOK'
<1>1. CASE Open(s)
  BY <1>1 DEF Open, TypeOK
<1>2. CASE CloseSend(s)
  BY <1>2 DEF CloseSend, TypeOK
<1>3. ASSUME NEW t \in Messages, Send(s, t) PROVE TypeOK'
  <2>1. sent' \in [Streams -> Seq(Messages)]
    BY <1>3 DEF Send, TypeOK
  <2>. QED BY <1>3, <2>1 DEF Send, TypeOK
<1>4. ASSUME NEW err \in CtxErrors, ClientEnds(s, err) PROVE TypeOK'
  BY <1>4 DEF ClientEnds, TypeOK
<1>. QED BY <1>1, <1>2, <1>3, <1>4 DEF Client

LEMMA FinishType ==
  ASSUME TypeOK, NEW s \in Streams, NEW fate \in Fates, Finish(s, fate)
  PROVE  /\ done' \in [Streams -> Seq(Fates)]
         /\ result' \in [Streams -> Results \cup {"none"}]
BY DEF TypeOK

LEMMA ProcessType ==
  ASSUME TypeOK, NEW s \in Streams, Process(s) PROVE TypeOK'
<1>1. CASE Select(s)
  BY <1>1 DEF Select, SelectContext, SelectStop, SelectDefault, TypeOK
<1>2. CASE RecvEvent(s)
  BY <1>2 DEF RecvEvent, TypeOK
<1>3. CASE RecvEOF(s)
  BY <1>3 DEF RecvEOF, TypeOK
<1>12. CASE RecvFails(s)
  <2>1. RecvErrors(s) \subseteq CtxErrors \cup {"ResourceExhausted", "Internal"}
    BY DEF RecvErrors, TypeOK
  <2>. QED BY <1>12, <2>1 DEF RecvFails, TypeOK
<1>4. CASE HandlerNotFound(s)
  <2>1. metrics' \in Counts
    BY <1>4, CountsType DEF HandlerNotFound, TypeOK
  <2>2. /\ done' \in [Streams -> Seq(Fates)]
        /\ result' \in [Streams -> Results \cup {"none"}]
    BY <1>4, FinishType DEF HandlerNotFound
  <2>. QED BY <1>4, <2>1, <2>2 DEF HandlerNotFound, TypeOK
<1>5. CASE Handle(s)
  BY <1>5 DEF Handle, TypeOK
<1>11. ASSUME NEW r \in Results, HandlerReturns(s, r) PROVE TypeOK'
  BY <1>11 DEF HandlerReturns, TypeOK
<1>6. CASE CountProcessed(s)
  <2>1. metrics' \in Counts
    BY <1>6, CountsType DEF CountProcessed, TypeOK
  <2>. QED BY <1>6, <2>1 DEF CountProcessed, TypeOK
<1>7. CASE HandlerFailed(s)
  <2>1. metrics' \in Counts
    BY <1>7, CountsType DEF HandlerFailed, TypeOK
  <2>2. /\ done' \in [Streams -> Seq(Fates)]
        /\ result' \in [Streams -> Results \cup {"none"}]
    BY <1>7, FinishType DEF HandlerFailed
  <2>3. HandlerStatus(s) \in CtxErrors \cup {"Unknown"}
    BY DEF HandlerStatus, TypeOK
  <2>. QED BY <1>7, <2>1, <2>2, <2>3 DEF HandlerFailed, TypeOK
<1>8. CASE Filter(s)
  <2>1. /\ done' \in [Streams -> Seq(Fates)]
        /\ result' \in [Streams -> Results \cup {"none"}]
    BY <1>8, FinishType DEF Filter
  <2>. QED BY <1>8, <2>1 DEF Filter, TypeOK
<1>9. CASE CountSuccess(s)
  <2>1. metrics' \in Counts
    BY <1>9, CountsType DEF CountSuccess, TypeOK
  <2>. QED BY <1>9, <2>1 DEF CountSuccess, TypeOK
<1>10. CASE Deliver(s)
  <2>1. /\ done' \in [Streams -> Seq(Fates)]
        /\ result' \in [Streams -> Results \cup {"none"}]
    BY <1>10, FinishType DEF Deliver, SendOutput, SendFails
  <2>2. CASE SendOutput(s)
    BY <2>1, <2>2 DEF SendOutput, TypeOK
  <2>3. CASE SendFails(s)
    <3>1. (IF ended[s] # "none" THEN ended[s] ELSE "Internal") \in CtxErrors \cup {"Internal"}
      BY DEF TypeOK
    <3>. QED BY <2>1, <2>3, <3>1 DEF SendFails, TypeOK
  <2>. QED BY <1>10, <2>2, <2>3 DEF Deliver
<1>. QED
  BY <1>1, <1>2, <1>3, <1>4, <1>5, <1>6, <1>7, <1>8, <1>9, <1>10,
     <1>11, <1>12
  DEF Process, Recv, Judge, Finishes

\* Every variable keeps its type (processor.go:61-301).
THEOREM TypeCorrect == Spec => []TypeOK
<1>1. Init => TypeOK
  BY ProcessorAssumption DEF Init, Zero, Counts, TypeOK
<1>2. TypeOK /\ [Next]_vars => TypeOK'
  <2>1. CASE UNCHANGED vars
    BY <2>1 DEF vars, TypeOK
  <2>. QED BY <2>1, ProgramType, ClientType, ProcessType DEF Next
<1>. QED BY <1>1, <1>2, PTL DEF Spec

-------------------------------------------------------------------------------
(* What a Stop lets through. *)

\* A stream that took an event after stopCh was closed is past its Recv, and will
\* not come back to it: the default of its select is closed for good.
LateInv ==
  \A s \in Streams :
    /\ late[s] \in {0, 1}
    /\ late[s] = 1 => Stopping /\ pc[s] # "recv"

LEMMA LateNext == TypeOK /\ LateInv /\ [Next]_vars => LateInv'
<1>. SUFFICES ASSUME TypeOK, LateInv, [Next]_vars PROVE LateInv'
  OBVIOUS
<1>. USE DEF LateInv, Stopping, TypeOK
<1>1. CASE Program
  <2>1. UNCHANGED <<late, pc>> /\ (Stopping => Stopping')
    BY <1>1 DEF Program, RegisterHandler, Start, Stop, StopController, Drained,
                SendHeartbeat
  <2>. QED BY <2>1
<1>2. ASSUME NEW s \in Streams, Client(s) PROVE LateInv'
  BY <1>2 DEF Client, Open, CloseSend, Send, ClientEnds
<1>3. ASSUME NEW s \in Streams, Select(s) PROVE LateInv'
  BY <1>3 DEF Select, SelectContext, SelectStop, SelectDefault
<1>4. ASSUME NEW s \in Streams, Recv(s) PROVE LateInv'
  BY <1>4 DEF Recv, RecvEvent, RecvEOF, RecvFails
<1>5. ASSUME NEW s \in Streams, HandlerNotFound(s) \/ Handle(s) \/ Finishes(s)
      PROVE LateInv'
  BY <1>5 DEF HandlerNotFound, Handle, Finishes, HandlerReturns
<1>6. ASSUME NEW s \in Streams, CountProcessed(s) \/ Judge(s) \/ Deliver(s)
      PROVE LateInv'
  BY <1>6 DEF CountProcessed, Judge, HandlerFailed, Filter, CountSuccess,
              Deliver, SendOutput, SendFails
<1>7. CASE UNCHANGED vars
  BY <1>7 DEF vars
<1>. QED BY <1>1, <1>2, <1>3, <1>4, <1>5, <1>6, <1>7 DEF Next, Process

\* Once stopCh is closed a stream takes at most one more event (processor.go:228).
THEOREM StopLetsOneThrough == Spec => []StopBounded
<1>1. Init => LateInv
  BY DEF Init, LateInv
<1>2. LateInv => StopBounded
  BY DEF LateInv, StopBounded
<1>. QED BY <1>1, <1>2, TypeCorrect, LateNext, PTL DEF Spec
-------------------------------------------------------------------------------
(* The cause of a status. *)

\* Before its Process call returns, a stream has no status and has dealt with no
\* event that failed; it has not received more than was sent, and what it works on
\* is an event.  Justified(s) is not inductive without them: the last event must be
\* the only failure.
StreamInv(s) ==
  /\ pc[s] # "ended" =>
       /\ status[s] = "none"
       /\ \A i \in DOMAIN done[s] : done[s][i] \in {"delivered", "filtered"}
  /\ Received(s) <= Len(sent[s])
  /\ pc[s] \in Running => Event(s) # Unreadable
  /\ Justified(s)

StatusInv == \A s \in Streams : StreamInv(s)

\* A step that leaves a stream alone keeps its invariant: stopCh is never opened.
LEMMA Frame ==
  ASSUME NEW s \in Streams, StreamInv(s), Stopping => Stopping',
         pc'[s] = pc[s], sent'[s] = sent[s], closed'[s] = closed[s],
         ended'[s] = ended[s], done'[s] = done[s], status'[s] = status[s]
  PROVE  StreamInv(s)'
BY DEF StreamInv, Justified, Refused, Last, Received, Event

LEMMA Elsewhere ==
  ASSUME TypeOK, NEW s \in Streams, Client(s) \/ Process(s),
         NEW q \in Streams, q # s, StreamInv(q)
  PROVE  StreamInv(q)'
<1>1. CASE Client(s)
  BY <1>1, Frame DEF TypeOK, Client, Open, CloseSend, Send, ClientEnds, Stopping
<1>2. CASE Select(s) \/ Recv(s)
  BY <1>2, Frame DEF TypeOK, Select, SelectContext, SelectStop, SelectDefault, Recv,
                     RecvEvent, RecvEOF, RecvFails, Stopping
<1>3. CASE HandlerNotFound(s) \/ Handle(s) \/ Finishes(s) \/ CountProcessed(s)
  BY <1>3, Frame DEF TypeOK, HandlerNotFound, Handle, Finishes, HandlerReturns,
                     CountProcessed, Stopping
<1>4. CASE Judge(s) \/ Deliver(s)
  BY <1>4, Frame DEF TypeOK, Judge, HandlerFailed, Filter, CountSuccess, Deliver,
                     SendOutput, SendFails, Stopping
<1>. QED BY <1>1, <1>2, <1>3, <1>4 DEF Process

LEMMA ClientInv ==
  ASSUME TypeOK, NEW s \in Streams, StreamInv(s), Client(s)
  PROVE  StreamInv(s)'
<1>1. CASE Open(s)
  BY <1>1 DEF Open, TypeOK, StreamInv, Justified, Refused, Received, Event, Last, Stopping
<1>2. CASE CloseSend(s)
  BY <1>2 DEF CloseSend, Live, TypeOK, StreamInv, Justified, Refused, Received, Event, Last,
              Stopping
<1>3. ASSUME NEW t \in Messages, Send(s, t) PROVE StreamInv(s)'
  <2>1. sent'[s] = Append(sent[s], t)
    BY <1>3 DEF Send, TypeOK
  <2>2. /\ Len(sent'[s]) = Len(sent[s]) + 1
        /\ \A i \in 1..Len(sent[s]) : sent'[s][i] = sent[s][i]
    BY <2>1 DEF TypeOK
  <2>3. UNCHANGED <<pc, done, status, closed, ended, phase>> /\ pc[s] # "ended"
    BY <1>3 DEF Send, Live
  <2>4. Received(s)' = Received(s) /\ Received(s) \in Nat /\ Len(sent[s]) \in Nat
    BY <2>3 DEF Received, TypeOK
  <2>5. /\ status'[s] = "none" /\ done'[s] = done[s] /\ pc'[s] = pc[s]
        /\ Len(done[s]) <= Received(s) /\ DOMAIN done[s] = 1..Len(done[s])
        /\ pc[s] \in Running => Received(s) >= 1
    BY <2>3 DEF StreamInv, Received, TypeOK
  <2>6. Received(s) <= Len(sent[s])
    BY DEF StreamInv
  <2>7. \A i \in DOMAIN done[s] : sent'[s][i] # Unreadable
    <3>1. Len(done[s]) \in Nat
      BY DEF TypeOK
    <3>2. \A i \in DOMAIN done[s] : i \in 1..Len(sent[s])
      BY <2>4, <2>5, <2>6, <3>1
    <3>3. \A i \in DOMAIN done[s] : sent[s][i] # Unreadable
      BY DEF StreamInv, Justified
    <3>. QED BY <2>2, <3>2, <3>3
  <2>8. pc[s] \in Running => Event(s)' # Unreadable
    <3>1. Event(s)' = sent'[s][Received(s)]
      BY <2>4 DEF Event
    <3>2. pc[s] \in Running => Received(s) \in 1..Len(sent[s])
      BY <2>4, <2>5, <2>6
    <3>3. pc[s] \in Running => sent[s][Received(s)] # Unreadable
      BY DEF StreamInv, Event
    <3>. QED BY <2>2, <3>1, <3>2, <3>3
  <2>9. Justified(s)'
    BY <2>3, <2>5, <2>7, ProcessorAssumption DEF Justified, StreamInv
  <2>. QED BY <2>2, <2>3, <2>4, <2>5, <2>6, <2>8, <2>9 DEF StreamInv
<1>4. ASSUME NEW err \in CtxErrors, ClientEnds(s, err) PROVE StreamInv(s)'
  <2>. USE ProcessorAssumption
  <2>. QED BY <1>4 DEF ClientEnds, Live, TypeOK, StreamInv, Justified, Refused, Received,
                       Event, Last, Stopping
<1>. QED BY <1>1, <1>2, <1>3, <1>4 DEF Client

\* Process returns between two events, with a status that its place justifies.
LEMMA ReturnInv ==
  ASSUME TypeOK, NEW s \in Streams, StreamInv(s), NEW here \in {"select", "recv"},
         NEW code \in CtxErrors \cup {"OK", "Unknown", "Internal", "ResourceExhausted"},
         Return(s, here, code),
         UNCHANGED <<sent, closed, ended, done, phase>>,
         \/ code \in CtxErrors /\ code = ended[s]
         \/ code = "Unknown" /\ Stopping
         \/ code = "OK" /\ closed[s] /\ Received(s) = Len(sent[s])
         \/ code \in {"Internal", "ResourceExhausted"} /\ Refused(s)
  PROVE  StreamInv(s)'
<1>1. pc[s] = here /\ pc'[s] = "ended" /\ status'[s] = code
  BY DEF TypeOK
<1>2. Received(s) = Len(done[s]) /\ Received(s)' = Len(done[s])
  BY <1>1 DEF TypeOK, Received
<1>3. \A i \in DOMAIN done[s] : done[s][i] \in {"delivered", "filtered"}
  BY <1>1 DEF StreamInv
<1>4. /\ sent'[s] = sent[s] /\ done'[s] = done[s] /\ (Refused(s) <=> Refused(s)')
      /\ \A i \in DOMAIN done[s] : sent[s][i] # Unreadable
  BY DEF Refused, StreamInv, Justified
<1>. QED BY <1>1, <1>2, <1>3, <1>4, ProcessorAssumption DEF StreamInv, Justified, Stopping

\* An event is dealt with: either all is well and the loop goes on, or it is the
\* last one and the status names it.
LEMMA FinishInv ==
  ASSUME TypeOK, NEW s \in Streams, StreamInv(s), NEW fate \in Fates, Finish(s, fate),
         pc[s] \in Running, UNCHANGED <<sent, closed, ended, phase>>,
         \/ /\ fate \in {"delivered", "filtered"}
            /\ Goto(s, pc[s], "select") /\ UNCHANGED status
         \/ \E code \in CtxErrors \cup {"Unknown", "Internal"} :
              /\ Return(s, pc[s], code)
              /\ code = "Unknown" => fate \in {"failed", "unhandled"}
              /\ code = "Internal" => fate = "lost"
              /\ code \in CtxErrors => ended[s] = code \/ fate = "failed"
              /\ fate \in {"failed", "unhandled", "lost"}
  PROVE  StreamInv(s)'
<1>1. done'[s] = Append(done[s], fate) /\ done[s] \in Seq(Fates)
  BY DEF TypeOK
<1>2. /\ Len(done'[s]) = Len(done[s]) + 1 /\ Len(done[s]) \in Nat
      /\ DOMAIN done'[s] = 1..(Len(done[s]) + 1)
      /\ done'[s][Len(done[s]) + 1] = fate
      /\ \A i \in 1..Len(done[s]) : done'[s][i] = done[s][i]
      /\ DOMAIN done[s] = 1..Len(done[s])
      /\ done'[s] # <<>>
  BY <1>1
<1>3. status[s] = "none" /\ \A i \in DOMAIN done[s] : done[s][i] \in {"delivered", "filtered"}
  BY DEF StreamInv
<1>4. Received(s) = Len(done[s]) + 1 /\ sent[s][Len(done[s]) + 1] # Unreadable
  BY DEF Received, StreamInv, Event
<1>7. \A i \in DOMAIN done'[s] : sent'[s][i] # Unreadable
  BY <1>2, <1>4 DEF StreamInv, Justified
<1>5. CASE fate \in {"delivered", "filtered"} /\ Goto(s, pc[s], "select") /\ UNCHANGED status
  <2>1. pc'[s] = "select" /\ status'[s] = "none"
    BY <1>3, <1>5 DEF TypeOK
  <2>2. Received(s)' = Len(done[s]) + 1
    BY <1>2, <2>1 DEF Received
  <2>3. \A i \in DOMAIN done'[s] : done'[s][i] \in {"delivered", "filtered"}
    BY <1>2, <1>3, <1>5
  <2>. QED BY <1>4, <1>7, <2>1, <2>2, <2>3, ProcessorAssumption DEF StreamInv, Justified
<1>6. ASSUME NEW code \in CtxErrors \cup {"Unknown", "Internal"},
             Return(s, pc[s], code),
             code = "Unknown" => fate \in {"failed", "unhandled"},
             code = "Internal" => fate = "lost",
             code \in CtxErrors => ended[s] = code \/ fate = "failed",
             fate \in {"failed", "unhandled", "lost"}
      PROVE  StreamInv(s)'
  <2>1. pc'[s] = "ended" /\ status'[s] = code
    BY <1>6 DEF TypeOK
  <2>2. Received(s)' = Len(done[s]) + 1
    BY <1>2, <2>1 DEF Received
  <2>3. done'[s][Len(done'[s])] = fate
    BY <1>2
  <2>4. code \notin {"none", "OK"}
    BY <1>6, ProcessorAssumption
  <2>5. \A i \in DOMAIN done'[s] :
          done'[s][i] \in {"failed", "unhandled", "lost"} => i = Len(done'[s])
    BY <1>2, <1>3
  <2>6. Justified(s)'
    BY <1>2, <1>6, <1>7, <2>1, <2>3, <2>4, <2>5, ProcessorAssumption DEF Justified, Last
  <2>7. Received(s)' <= Len(sent'[s])
    BY <1>4, <2>2 DEF StreamInv
  <2>. QED BY <2>1, <2>6, <2>7 DEF StreamInv
<1>. QED BY <1>5, <1>6

\* The loop moves on within an event, or to the next one.
LEMMA MoveInv ==
  ASSUME TypeOK, NEW s \in Streams, StreamInv(s), pc[s] \notin {"idle", "ended"},
         NEW there \in {"recv"} \cup Running, Goto(s, pc[s], there),
         UNCHANGED <<sent, closed, ended, done, status, phase>>,
         there \in Running =>
           pc[s] \in Running \/ (Received(s) < Len(sent[s]) /\ Arrived(s) # Unreadable),
         pc[s] \in Running => there \in Running
  PROVE  StreamInv(s)'
<1>1. pc'[s] = there
  BY DEF TypeOK
<1>2. Received(s)' <= Len(sent[s])
  BY <1>1 DEF TypeOK, StreamInv, Received
<1>3. there \in Running => Event(s)' # Unreadable
  BY <1>1 DEF TypeOK, StreamInv, Received, Event, Arrived
<1>. QED BY <1>1, <1>2, <1>3 DEF StreamInv, Justified, Refused, Last, Stopping

LEMMA ProcessInv ==
  ASSUME TypeOK, NEW s \in Streams, StreamInv(s), Process(s)
  PROVE  StreamInv(s)'
<1>1. CASE SelectContext(s)
  BY <1>1, ReturnInv DEF SelectContext, TypeOK
<1>2. CASE SelectStop(s)
  BY <1>2, ReturnInv DEF SelectStop
<1>3. CASE SelectDefault(s)
  BY <1>3, MoveInv DEF SelectDefault
<1>4. CASE RecvEvent(s)
  BY <1>4, MoveInv, ProcessorAssumption DEF RecvEvent
<1>5. CASE RecvEOF(s)
  BY <1>5, ReturnInv DEF RecvEOF
<1>6. CASE RecvFails(s)
  <2>1. PICK code \in RecvErrors(s) : Return(s, "recv", code)
    BY <1>6 DEF RecvFails
  <2>2. Received(s) = Len(done[s])
    BY <2>1 DEF Received
  <2>3. \/ code \in CtxErrors /\ code = ended[s]
        \/ code \in {"Internal", "ResourceExhausted"} /\ Refused(s)
    BY <2>2 DEF RecvErrors, Refused, Arrived, TypeOK
  <2>. QED BY <1>6, <2>1, <2>3, ReturnInv DEF RecvFails
<1>7. CASE HandlerNotFound(s)
  BY <1>7, FinishInv, ProcessorAssumption DEF HandlerNotFound
<1>8. CASE Handle(s)
  BY <1>8, MoveInv DEF Handle
<1>9. ASSUME NEW r \in Results, HandlerReturns(s, r) PROVE StreamInv(s)'
  BY <1>9, MoveInv DEF HandlerReturns
<1>10. CASE CountProcessed(s)
  BY <1>10, MoveInv DEF CountProcessed
<1>11. CASE HandlerFailed(s)
  <2>1. HandlerStatus(s) \in CtxErrors \cup {"Unknown"}
    BY DEF HandlerStatus, TypeOK
  <2>2. /\ Return(s, "judge", HandlerStatus(s)) /\ Finish(s, "failed")
        /\ pc[s] = "judge" /\ UNCHANGED <<sent, closed, ended, phase>>
    BY <1>11 DEF HandlerFailed
  <2>3. HandlerStatus(s) # "Internal"
    BY <2>1, ProcessorAssumption
  <2>. QED BY <2>1, <2>2, <2>3, FinishInv
<1>12. CASE Filter(s)
  BY <1>12, FinishInv DEF Filter
<1>13. CASE CountSuccess(s)
  BY <1>13, MoveInv DEF CountSuccess
<1>14. CASE SendOutput(s)
  BY <1>14, FinishInv DEF SendOutput
<1>15. CASE SendFails(s)
  <2>. DEFINE code == IF ended[s] # "none" THEN ended[s] ELSE "Internal"
  <2>1. /\ code \in CtxErrors \cup {"Internal"}
        /\ code \in CtxErrors => ended[s] = code
    BY ProcessorAssumption DEF TypeOK
  <2>2. Return(s, "send", code) /\ Finish(s, "lost") /\ pc[s] = "send"
        /\ UNCHANGED <<sent, closed, ended, phase>>
    BY <1>15 DEF SendFails
  <2>. HIDE DEF code
  <2>. QED BY <2>1, <2>2, FinishInv, ProcessorAssumption
<1>. QED
  BY <1>1, <1>2, <1>3, <1>4, <1>5, <1>6, <1>7, <1>8, <1>9, <1>10, <1>11, <1>12,
     <1>13, <1>14, <1>15
  DEF Process, Select, Recv, Judge, Deliver, Finishes

LEMMA StatusNext == TypeOK /\ StatusInv /\ [Next]_vars => StatusInv'
<1>. SUFFICES ASSUME TypeOK, StatusInv, [Next]_vars, NEW q \in Streams
              PROVE  StreamInv(q)'
  BY DEF StatusInv
<1>. StreamInv(q)
  BY DEF StatusInv
<1>1. CASE Program
  BY <1>1, Frame DEF Program, RegisterHandler, Start, Stop, StopController, Drained,
                     SendHeartbeat, Stopping
<1>2. ASSUME NEW s \in Streams, Client(s) PROVE StreamInv(q)'
  BY <1>2, ClientInv, Elsewhere
<1>3. ASSUME NEW s \in Streams, Process(s) PROVE StreamInv(q)'
  BY <1>3, ProcessInv, Elsewhere
<1>4. CASE UNCHANGED vars
  BY <1>4, Frame DEF vars, Stopping
<1>. QED BY <1>1, <1>2, <1>3, <1>4 DEF Next

\* Every status has its cause, and an event that fails is the last of its stream
\* (processor.go:221-301).
THEOREM StatusesJustified == Spec => []StatusJustified
<1>1. Init => StatusInv
  BY ProcessorAssumption DEF Init, StatusInv, StreamInv, Justified, Received
<1>2. StatusInv => StatusJustified
  BY DEF StatusInv, StreamInv, StatusJustified
<1>. QED BY <1>1, <1>2, TypeCorrect, StatusNext, PTL DEF Spec

-------------------------------------------------------------------------------
(* The counts. *)

\* Streams need not be finite: that what is counted is finite is invariant.
Finite ==
  /\ IsFiniteSet(Fated(Fates \ {"unhandled"}))
  /\ IsFiniteSet(Fated({"failed", "unhandled"}))
  /\ IsFiniteSet(Fated({"delivered", "lost"}))
  /\ IsFiniteSet(At({"judge", "send"}))
  /\ IsFiniteSet(At({"send"}))

MetricsInv == Finite /\ MetricsAgree

\* One event more that is dealt with counts once, and where its fate belongs.
LEMMA FatedFinish ==
  ASSUME TypeOK, NEW s \in Streams, NEW fate \in Fates, Finish(s, fate),
         NEW F, IsFiniteSet(Fated(F))
  PROVE  /\ IsFiniteSet(Fated(F)')
         /\ Cardinality(Fated(F)') = Cardinality(Fated(F)) + IF fate \in F THEN 1 ELSE 0
<1>. DEFINE n == Len(done[s]) + 1
<1>1. /\ n \in Nat
      /\ DOMAIN done[s] = 1..(n - 1) /\ DOMAIN done'[s] = 1..n /\ done'[s][n] = fate
      /\ \A i \in 1..(n - 1) : done'[s][i] = done[s][i]
  BY DEF TypeOK
<1>2. \A q \in Streams : q # s => done'[q] = done[q]
  BY DEF TypeOK
<1>3. <<s, n>> \notin Fated(F)
  BY <1>1 DEF Fated
<1>4. Fated(F)' = IF fate \in F THEN Fated(F) \cup {<<s, n>>} ELSE Fated(F)
  <2>. DEFINE mine  == {i \in DOMAIN done[s] : done[s][i] \in F}
              mine1 == {i \in DOMAIN done'[s] : done'[s][i] \in F}
  <2>1. mine1 = IF fate \in F THEN mine \cup {n} ELSE mine
    BY <1>1
  <2>2. \A q, i : <<q, i>> \in Fated(F)' <=>
          q \in Streams /\ i \in {j \in DOMAIN done'[q] : done'[q][j] \in F}
    BY DEF Fated
  <2>3. \A q, i : <<q, i>> \in Fated(F) <=>
          q \in Streams /\ i \in {j \in DOMAIN done[q] : done[q][j] \in F}
    BY DEF Fated
  <2>4. \A q, i : <<q, i>> \in Fated(F)' <=>
          <<q, i>> \in Fated(F) \/ (fate \in F /\ q = s /\ i = n)
    <3>. SUFFICES ASSUME NEW q, NEW i
                  PROVE  <<q, i>> \in Fated(F)' <=>
                           <<q, i>> \in Fated(F) \/ (fate \in F /\ q = s /\ i = n)
      OBVIOUS
    <3>1. CASE q = s
      <4>1. <<q, i>> \in Fated(F)' <=> i \in mine1
        BY <2>2, <3>1
      <4>2. <<q, i>> \in Fated(F) <=> i \in mine
        BY <2>3, <3>1
      <4>. QED BY <2>1, <3>1, <4>1, <4>2
    <3>2. CASE q # s
      <4>1. CASE q \in Streams
        <5>1. done'[q] = done[q]
          BY <1>2, <3>2, <4>1
        <5>. QED BY <2>2, <2>3, <3>2, <4>1, <5>1
      <4>2. CASE q \notin Streams
        BY <2>2, <2>3, <3>2, <4>2
      <4>. QED BY <4>1, <4>2
    <3>. QED BY <3>1, <3>2
  <2>5. \A x \in Fated(F) \cup Fated(F)' : x = <<x[1], x[2]>>
    BY DEF Fated
  <2>. HIDE DEF n
  <2>6. ASSUME NEW x PROVE x \in Fated(F)' <=> x \in Fated(F) \/ (fate \in F /\ x = <<s, n>>)
    <3>1. CASE x = <<x[1], x[2]>>
      BY <2>4, <3>1
    <3>2. CASE x # <<x[1], x[2]>>
      BY <2>5, <3>2
    <3>. QED BY <3>1, <3>2
  <2>. QED BY <2>6
<1>5. /\ IsFiniteSet(Fated(F) \cup {<<s, n>>})
      /\ Cardinality(Fated(F) \cup {<<s, n>>}) = Cardinality(Fated(F)) + 1
  BY <1>3, FS_AddElement
<1>6. Cardinality(Fated(F)) \in Nat
  BY FS_CardinalityType
<1>. QED BY <1>4, <1>5, <1>6

LEMMA FatedSame ==
  ASSUME UNCHANGED done, NEW F PROVE Fated(F)' = Fated(F)
BY DEF Fated

\* A stream that goes from one place to another.
LEMMA AtGoto ==
  ASSUME TypeOK, NEW s \in Streams, NEW there, pc' = [pc EXCEPT ![s] = there],
         NEW Q, IsFiniteSet(At(Q))
  PROVE  /\ IsFiniteSet(At(Q)')
         /\ pc[s] \in Q /\ there \in Q => Cardinality(At(Q)') = Cardinality(At(Q))
         /\ pc[s] \notin Q /\ there \notin Q => Cardinality(At(Q)') = Cardinality(At(Q))
         /\ pc[s] \notin Q /\ there \in Q => Cardinality(At(Q)') = Cardinality(At(Q)) + 1
         /\ pc[s] \in Q /\ there \notin Q => Cardinality(At(Q)') + 1 = Cardinality(At(Q))
<1>1. At(Q)' = IF there \in Q THEN At(Q) \cup {s} ELSE At(Q) \ {s}
  BY DEF At, TypeOK
<1>2. s \in At(Q) <=> pc[s] \in Q
  BY DEF At
<1>3. /\ IsFiniteSet(At(Q) \cup {s})
      /\ Cardinality(At(Q) \cup {s}) = IF s \in At(Q) THEN Cardinality(At(Q))
                                       ELSE Cardinality(At(Q)) + 1
  BY FS_AddElement
<1>4. /\ IsFiniteSet(At(Q) \ {s})
      /\ Cardinality(At(Q) \ {s}) = IF s \in At(Q) THEN Cardinality(At(Q)) - 1
                                     ELSE Cardinality(At(Q))
  BY FS_RemoveElement
<1>5. Cardinality(At(Q)) \in Nat
  BY FS_CardinalityType
<1>6. CASE there \in Q
  BY <1>1, <1>2, <1>3, <1>6
<1>7. CASE there \notin Q
  BY <1>1, <1>2, <1>4, <1>5, <1>7
<1>. QED BY <1>6, <1>7

LEMMA AtSame ==
  ASSUME UNCHANGED pc, NEW Q PROVE At(Q)' = At(Q)
BY DEF At

LEMMA Cardinals ==
  ASSUME Finite
  PROVE  /\ Cardinality(Fated(Fates \ {"unhandled"})) \in Nat
         /\ Cardinality(Fated({"failed", "unhandled"})) \in Nat
         /\ Cardinality(Fated({"delivered", "lost"})) \in Nat
         /\ Cardinality(At({"judge", "send"})) \in Nat
         /\ Cardinality(At({"send"})) \in Nat
BY FS_CardinalityType DEF Finite

\* A step that neither counts nor deals with an event, nor moves a stream into or
\* out of the places in between.
LEMMA Uncounted ==
  ASSUME TypeOK, MetricsInv, UNCHANGED <<metrics, done>>,
         \/ UNCHANGED pc
         \/ \E s \in Streams, there \in {"idle", "select", "recv", "ended", "find", "handle", "tally"} :
              pc[s] \notin {"judge", "send"} /\ pc' = [pc EXCEPT ![s] = there]
  PROVE  MetricsInv'
<1>1. \A F : Fated(F)' = Fated(F)
  BY FatedSame
<1>2. \A Q \in {{"judge", "send"}, {"send"}} :
        IsFiniteSet(At(Q)') /\ Cardinality(At(Q)') = Cardinality(At(Q))
  <2>1. CASE UNCHANGED pc
    BY <2>1, AtSame DEF MetricsInv, Finite
  <2>2. ASSUME NEW s \in Streams,
               NEW there \in {"idle", "select", "recv", "ended", "find", "handle", "tally"},
               pc[s] \notin {"judge", "send"}, pc' = [pc EXCEPT ![s] = there]
        PROVE  \A Q \in {{"judge", "send"}, {"send"}} :
                 IsFiniteSet(At(Q)') /\ Cardinality(At(Q)') = Cardinality(At(Q))
    BY <2>2, AtGoto DEF MetricsInv, Finite
  <2>. QED BY <2>1, <2>2
<1>. QED BY <1>1, <1>2 DEF MetricsInv, Finite, MetricsAgree

\* An event of s is dealt with: its fate and the place it was in tell how the
\* counts must have changed.
LEMMA Counted ==
  ASSUME TypeOK, MetricsInv, NEW s \in Streams, NEW fate \in Fates, Finish(s, fate),
         NEW there \in {"select", "ended"}, pc' = [pc EXCEPT ![s] = there],
         \/ /\ fate = "unhandled" /\ pc[s] = "find"
            /\ Increment("errors")
         \/ /\ fate = "failed" /\ pc[s] = "judge"
            /\ Increment("errors")
         \/ /\ fate = "filtered" /\ pc[s] = "judge"
            /\ UNCHANGED metrics
         \/ /\ fate \in {"delivered", "lost"} /\ pc[s] = "send"
            /\ UNCHANGED metrics
  PROVE  MetricsInv'
<1>. DEFINE P == Fates \ {"unhandled"}
            E == {"failed", "unhandled"}
            S == {"delivered", "lost"}
            J == {"judge", "send"}
            D == {"send"}
<1>1. \A F \in {P, E, S} :
        /\ IsFiniteSet(Fated(F)')
        /\ Cardinality(Fated(F)') = Cardinality(Fated(F)) + IF fate \in F THEN 1 ELSE 0
  BY FatedFinish DEF MetricsInv, Finite
<1>2. \A Q \in {J, D} :
        /\ IsFiniteSet(At(Q)')
        /\ pc[s] \notin Q => Cardinality(At(Q)') = Cardinality(At(Q))
        /\ pc[s] \in Q => Cardinality(At(Q)') + 1 = Cardinality(At(Q))
  BY AtGoto DEF MetricsInv, Finite
<1>3. Finite'
  BY <1>1, <1>2 DEF Finite
<1>4. metrics \in [processed : Nat, errors : Nat, success : Nat]
  BY DEF TypeOK, Counts
<1>5. /\ Cardinality(Fated(P)) \in Nat /\ Cardinality(Fated(E)) \in Nat
      /\ Cardinality(Fated(S)) \in Nat
      /\ Cardinality(At(J)) \in Nat /\ Cardinality(At(D)) \in Nat
      /\ Cardinality(At(J)') \in Nat /\ Cardinality(At(D)') \in Nat
  BY <1>3, Cardinals, FS_CardinalityType DEF MetricsInv, Finite
<1>6. /\ metrics'.processed = metrics.processed /\ metrics'.success = metrics.success
      /\ metrics'.errors = metrics.errors + IF fate \in E THEN 1 ELSE 0
  BY <1>4 DEF Increment
<1>7. /\ metrics.processed = Cardinality(Fated(P)) + Cardinality(At(J))
      /\ metrics.errors = Cardinality(Fated(E))
      /\ metrics.success = Cardinality(Fated(S)) + Cardinality(At(D))
  BY DEF MetricsInv, MetricsAgree
<1>8. Cardinality(Fated(P)') + Cardinality(At(J)') = Cardinality(Fated(P)) + Cardinality(At(J))
  <2>1. CASE pc[s] = "find" /\ fate = "unhandled"
    BY <1>1, <1>2, <1>5, <2>1
  <2>2. CASE pc[s] \in J /\ fate # "unhandled"
    BY <1>1, <1>2, <1>5, <2>2
  <2>. QED BY <2>1, <2>2
<1>9. Cardinality(Fated(S)') + Cardinality(At(D)') = Cardinality(Fated(S)) + Cardinality(At(D))
  <2>1. CASE pc[s] = "send" /\ fate \in S
    BY <1>1, <1>2, <1>5, <2>1
  <2>2. CASE pc[s] # "send" /\ fate \notin S
    BY <1>1, <1>2, <1>5, <2>2
  <2>. QED BY <2>1, <2>2
<1>10. Cardinality(Fated(E)') = metrics'.errors
  BY <1>1, <1>6, <1>7
<1>11. MetricsAgree'
  BY <1>6, <1>7, <1>8, <1>9, <1>10 DEF MetricsAgree
<1>. QED BY <1>3, <1>11 DEF MetricsInv

\* CountProcessed and CountSuccess move the stream as they count.
LEMMA Counting ==
  ASSUME TypeOK, MetricsInv, NEW s \in Streams, CountProcessed(s) \/ CountSuccess(s)
  PROVE  MetricsInv'
<1>. DEFINE J == {"judge", "send"}
            D == {"send"}
<1>1. metrics \in [processed : Nat, errors : Nat, success : Nat]
  BY DEF TypeOK, Counts
<1>2. \A F : Fated(F)' = Fated(F)
  BY FatedSame DEF CountProcessed, CountSuccess
<1>3. CASE CountProcessed(s)
  <2>1. /\ IsFiniteSet(At(J)') /\ IsFiniteSet(At(D)')
        /\ Cardinality(At(J)') = Cardinality(At(J)) + 1
        /\ Cardinality(At(D)') = Cardinality(At(D))
    <3>1. pc[s] = "tally" /\ pc' = [pc EXCEPT ![s] = "judge"]
      BY <1>3 DEF CountProcessed
    <3>2. IsFiniteSet(At(J)) /\ IsFiniteSet(At(D))
      BY DEF MetricsInv, Finite
    <3>3. IsFiniteSet(At(J)') /\ Cardinality(At(J)') = Cardinality(At(J)) + 1
      <4>1. pc[s] \notin J /\ "judge" \in J
        BY <3>1
      <4>2. /\ IsFiniteSet(At(J)')
            /\ pc[s] \notin J /\ "judge" \in J => Cardinality(At(J)') = Cardinality(At(J)) + 1
        BY <3>1, <3>2, AtGoto, Zenon
      <4>. QED BY <4>1, <4>2
    <3>4. IsFiniteSet(At(D)') /\ Cardinality(At(D)') = Cardinality(At(D))
      <4>1. pc[s] \notin D /\ "judge" \notin D
        BY <3>1
      <4>2. /\ IsFiniteSet(At(D)')
            /\ pc[s] \notin D /\ "judge" \notin D => Cardinality(At(D)') = Cardinality(At(D))
        BY <3>1, <3>2, AtGoto, Zenon
      <4>. QED BY <4>1, <4>2
    <3>. QED BY <3>3, <3>4
  <2>2. metrics' = [metrics EXCEPT !.processed = @ + 1]
    BY <1>3 DEF CountProcessed, Increment
  <2>. QED BY <1>1, <1>2, <2>1, <2>2, Cardinals DEF MetricsInv, Finite, MetricsAgree
<1>4. CASE CountSuccess(s)
  <2>1. /\ IsFiniteSet(At(J)') /\ IsFiniteSet(At(D)')
        /\ Cardinality(At(J)') = Cardinality(At(J))
        /\ Cardinality(At(D)') = Cardinality(At(D)) + 1
    BY <1>4, AtGoto DEF CountSuccess, MetricsInv, Finite
  <2>2. metrics' = [metrics EXCEPT !.success = @ + 1]
    BY <1>4 DEF CountSuccess, Increment
  <2>. QED BY <1>1, <1>2, <2>1, <2>2, Cardinals DEF MetricsInv, Finite, MetricsAgree
<1>. QED BY <1>3, <1>4

LEMMA MetricsNext == TypeOK /\ MetricsInv /\ [Next]_vars => MetricsInv'
<1>. SUFFICES ASSUME TypeOK, MetricsInv, [Next]_vars PROVE MetricsInv'
  OBVIOUS
<1>1. CASE Program
  BY <1>1, Uncounted DEF Program, RegisterHandler, Start, Stop, StopController, Drained,
                         SendHeartbeat
<1>2. ASSUME NEW s \in Streams, Client(s) PROVE MetricsInv'
  BY <1>2, Uncounted DEF Client, Open, CloseSend, Send, ClientEnds
<1>3. ASSUME NEW s \in Streams, Select(s) PROVE MetricsInv'
  BY <1>3, Uncounted DEF Select, SelectContext, SelectStop, SelectDefault
<1>4. ASSUME NEW s \in Streams, Recv(s) PROVE MetricsInv'
  BY <1>4, Uncounted DEF Recv, RecvEvent, RecvEOF, RecvFails
<1>5. ASSUME NEW s \in Streams, Handle(s) \/ Finishes(s) PROVE MetricsInv'
  BY <1>5, Uncounted DEF Handle, Finishes, HandlerReturns
<1>6. ASSUME NEW s \in Streams, HandlerNotFound(s) PROVE MetricsInv'
  BY <1>6, Counted DEF HandlerNotFound
<1>7. ASSUME NEW s \in Streams, CountProcessed(s) \/ CountSuccess(s) PROVE MetricsInv'
  BY <1>7, Counting
<1>8. ASSUME NEW s \in Streams, HandlerFailed(s) PROVE MetricsInv'
  BY <1>8, Counted DEF HandlerFailed
<1>9. ASSUME NEW s \in Streams, Filter(s) PROVE MetricsInv'
  BY <1>9, Counted DEF Filter
<1>10. ASSUME NEW s \in Streams, SendOutput(s) PROVE MetricsInv'
  BY <1>10, Counted DEF SendOutput
<1>11. ASSUME NEW s \in Streams, SendFails(s) PROVE MetricsInv'
  BY <1>11, Counted DEF SendFails
<1>12. CASE UNCHANGED vars
  BY <1>12, Uncounted DEF vars
<1>. QED
  BY <1>1, <1>2, <1>3, <1>4, <1>5, <1>6, <1>7, <1>8, <1>9, <1>10, <1>11, <1>12
  DEF Next, Process, Judge, Deliver

LEMMA MetricsInit == Init => MetricsInv
<1>. SUFFICES ASSUME Init PROVE MetricsInv
  OBVIOUS
<1>1. \A F : Fated(F) = {}
  BY DEF Init, Fated
<1>2. \A Q \in {{"judge", "send"}, {"send"}} : At(Q) = {}
  BY DEF Init, At
<1>3. IsFiniteSet({}) /\ Cardinality({}) = 0
  BY FS_EmptySet
<1>4. At({"judge", "send"}) = {} /\ At({"send"}) = {}
  BY <1>2
<1>5. Finite
  BY <1>1, <1>3, <1>4 DEF Finite
<1>6. metrics.processed = 0 /\ metrics.errors = 0 /\ metrics.success = 0
  BY DEF Init, Zero
<1>. QED BY <1>1, <1>3, <1>4, <1>5, <1>6 DEF MetricsInv, MetricsAgree

\* The shared counts are those of the events' fates, whatever the streams do at
\* the same time (processor.go:273-291).
THEOREM MetricsAddUp == Spec => []MetricsAgree
<1>1. MetricsInv => MetricsAgree
  BY DEF MetricsInv
<1>. QED BY <1>1, TypeCorrect, MetricsInit, MetricsNext, PTL DEF Spec

-------------------------------------------------------------------------------
(* The reports. *)

\* Whatever is a success was processed.
LEMMA SuccessProcessed ==
  ASSUME TypeOK, MetricsInv PROVE metrics.success <= metrics.processed
<1>1. Fated({"delivered", "lost"}) \subseteq Fated(Fates \ {"unhandled"})
  BY DEF Fated
<1>2. At({"send"}) \subseteq At({"judge", "send"})
  BY DEF At
<1>3. /\ Cardinality(Fated({"delivered", "lost"})) <= Cardinality(Fated(Fates \ {"unhandled"}))
      /\ Cardinality(At({"send"})) <= Cardinality(At({"judge", "send"}))
  BY <1>1, <1>2, FS_Subset DEF MetricsInv, Finite
<1>. QED BY <1>3, Cardinals DEF MetricsInv, MetricsAgree

LEMMA ReportsNext == TypeOK /\ MetricsInv /\ ReportsAgree /\ [Next]_vars => ReportsAgree'
<1>. SUFFICES ASSUME TypeOK, MetricsInv, ReportsAgree, [Next]_vars PROVE ReportsAgree'
  OBVIOUS
<1>1. /\ metrics \in [processed : Nat, errors : Nat, success : Nat]
      /\ heartbeat \in [processed : Nat, errors : Nat, success : Nat]
  BY DEF TypeOK, Counts
<1>2. CASE SendHeartbeat
  BY <1>1, <1>2, SuccessProcessed DEF SendHeartbeat, ReportsAgree, Zero
<1>3. ASSUME heartbeat' = heartbeat,
             \/ metrics' = metrics
             \/ \E c \in {"processed", "errors", "success"} : Increment(c)
      PROVE  ReportsAgree'
  <2>1. \A c \in {"processed", "errors", "success"} : metrics[c] <= metrics'[c]
    <3>1. CASE metrics' = metrics
      BY <1>1, <3>1
    <3>2. ASSUME NEW c \in {"processed", "errors", "success"}, Increment(c)
          PROVE  \A d \in {"processed", "errors", "success"} : metrics[d] <= metrics'[d]
      BY <1>1, <3>2 DEF Increment
    <3>. QED BY <1>3, <3>1, <3>2
  <2>2. metrics' \in [processed : Nat, errors : Nat, success : Nat]
    <3>1. ASSUME NEW c \in {"processed", "errors", "success"}, Increment(c)
          PROVE  metrics' \in [processed : Nat, errors : Nat, success : Nat]
      BY <1>1, <3>1 DEF Increment
    <3>. QED BY <1>1, <1>3, <3>1
  <2>3. DOMAIN Zero = {"processed", "errors", "success"}
    BY DEF Zero
  <2>4. \A c \in {"processed", "errors", "success"} :
          heartbeat[c] \in Nat /\ metrics[c] \in Nat /\ metrics'[c] \in Nat
    BY <1>1, <2>2
  <2>5. \A c \in {"processed", "errors", "success"} : heartbeat[c] <= metrics[c]
    BY <2>3 DEF ReportsAgree
  <2>8. heartbeat' = heartbeat
    BY <1>3
  <2>6. \A c \in {"processed", "errors", "success"} : heartbeat'[c] <= metrics'[c]
    BY <2>1, <2>4, <2>5, <2>8
  <2>7. heartbeat'.success <= heartbeat'.processed
    BY <2>8 DEF ReportsAgree
  <2>. QED BY <2>3, <2>6, <2>7 DEF ReportsAgree
<1>4. CASE Program
  BY <1>2, <1>3, <1>4 DEF Program, RegisterHandler, Start, Stop, StopController, Drained
<1>5. ASSUME NEW s \in Streams, Client(s) PROVE ReportsAgree'
  BY <1>3, <1>5 DEF Client, Open, CloseSend, Send, ClientEnds
<1>6. ASSUME NEW s \in Streams, Select(s) \/ Recv(s) PROVE ReportsAgree'
  BY <1>3, <1>6 DEF Select, SelectContext, SelectStop, SelectDefault, Recv, RecvEvent,
                    RecvEOF, RecvFails
<1>7. ASSUME NEW s \in Streams, HandlerNotFound(s) \/ Handle(s) \/ Finishes(s)
      PROVE  ReportsAgree'
  BY <1>3, <1>7 DEF HandlerNotFound, Handle, Finishes, HandlerReturns
<1>8. ASSUME NEW s \in Streams, CountProcessed(s) \/ Judge(s) \/ Deliver(s)
      PROVE  ReportsAgree'
  BY <1>3, <1>8 DEF CountProcessed, Judge, HandlerFailed, Filter, CountSuccess, Deliver,
                    SendOutput, SendFails
<1>9. CASE UNCHANGED vars
  BY <1>3, <1>9 DEF vars
<1>. QED BY <1>4, <1>5, <1>6, <1>7, <1>8, <1>9 DEF Next, Process

\* A heartbeat never carries counts that were not true together, nor any ahead of
\* those of the processor (controller.go:274-363).
THEOREM ReportsTrue == Spec => []ReportsAgree
<1>1. Init => ReportsAgree
  BY DEF Init, Zero, ReportsAgree
<1>. QED BY <1>1, TypeCorrect, MetricsInit, MetricsNext, ReportsNext, PTL DEF Spec
================================================================================
