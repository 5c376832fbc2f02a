--------------------------- MODULE SourceStreamProofs ---------------------------
(***************************************************************************)
(* Proofs about SourceStream, for every set of streams, every set of       *)
(* errors a producer may report and every bound: type correctness, one     *)
(* stream at a time, the cause of every status and of an unhealthy source, *)
(* the metrics, and the refinement of ExclusiveStream.                     *)
(***************************************************************************)
EXTENDS SourceStream, TallyProofs, SequenceTheorems

\* The abbreviations of tuples, expanded everywhere.
USE DEF sourceVars, contextVars, producerVars, deliveryVars, metricVars

-------------------------------------------------------------------------------
(* The invariant *)

\* The flag is set exactly as long as a stream is served, and only one is.
OneStreamInv ==
  /\ OneStream
  /\ streaming <=> \E s \in Streams : Live(s)

\* A stream has its status when its loop is left, and not before.
HasStatus(s) == pc[s] \in {"returning", "done"}
Looping(s)   == pc[s] \in {"loop", "select", "got", "sending", "sent", "counted",
                            "drained", "terminal"}

NilWaits(s) ==
  \/ \E i \in 1..Len(events[s]) : events[s][i] = "nil"
  \/ pc[s] = "got" /\ event[s] = "nil"

\* Before its producer is called a stream has nothing.
StartInv(s) ==
  /\ HasStatus(s) <=> code[s] # "none"
  /\ pc[s] \in {"idle", "start"} =>
       /\ producer[s] = "none" /\ ~closed[s] /\ events[s] = << >> /\ result[s] = << >>
       /\ said[s] = {} /\ produced[s] = 0 /\ delivered[s] = 0

\* Every event is in the channel, in the hand of the loop, or at the client.
CountInv(s) ==
  /\ closed[s] => producer[s] = "ended"
  /\ Looping(s) =>
       produced[s] = delivered[s] + Len(events[s])
                       + IF pc[s] \in {"got", "sending"} THEN 1 ELSE 0
  /\ pc[s] \in {"drained", "terminal"} => closed[s] /\ events[s] = << >>
  /\ pc[s] = "terminal" => handler = "stream"

\* What the loop can find wrong, the producer did; and while the loop has not
\* looked at all of it, nothing else is said of the producer.
SaidInv(s) ==
  /\ NilWaits(s) => "nilEvent" \in said[s]
  /\ Len(result[s]) <= 2
  /\ Len(result[s]) = 2 => "twoResults" \in said[s]
  /\ (handler = "stream" /\ closed[s] /\ result[s] = << >>) => "missingResult" \in said[s]
  /\ result[s] # << >> =>
       /\ handler = "stream"
       /\ result[s][1] = "nil" => bounded[s] \/ "unboundedEnd" \in said[s]
       /\ \/ result[s][1] \in said[s] \cup {"nil"}
          \/ derivedErr[s] # "nil" /\ pc[s] # "terminal"
  /\ handler = "stream" /\ ~HasStatus(s) =>
       \A k \in said[s] :
         \/ k = "nilEvent" /\ NilWaits(s)
         \/ result[s] # << >> /\ k = result[s][1] /\ k # "nil"
         \/ k = "missingResult" /\ closed[s] /\ result[s] = << >>
         \/ k = "twoResults" /\ Len(result[s]) = 2
         \/ k = "unboundedEnd" /\ ~bounded[s]

\* Until its stream returns, the derived context ends with the stream's own or
\* with the source.
ContextInv(s) ==
  ~HasStatus(s) =>
    /\ derivedErr[s] = "canceled" => ctxErr[s] = "canceled" \/ Stopped
    /\ derivedErr[s] = "deadline" => ctxErr[s] = "deadline"

\* Status c is justified on s, as OutcomeJustified says of the statuses given.
Fits(s, c) ==
  /\ c = "OK" /\ pc[s] = "returning" => Complete(s)
  /\ c = "Canceled" =>
       ctxErr[s] = "canceled" \/ Stopped \/ said[s] \cap {"Canceled", "canceled"} # {}
  /\ c = "DeadlineExceeded" => ctxErr[s] = "deadline" \/ "deadline" \in said[s]
  /\ c = "InvalidArgument" => "InvalidRequest" \in said[s]
  /\ c = "DataLoss" => "DataIntegrity" \in said[s]
  /\ c = "Internal" => said[s] \cap ({"Internal", "plain"} \cup Breaches) # {}

OutcomeInv(s) == Fits(s, code[s])

\* Failure k is the producer's: it reported k, or it broke its contract.
Blames(s, k) == k \in said[s] \/ (k = "plain" /\ said[s] \cap Breaches # {})

StreamInv(s) ==
  StartInv(s) /\ CountInv(s) /\ SaidInv(s) /\ ContextInv(s) /\ OutcomeInv(s)

\* The streams that failed for the source, at least and at most.
Failed  == {s \in Streams : code[s] \in {"InvalidArgument", "DataLoss", "Internal"}}
Blamed  == {s \in Streams : said[s] # {}}
Settled == {s \in Blamed : HasStatus(s)}

\* The streams that have still to raise a count are finite in number.
SumInv ==
  /\ IsFiniteSet(Units(delivered))
  /\ IsFiniteSet(At({"sent"})) /\ IsFiniteSet(At({"sent", "counted"}))
  /\ processed + Cardinality(At({"sent"})) = Total(delivered)
  /\ succeeded + Cardinality(At({"sent", "counted"})) = Total(delivered)

MetricsInv ==
  /\ SumInv
  /\ IsFiniteSet(Failed) /\ Cardinality(Failed) <= errors
  /\ IsFiniteSet(Blamed) /\ IsFiniteSet(Settled) /\ errors <= Cardinality(Settled)

-------------------------------------------------------------------------------
(* Type correctness *)

\* The places of the loop that a step can lead to when it does not return.
Onward == {"loop", "select", "sending", "drained", "terminal"}

\* Members of the sets of values, which stay abbreviated in what follows.
LEMMA Values ==
  /\ \A l \in {"idle", "start", "loop", "select", "got", "sending", "sent", "counted",
              "drained", "terminal", "returning", "done"} : l \in LoopStates
  /\ \A l \in {"loop", "select", "sending", "drained", "terminal"} : l \in Onward
  /\ \A l \in Onward : l \in LoopStates \ {"idle", "sent", "counted", "returning", "done"}
  /\ \A c \in {"OK", "InvalidArgument", "Canceled", "Unavailable", "DataLoss",
              "Internal", "DeadlineExceeded", "Unknown"} : c \in Codes
  /\ "none" \notin Codes
  /\ \A e : e \in CtxErrors <=> e \in {"canceled", "deadline"}
  /\ \A k \in CtxErrors \cup {"plain", "DownstreamUnavailable"} : k \in ErrorKinds
  /\ "nil" \notin ErrorKinds
  /\ \A b \in {"incomplete", "nilEvent", "missingResult", "twoResults",
              "unboundedEnd"} : b \in Breaches
  /\ ErrorKinds \cap Breaches = {}
BY DEF LoopStates, Onward, Codes, CtxErrors, Classified, ErrorKinds, Breaches

\* streamStatus, case by case.
LEMMA StatusCases ==
  ASSUME NEW k
  PROVE  /\ k = "InvalidRequest" => StatusOf(k) = "InvalidArgument"
         /\ k \in {"Canceled", "canceled"} => StatusOf(k) = "Canceled"
         /\ k \in {"UpstreamUnavailable", "DownstreamUnavailable"} =>
              StatusOf(k) = "Unavailable"
         /\ k = "DataIntegrity" => StatusOf(k) = "DataLoss"
         /\ k = "deadline" => StatusOf(k) = "DeadlineExceeded"
         /\ k \notin {"InvalidRequest", "Canceled", "canceled", "UpstreamUnavailable",
                      "DownstreamUnavailable", "DataIntegrity", "deadline"} =>
              StatusOf(k) = "Internal"
BY Zenon DEF StatusOf

LEMMA StatusType ==
  /\ \A k : StatusOf(k) \in Codes
  /\ \A e : CtxStatus(e) \in Codes
<1>1. ASSUME NEW k PROVE StatusOf(k) \in Codes
  <2>1. StatusOf(k) \in {"InvalidArgument", "Canceled", "Unavailable", "DataLoss",
                        "DeadlineExceeded", "Internal"}
    BY StatusCases
  <2>. QED BY <2>1, Values
<1>2. ASSUME NEW e PROVE CtxStatus(e) \in Codes
  BY Values DEF CtxStatus
<1>. QED BY <1>1, <1>2

LEMMA ClientType ==
  ASSUME TypeOK, NEW s \in Streams, Client(s) \/ Watch(s) PROVE TypeOK'
<1>1. CASE Admit(s)
  <2>1. watching' \in [Streams -> BOOLEAN]
    BY <1>1 DEF Admit, TypeOK
  <2>. QED BY <1>1, <2>1, Values DEF Admit, TypeOK
<1>2. CASE Reject(s)
  BY <1>2, Values DEF Reject, TypeOK
<1>3. ASSUME NEW e \in CtxErrors, ClientEnds(s, e) PROVE TypeOK'
  BY <1>3 DEF ClientEnds, TypeOK
<1>4. CASE Watch(s)
  BY <1>4, Values DEF Watch, TypeOK
<1>. QED BY <1>1, <1>2, <1>3, <1>4 DEF Client

LEMMA SendResultType ==
  ASSUME TypeOK, NEW s \in Streams, NEW r \in {"nil"} \cup ErrorKinds,
         NEW what \in SUBSET (ErrorKinds \cup Breaches), SendResult(s, r, what)
  PROVE  TypeOK'
<1>1. result' \in [Streams -> Seq({"nil"} \cup ErrorKinds)]
  BY DEF SendResult, TypeOK
<1>. QED BY <1>1 DEF SendResult, TypeOK

LEMMA ProducerType ==
  ASSUME TypeOK, NEW s \in Streams, Producer(s) PROVE TypeOK'
<1>1. ASSUME NEW e \in {"event", "nil"}, Produce(s, e) PROVE TypeOK'
  <2>1. /\ events' \in [Streams -> Seq({"event", "nil"})]
        /\ \A q \in Streams : Len(events'[q]) <= BufferSize
    BY <1>1, SourceAssumption DEF Produce, TypeOK
  <2>2. produced' \in [Streams -> Nat]
    BY <1>1 DEF Produce, TypeOK
  <2>3. said' \in [Streams -> SUBSET (ErrorKinds \cup Breaches)]
    BY <1>1, Values DEF Produce, TypeOK
  <2>. QED BY <1>1, <2>1, <2>2, <2>3 DEF Produce, TypeOK
<1>2. CASE Succeed(s)
  <2>1. (IF bounded[s] THEN {} ELSE {"unboundedEnd"}) \in SUBSET (ErrorKinds \cup Breaches)
    BY Values
  <2>. QED BY <1>2, <2>1, SendResultType DEF Succeed
<1>3. ASSUME NEW k \in Kinds, Fail(s, k) PROVE TypeOK'
  BY <1>3, SendResultType, SourceAssumption DEF Fail
<1>4. CASE ReportCancel(s)
  <2>1. ProducerCtxErr(s) \in ErrorKinds
    BY <1>4, Values DEF ReportCancel, ProducerCtxErr, TypeOK
  <2>. QED BY <1>4, <2>1, SendResultType DEF ReportCancel
<1>5. CASE SendSecondResult(s)
  <2>1. result' \in [Streams -> Seq({"nil"} \cup ErrorKinds)]
    BY <1>5 DEF SendSecondResult, TypeOK
  <2>2. said' \in [Streams -> SUBSET (ErrorKinds \cup Breaches)]
    BY <1>5, Values DEF SendSecondResult, TypeOK
  <2>. QED BY <1>5, <2>1, <2>2 DEF SendSecondResult, TypeOK
<1>6. CASE CloseEvents(s)
  <2>1. said' \in [Streams -> SUBSET (ErrorKinds \cup Breaches)]
    BY <1>6, Values DEF CloseEvents, TypeOK
  <2>. QED BY <1>6, <2>1 DEF CloseEvents, TypeOK
<1>. QED BY <1>1, <1>2, <1>3, <1>4, <1>5, <1>6 DEF Producer

\* What a step of the loop does that takes nothing from the channel: it returns,
\* with or without failing the source, or it goes on.
Ends(s) == \/ \E c \in Codes : ReturnUnfailed(s, c)
           \/ \E k \in ErrorKinds : FailStream(s, k)

LEMMA EndsType ==
  ASSUME TypeOK, NEW s \in Streams, Ends(s) \/ \E l \in Onward : Goto(s, l),
         UNCHANGED <<events, closed, result, produced>>,
         producer' \in [Streams -> {"none", "running", "ended"}],
         bounded' \in [Streams -> BOOLEAN],
         said' \in [Streams -> SUBSET (ErrorKinds \cup Breaches)]
  PROVE  TypeOK'
<1>1. "returning" \in LoopStates
  BY Values
<1>2. ASSUME NEW c \in Codes, ReturnUnfailed(s, c) PROVE TypeOK'
  BY <1>1, <1>2 DEF ReturnUnfailed, ReturnWith, TypeOK
<1>3. ASSUME NEW k \in ErrorKinds, FailStream(s, k) PROVE TypeOK'
  <2>1. StatusOf(k) \in Codes
    BY StatusType
  <2>2. health' \in {"STARTING", "HEALTHY", "UNHEALTHY", "STOPPING"}
    BY <1>3 DEF FailStream, TypeOK
  <2>3. code' \in [Streams -> {"none"} \cup Codes] /\ pc' \in [Streams -> LoopStates]
    BY <1>1, <1>3, <2>1 DEF FailStream, ReturnWith, TypeOK
  <2>. QED BY <1>3, <2>2, <2>3 DEF FailStream, TypeOK
<1>4. ASSUME NEW l \in Onward, Goto(s, l) PROVE TypeOK'
  BY <1>4, Values DEF Goto, TypeOK
<1>. QED BY <1>2, <1>3, <1>4 DEF Ends

\* The steps of the loop that are written by case, case by case.
LEMMA StartFailsCases ==
  ASSUME NEW s, NEW k, StartFails(s, k)
  PROVE  /\ handler = "legacy" =>
              ReturnUnfailed(s, IF k \in CtxErrors THEN CtxStatus(k) ELSE "Unknown")
         /\ handler = "stream" /\ derivedErr[s] # "nil" =>
              ReturnUnfailed(s, CtxStatus(derivedErr[s]))
         /\ handler = "stream" /\ derivedErr[s] = "nil" =>
              FailStream(s, IF k = "incomplete" THEN "plain" ELSE k)
BY Zenon DEF StartFails

LEMMA CheckEventCases ==
  ASSUME NEW s, CheckEvent(s)
  PROVE  /\ handler = "stream" /\ derivedErr[s] # "nil" =>
              ReturnUnfailed(s, CtxStatus(derivedErr[s]))
         /\ handler = "stream" /\ derivedErr[s] = "nil" /\ event[s] = "nil" =>
              FailStream(s, "plain")
         /\ handler = "legacy" \/ (derivedErr[s] = "nil" /\ event[s] # "nil") =>
              Goto(s, "sending")
BY Zenon DEF CheckEvent

LEMMA CheckDrainedCases ==
  ASSUME NEW s, CheckDrained(s)
  PROVE  /\ handler = "legacy" => ReturnUnfailed(s, "OK")
         /\ handler = "stream" /\ derivedErr[s] # "nil" =>
              ReturnUnfailed(s, CtxStatus(derivedErr[s]))
         /\ handler = "stream" /\ derivedErr[s] = "nil" => Goto(s, "terminal")
BY Zenon DEF CheckDrained

LEMMA TerminalCases ==
  ASSUME NEW s, Terminal(s)
  PROVE  /\ Len(result[s]) # 1 => FailStream(s, "plain")
         /\ Len(result[s]) = 1 /\ result[s][1] = "nil" =>
              IF bounded[s] THEN ReturnUnfailed(s, "OK") ELSE FailStream(s, "plain")
         /\ Len(result[s]) = 1 /\ result[s][1] = "canceled" /\ derivedErr[s] # "nil" =>
              ReturnUnfailed(s, CtxStatus(derivedErr[s]))
         /\ /\ Len(result[s]) = 1 /\ result[s][1] # "nil"
            /\ result[s][1] # "canceled" \/ derivedErr[s] = "nil"
            => FailStream(s, result[s][1])
BY Zenon DEF Terminal

\* What is counted of an event that was sent.
Counts(s) == CountProcessed(s) \/ CountSuccess(s)

LEMMA CountsFrame ==
  ASSUME TypeOK, NEW s \in Streams, Counts(s)
  PROVE  /\ pc[s] \in {"sent", "counted"} /\ pc'[s] \in {"counted", "loop"}
         /\ \A t \in Streams \ {s} : pc'[t] = pc[t]
         /\ UNCHANGED <<sourceVars, contextVars, producerVars, deliveryVars, code, errors>>
BY DEF Counts, CountProcessed, CountSuccess, TypeOK

LEMMA LoopSteps ==
  ASSUME TypeOK, NEW s \in Streams, Loop(s)
  PROVE  \/ SelectEvent(s) \/ Counts(s) \/ CancelDerived(s) \/ Release(s)
         \/ /\ pc[s] \notin {"idle", "sent", "counted", "returning", "done"}
            /\ Ends(s) \/ \E l \in Onward : Goto(s, l)
            /\ \/ StartProducer(s)
               \/ StartFailure(s)
               \/ UNCHANGED producerVars
<1>. DEFINE Moves == Ends(s) \/ \E l \in Onward : Goto(s, l)
<1>1. CASE StartProducer(s)
  BY <1>1, StatusType, Values DEF StartProducer, Ends
<1>2. ASSUME NEW k \in Kinds \cup {"incomplete"}, StartFails(s, k)
      PROVE  pc[s] = "start" /\ Ends(s)
  <2>1. (IF k = "incomplete" THEN "plain" ELSE k) \in ErrorKinds
    BY Values, SourceAssumption
  <2>2. (IF k \in CtxErrors THEN CtxStatus(k) ELSE "Unknown") \in Codes
    BY StatusType, Values
  <2>3. pc[s] = "start"
    BY <1>2, Zenon DEF StartFails
  <2>. QED BY <1>2, <2>1, <2>2, <2>3, StartFailsCases, StatusType DEF Ends, TypeOK
<1>3. CASE CheckContext(s)
  BY <1>3, StatusType, Values DEF CheckContext, Ends
<1>4. CASE SelectContext(s)
  BY <1>4, StatusType DEF SelectContext, Ends
<1>5. CASE SelectStop(s)
  BY <1>5, Values DEF SelectStop, Ends
<1>6. CASE SelectClosed(s)
  BY <1>6, Values DEF SelectClosed
<1>7. CASE CheckEvent(s)
  <2>1. UNCHANGED producerVars /\ pc[s] = "got"
    BY <1>7, Zenon DEF CheckEvent
  <2>2. Moves
    <3>1. handler \in {"legacy", "stream"} /\ "sending" \in Onward
          /\ "plain" \in ErrorKinds
      BY Values DEF TypeOK
    <3>2. CtxStatus(derivedErr[s]) \in Codes
      BY StatusType
    <3>. QED BY <1>7, <3>1, <3>2, CheckEventCases, Zenon DEF Ends
  <2>. QED BY <2>1, <2>2
<1>8. CASE CheckDrained(s)
  <2>1. UNCHANGED producerVars /\ pc[s] = "drained"
    BY <1>8, Zenon DEF CheckDrained
  <2>. QED BY <1>8, <2>1, CheckDrainedCases, StatusType, Values DEF Ends, TypeOK
<1>9. CASE Terminal(s)
  <2>1. UNCHANGED producerVars /\ pc[s] = "terminal"
    BY <1>9, Zenon DEF Terminal
  <2>2. Len(result[s]) = 1 /\ result[s][1] # "nil" => result[s][1] \in ErrorKinds
    <3>1. result[s] \in Seq({"nil"} \cup ErrorKinds)
      BY DEF TypeOK
    <3>. QED BY <3>1
  <2>3. Ends(s)
    BY <1>9, <2>2, TerminalCases, StatusType, Values DEF Ends
  <2>. QED BY <2>1, <2>3
<1>. QED
  BY <1>1, <1>2, <1>3, <1>4, <1>5, <1>6, <1>7, <1>8, <1>9
     DEF Loop, StartFailure, Counts

LEMMA LoopType ==
  ASSUME TypeOK, NEW s \in Streams, Loop(s) PROVE TypeOK'
<1>1. ASSUME Ends(s) \/ \E l \in Onward : Goto(s, l), StartProducer(s)
      PROVE  TypeOK'
  <2>1. /\ producer' \in [Streams -> {"none", "running", "ended"}]
        /\ bounded' \in [Streams -> BOOLEAN]
    BY <1>1 DEF StartProducer, TypeOK
  <2>2. UNCHANGED <<events, closed, result, said, produced>>
    BY <1>1 DEF StartProducer
  <2>3. said' \in [Streams -> SUBSET (ErrorKinds \cup Breaches)]
    BY <2>2 DEF TypeOK
  <2>. QED BY <1>1, <2>1, <2>2, <2>3, EndsType
<1>2. ASSUME Ends(s) \/ \E l \in Onward : Goto(s, l),
             NEW k \in Kinds \cup {"incomplete"}, StartFails(s, k)
      PROVE  TypeOK'
  <2>1. k \in ErrorKinds \cup Breaches
    BY Values, SourceAssumption
  <2>2. said' = [said EXCEPT ![s] = IF k = ProducerCtxErr(s) THEN @ ELSE @ \cup {k}]
        /\ UNCHANGED <<producer, bounded, events, closed, result, produced>>
    BY <1>2, Zenon DEF StartFails
  <2>3. said' \in [Streams -> SUBSET (ErrorKinds \cup Breaches)]
    BY <2>1, <2>2 DEF TypeOK
  <2>. QED BY <1>2, <2>2, <2>3, EndsType DEF TypeOK
<1>3. ASSUME Ends(s) \/ \E l \in Onward : Goto(s, l), UNCHANGED producerVars
      PROVE  TypeOK'
  BY <1>3, EndsType DEF TypeOK
<1>4. CASE SelectEvent(s)
  <2>1. /\ events[s] \in Seq({"event", "nil"}) /\ events[s] # << >>
        /\ Head(events[s]) \in {"event", "nil"} /\ Tail(events[s]) \in Seq({"event", "nil"})
        /\ Len(Tail(events[s])) <= BufferSize
    BY <1>4, SourceAssumption DEF SelectEvent, TypeOK
  <2>. QED BY <1>4, <2>1, Values DEF SelectEvent, TypeOK
<1>5. CASE CancelDerived(s)
  BY <1>5, Values DEF CancelDerived, TypeOK
<1>6. CASE Release(s)
  <2>1. Len(<< >>) <= BufferSize /\ << >> \in Seq({"event", "nil"})
        /\ << >> \in Seq({"nil"} \cup ErrorKinds)
    BY SourceAssumption
  <2>2. /\ events' \in [Streams -> Seq({"event", "nil"})]
        /\ \A q \in Streams : Len(events'[q]) <= BufferSize
    BY <1>6, <2>1 DEF Release, Forget, TypeOK
  <2>3. result' \in [Streams -> Seq({"nil"} \cup ErrorKinds)]
    BY <1>6, <2>1 DEF Release, Forget, TypeOK
  <2>. QED BY <1>6, <2>2, <2>3, Values DEF Release, Forget, TypeOK
<1>7. CASE Counts(s)
  <2>1. processed' \in Nat /\ succeeded' \in Nat
    BY <1>7 DEF Counts, CountProcessed, CountSuccess, TypeOK
  <2>2. pc' \in [Streams -> LoopStates]
    <3>1. PICK l \in LoopStates : pc' = [pc EXCEPT ![s] = l]
      BY <1>7 DEF Counts, CountProcessed, CountSuccess, LoopStates
    <3>. QED BY <3>1 DEF TypeOK
  <2>3. UNCHANGED <<handler, phase, health, streaming, ctxErr, derivedErr, watching>>
    BY <1>7, CountsFrame
  <2>4. UNCHANGED <<producer, bounded, events, closed, result, said, produced, event,
                    delivered, code, errors>>
    BY <1>7, CountsFrame
  <2>. QED BY <2>1, <2>2, <2>3, <2>4 DEF TypeOK
<1>. QED BY <1>1, <1>2, <1>3, <1>4, <1>5, <1>6, <1>7, LoopSteps DEF StartFailure

LEMMA TypeNext == TypeOK /\ [Next]_vars => TypeOK'
<1>. SUFFICES ASSUME TypeOK, [Next]_vars PROVE TypeOK'
  OBVIOUS
<1>1. ASSUME NEW s \in Streams, Sent(s) PROVE TypeOK'
  <2>1. delivered' \in [Streams -> Nat]
    BY <1>1 DEF Sent, TypeOK
  <2>. QED BY <1>1, <2>1, Values DEF Sent, TypeOK
<1>2. ASSUME NEW s \in Streams, SendFails(s) PROVE TypeOK'
  <2>1. \E c \in Codes : ReturnUnfailed(s, c)
    BY <1>2, StatusType, Values DEF SendFails, TypeOK
  <2>. QED BY <1>2, <2>1, EndsType DEF SendFails, Ends, TypeOK
<1>3. CASE Started \/ Stop \/ Shutdown
  BY <1>3 DEF Started, Stop, Shutdown, StopHealth, BeginDrain, Drained, TypeOK
<1>4. CASE UNCHANGED vars
  BY <1>4 DEF vars, TypeOK
<1>. QED BY <1>1, <1>2, <1>3, <1>4, ClientType, ProducerType, LoopType DEF Next

\* Every variable keeps its type, and no channel holds more than its capacity.
THEOREM TypeCorrect == Spec => []TypeOK
<1>1. Init => TypeOK
  <2>. SUFFICES ASSUME Init PROVE TypeOK
    OBVIOUS
  <2>1. /\ handler \in {"legacy", "stream"}
        /\ phase \in {"starting", "up", "signalled", "stopping", "draining", "stopped"}
        /\ health \in {"STARTING", "HEALTHY", "UNHEALTHY", "STOPPING"}
        /\ streaming \in BOOLEAN
        /\ processed \in Nat /\ succeeded \in Nat /\ errors \in Nat
    BY DEF Init
  <2>2. /\ ctxErr \in [Streams -> {"nil"} \cup CtxErrors]
        /\ derivedErr \in [Streams -> {"nil"} \cup CtxErrors]
        /\ watching \in [Streams -> BOOLEAN]
    BY DEF Init
  <2>3. /\ producer \in [Streams -> {"none", "running", "ended"}]
        /\ bounded \in [Streams -> BOOLEAN] /\ closed \in [Streams -> BOOLEAN]
        /\ event \in [Streams -> {"none", "event", "nil"}]
        /\ said \in [Streams -> SUBSET (ErrorKinds \cup Breaches)]
        /\ produced \in [Streams -> Nat] /\ delivered \in [Streams -> Nat]
    BY DEF Init
  <2>4. /\ events \in [Streams -> Seq({"event", "nil"})]
        /\ \A s \in Streams : Len(events[s]) <= BufferSize
        /\ result \in [Streams -> Seq({"nil"} \cup ErrorKinds)]
    BY SourceAssumption DEF Init
  <2>5. /\ pc \in [Streams -> LoopStates]
        /\ code \in [Streams -> {"none"} \cup Codes]
    BY Values DEF Init
  <2>. QED BY <2>1, <2>2, <2>3, <2>4, <2>5 DEF TypeOK
<1>. QED BY <1>1, TypeNext, PTL DEF Spec

-------------------------------------------------------------------------------
(* One stream at a time *)

\* A stream is taken up by Admit only, and the flag is cleared by Release only.
LEMMA NoneAdmitted ==
  ASSUME TypeOK, [Next]_vars,
         \A s \in Streams : ~Admit(s) /\ ~Release(s)
  PROVE  streaming' = streaming /\ \A t \in Streams : Live(t)' <=> Live(t)
<1>. DEFINE Quiet == streaming' = streaming /\ \A t \in Streams : Live(t)' <=> Live(t)
<1>1. ASSUME NEW s \in Streams, Client(s) PROVE Quiet
  BY <1>1 DEF Client, Reject, ClientEnds, Live, TypeOK
<1>2. ASSUME NEW s \in Streams, Watch(s) \/ Producer(s) PROVE Quiet
  BY <1>2 DEF Watch, Producer, Produce, Succeed, Fail, ReportCancel, SendResult,
              SendSecondResult, CloseEvents, Live
<1>3. ASSUME NEW s \in Streams, pc[s] \notin {"idle", "done"},
             Ends(s) \/ \E l \in Onward : Goto(s, l)
      PROVE  Quiet
  BY <1>3, Values DEF Ends, ReturnUnfailed, FailStream, ReturnWith, Goto, Live, TypeOK
<1>4. ASSUME NEW s \in Streams, Loop(s) PROVE Quiet
  <2>1. CASE SelectEvent(s) \/ CancelDerived(s)
    BY <2>1 DEF SelectEvent, CancelDerived, Live, TypeOK
  <2>2. CASE Counts(s)
    BY <2>2, CountsFrame DEF Live
  <2>. QED BY <1>3, <1>4, <2>1, <2>2, LoopSteps
<1>5. ASSUME NEW s \in Streams, Sent(s) \/ SendFails(s) PROVE Quiet
  BY <1>5 DEF Sent, SendFails, ReturnUnfailed, ReturnWith, Live, TypeOK
<1>6. CASE Started \/ Stop \/ Shutdown
  BY <1>6 DEF Started, Stop, Shutdown, StopHealth, BeginDrain, Drained, Live
<1>7. CASE UNCHANGED vars
  BY <1>7 DEF vars, Live
<1>. QED BY <1>1, <1>2, <1>4, <1>5, <1>6, <1>7 DEF Next

LEMMA OneStreamNext ==
  ASSUME TypeOK, OneStreamInv, [Next]_vars PROVE OneStreamInv'
<1>1. ASSUME NEW s \in Streams, Admit(s) PROVE OneStreamInv'
  <2>1. \A t \in Streams : ~Live(t)
    BY <1>1 DEF Admit, OneStreamInv
  <2>2. streaming' = TRUE /\ \A t \in Streams : Live(t)' <=> t = s
    BY <1>1, <2>1 DEF Admit, Live, TypeOK
  <2>. QED BY <2>2 DEF OneStreamInv, OneStream
<1>2. ASSUME NEW s \in Streams, Release(s) PROVE OneStreamInv'
  <2>1. \A t \in Streams : Live(t) => t = s
    BY <1>2 DEF Release, OneStreamInv, OneStream, Live
  <2>2. streaming' = FALSE /\ \A t \in Streams : ~Live(t)'
    BY <1>2, <2>1 DEF Release, Live, TypeOK
  <2>. QED BY <2>2 DEF OneStreamInv, OneStream
<1>3. CASE \A s \in Streams : ~Admit(s) /\ ~Release(s)
  <2>1. streaming' = streaming /\ \A t \in Streams : Live(t)' <=> Live(t)
    BY <1>3, NoneAdmitted
  <2>. QED BY <2>1 DEF OneStreamInv, OneStream
<1>. QED BY <1>1, <1>2, <1>3

LEMMA OneStreamInvariant == Spec => []OneStreamInv
<1>1. Init => OneStreamInv
  BY DEF Init, OneStreamInv, OneStream, Live
<1>2. TypeOK /\ OneStreamInv /\ [Next]_vars => OneStreamInv'
  BY OneStreamNext
<1>. QED BY <1>1, <1>2, TypeCorrect, PTL DEF Spec

\* At most one stream is served at a time, from its admission until its watcher
\* has ended: streaming is tested and set under one lock, and cleared last
\* (source.go:259-273, 330).
THEOREM OneStreamServed == Spec => []OneStream
<1>1. OneStreamInv => OneStream
  BY DEF OneStreamInv
<1>. QED BY <1>1, OneStreamInvariant, PTL

-------------------------------------------------------------------------------
(* The invariant of a stream: the steps of the other streams and of the source *)

Same(t) ==
  /\ ctxErr'[t] = ctxErr[t] /\ derivedErr'[t] = derivedErr[t] /\ pc'[t] = pc[t]
  /\ producer'[t] = producer[t] /\ bounded'[t] = bounded[t]
  /\ events'[t] = events[t] /\ event'[t] = event[t] /\ closed'[t] = closed[t]
  /\ result'[t] = result[t] /\ said'[t] = said[t] /\ produced'[t] = produced[t]
  /\ delivered'[t] = delivered[t] /\ code'[t] = code[t]

\* Only the streams of a step change in it; the registered producer stays, and
\* stopCh stays closed.
StreamStep(s) ==
  Client(s) \/ Watch(s) \/ Producer(s) \/ Loop(s) \/ Sent(s) \/ SendFails(s)

LEMMA StepFrame ==
  ASSUME TypeOK, NEW s \in Streams, StreamStep(s)
  PROVE  /\ handler' = handler /\ phase' = phase
         /\ \A t \in Streams \ {s} : Same(t)
         /\ said[s] \subseteq said'[s]
         /\ HasStatus(s) => HasStatus(s)'
<1>. DEFINE Framed == /\ handler' = handler /\ phase' = phase
                      /\ \A t \in Streams \ {s} : Same(t)
                      /\ said[s] \subseteq said'[s]
                      /\ HasStatus(s) => HasStatus(s)'
<1>1. CASE Client(s) \/ Watch(s)
  BY <1>1 DEF Client, Admit, Reject, ClientEnds, Watch, Same, HasStatus, TypeOK
<1>2. CASE Producer(s)
  BY <1>2 DEF Producer, Produce, Succeed, Fail, ReportCancel, SendResult,
              SendSecondResult, CloseEvents, Same, HasStatus, TypeOK
<1>3. CASE Sent(s) \/ SelectEvent(s) \/ CancelDerived(s) \/ Release(s)
  BY <1>3 DEF Sent, SelectEvent, CancelDerived, Release, Forget, Same, HasStatus, TypeOK
<1>4. ASSUME Ends(s) \/ \E l \in Onward : Goto(s, l), UNCHANGED producerVars,
             ~HasStatus(s)
      PROVE  Framed
  BY <1>4 DEF Ends, ReturnUnfailed, FailStream, ReturnWith, Goto, Same, HasStatus, TypeOK
<1>5. CASE SendFails(s)
  <2>1. Ends(s) /\ UNCHANGED producerVars /\ ~HasStatus(s)
    BY <1>5, StatusType, Values DEF SendFails, Ends, HasStatus, TypeOK
  <2>. QED BY <1>4, <2>1
<1>6. CASE StartProducer(s)
  BY <1>6 DEF StartProducer, ReturnUnfailed, ReturnWith, Goto, Same, HasStatus, TypeOK
<1>7. ASSUME NEW k, StartFails(s, k), Ends(s) \/ \E l \in Onward : Goto(s, l)
      PROVE  Framed
  <2>1. /\ said' = [said EXCEPT ![s] = IF k = ProducerCtxErr(s) THEN @ ELSE @ \cup {k}]
        /\ UNCHANGED <<producer, bounded, events, closed, result, produced>>
        /\ pc[s] = "start"
    BY <1>7, Zenon DEF StartFails
  <2>. QED
    BY <1>7, <2>1
       DEF Ends, ReturnUnfailed, FailStream, ReturnWith, Goto, Same, HasStatus, TypeOK
<1>8. CASE Loop(s)
  <2>1. CASE Counts(s)
    BY <2>1, CountsFrame DEF Same, HasStatus
  <2>. QED BY <1>3, <1>4, <1>6, <1>7, <1>8, <2>1, LoopSteps DEF StartFailure, HasStatus
<1>. QED BY <1>1, <1>2, <1>3, <1>5, <1>8 DEF StreamStep

LEMMA SameInv ==
  ASSUME NEW t, StreamInv(t), Same(t), handler' = handler, Stopped => Stopped'
  PROVE  StreamInv(t)'
<1>1. StartInv(t)' /\ CountInv(t)' /\ ContextInv(t)' /\ OutcomeInv(t)'
  BY DEF StreamInv, Same, StartInv, CountInv, ContextInv, OutcomeInv, Fits, Complete,
         HasStatus, Looping
<1>2. SaidInv(t)'
  BY DEF StreamInv, Same, SaidInv, NilWaits, HasStatus
<1>. QED BY <1>1, <1>2 DEF StreamInv

-------------------------------------------------------------------------------
(* The causes of a return *)

Returns(s) ==
  \/ \E c \in Codes \ {"InvalidArgument", "DataLoss", "Internal"} :
       ReturnUnfailed(s, c) /\ Fits(s, c)'
  \/ \E k \in ErrorKinds : FailStream(s, k) /\ Blames(s, k)'

\* The status of a context that ended fits the cause of its end.
LEMMA ContextFits ==
  ASSUME NEW s, NEW e \in CtxErrors, ReturnUnfailed(s, CtxStatus(e)),
         e = "canceled" => ctxErr'[s] = "canceled" \/ Stopped' \/ "canceled" \in said'[s],
         e = "deadline" => ctxErr'[s] = "deadline" \/ "deadline" \in said'[s]
  PROVE  Returns(s)
<1>1. CASE e = "canceled"
  <2>1. CtxStatus(e) = "Canceled"
    BY <1>1 DEF CtxStatus
  <2>2. Fits(s, "Canceled")'
    BY <1>1 DEF Fits
  <2>3. "Canceled" \in Codes \ {"InvalidArgument", "DataLoss", "Internal"}
    BY Values
  <2>. QED BY <2>1, <2>2, <2>3 DEF Returns
<1>2. CASE e = "deadline"
  <2>1. CtxStatus(e) = "DeadlineExceeded"
    BY <1>2 DEF CtxStatus
  <2>2. Fits(s, "DeadlineExceeded")'
    BY <1>2 DEF Fits
  <2>3. "DeadlineExceeded" \in Codes \ {"InvalidArgument", "DataLoss", "Internal"}
    BY Values
  <2>. QED BY <2>1, <2>2, <2>3 DEF Returns
<1>. QED BY <1>1, <1>2, Values

\* The derived context, and the context the producer was given, end for a cause.
LEMMA DerivedFits ==
  ASSUME TypeOK, NEW s \in Streams, StreamInv(s), ~HasStatus(s), derivedErr[s] # "nil",
         ReturnUnfailed(s, CtxStatus(derivedErr[s]))
  PROVE  Returns(s)
<1>1. PICK e \in CtxErrors : e = derivedErr[s]
  BY DEF TypeOK
<1>2. /\ e = "canceled" => ctxErr[s] = "canceled" \/ Stopped
      /\ e = "deadline" => ctxErr[s] = "deadline"
  BY <1>1 DEF StreamInv, ContextInv
<1>3. UNCHANGED <<ctxErr, phase>>
  BY DEF ReturnUnfailed
<1>. QED BY <1>1, <1>2, <1>3, ContextFits DEF Stopped

LEMMA OwnFits ==
  ASSUME TypeOK, NEW s \in Streams, ctxErr[s] # "nil",
         ReturnUnfailed(s, CtxStatus(ctxErr[s]))
  PROVE  Returns(s)
<1>1. PICK e \in CtxErrors : e = ctxErr[s]
  BY DEF TypeOK
<1>2. UNCHANGED ctxErr
  BY DEF ReturnUnfailed
<1>. QED BY <1>1, <1>2, ContextFits

LEMMA StartFailsReturns ==
  ASSUME TypeOK, NEW s \in Streams, StreamInv(s),
         NEW k \in Kinds \cup {"incomplete"}, StartFails(s, k)
  PROVE  Returns(s)
<1>1. /\ pc[s] = "start"
      /\ said' = [said EXCEPT ![s] = IF k = ProducerCtxErr(s) THEN @ ELSE @ \cup {k}]
  BY Zenon DEF StartFails
<1>2. k = ProducerCtxErr(s) \/ k \in said'[s]
  BY <1>1 DEF TypeOK
<1>3. CASE handler = "legacy" /\ k \in CtxErrors
  <2>1. ReturnUnfailed(s, CtxStatus(k))
    BY <1>3, StartFailsCases
  <2>2. UNCHANGED ctxErr
    BY <2>1 DEF ReturnUnfailed
  <2>. QED BY <1>2, <1>3, <2>1, <2>2, ContextFits DEF ProducerCtxErr
<1>4. CASE handler = "legacy" /\ k \notin CtxErrors
  <2>1. ReturnUnfailed(s, "Unknown")
    BY <1>4, StartFailsCases
  <2>. QED BY <2>1, Values DEF Returns, Fits
<1>5. CASE handler = "stream" /\ derivedErr[s] # "nil"
  <2>1. ReturnUnfailed(s, CtxStatus(derivedErr[s]))
    BY <1>5, StartFailsCases
  <2>. QED BY <1>1, <1>5, <2>1, DerivedFits DEF HasStatus
<1>6. CASE handler = "stream" /\ derivedErr[s] = "nil"
  <2>1. PICK j : j = (IF k = "incomplete" THEN "plain" ELSE k)
    OBVIOUS
  <2>2. FailStream(s, j) /\ j \in ErrorKinds
    BY <1>6, <2>1, StartFailsCases, Values, SourceAssumption
  <2>3. k \in said'[s]
    BY <1>2, <1>6, Values, SourceAssumption DEF ProducerCtxErr
  <2>4. Blames(s, j)'
    BY <2>1, <2>3, Values DEF Blames
  <2>. QED BY <2>2, <2>4 DEF Returns
<1>. QED BY <1>3, <1>4, <1>5, <1>6 DEF TypeOK

\* What the producer left when Events was closed: one result, or a breach.
LEMMA TerminalReturns ==
  ASSUME TypeOK, NEW s \in Streams, StreamInv(s), Terminal(s)
  PROVE  Returns(s)
<1>1. /\ pc[s] = "terminal" /\ handler = "stream" /\ closed[s] /\ events[s] = << >>
      /\ ~HasStatus(s) /\ ~NilWaits(s) /\ UNCHANGED said
  <2>1. pc[s] = "terminal" /\ UNCHANGED said
    BY Zenon DEF Terminal
  <2>. QED BY <2>1 DEF StreamInv, CountInv, HasStatus, NilWaits
<1>2. result[s] \in Seq({"nil"} \cup ErrorKinds) /\ Len(result[s]) <= 2
  BY DEF TypeOK, StreamInv, SaidInv
<1>3. ASSUME FailStream(s, "plain"), NEW b \in Breaches, b \in said[s] PROVE Returns(s)
  <2>1. Blames(s, "plain")'
    BY <1>1, <1>3 DEF Blames
  <2>. QED BY <1>3, <2>1, Values DEF Returns
<1>4. CASE Len(result[s]) # 1
  <2>1. result[s] = << >> => "missingResult" \in said[s]
    BY <1>1 DEF StreamInv, SaidInv
  <2>2. Len(result[s]) = 2 => "twoResults" \in said[s]
    BY DEF StreamInv, SaidInv
  <2>3. result[s] = << >> \/ Len(result[s]) = 2
    <3>1. result[s] # << >> => Len(result[s]) \in Nat \ {0}
      BY <1>2, EmptySeq
    <3>2. PICK n \in Nat : n = Len(result[s])
      BY <1>2
    <3>3. n # 1 /\ n <= 2
      BY <1>2, <1>4, <3>2
    <3>4. n = 0 \/ n = 2
      BY <3>3
    <3>. QED BY <3>1, <3>2, <3>4
  <2>. QED BY <1>3, <1>4, <2>1, <2>2, <2>3, TerminalCases, Values
<1>5. CASE Len(result[s]) = 1 /\ result[s][1] = "nil"
  <2>1. CASE bounded[s]
    <3>1. said[s] = {}
      BY <1>1, <1>5, <2>1 DEF StreamInv, SaidInv
    <3>2. result[s] = <<"nil">>
      BY <1>2, <1>5
    <3>3. delivered[s] = produced[s]
      BY <1>1 DEF StreamInv, CountInv, Looping, TypeOK
    <3>4. ReturnUnfailed(s, "OK") /\ UNCHANGED producerVars
      <4>1. UNCHANGED producerVars
        BY Zenon DEF Terminal
      <4>. QED BY <1>5, <2>1, <4>1, TerminalCases
    <3>5. Fits(s, "OK")'
      BY <1>1, <2>1, <3>1, <3>2, <3>3, <3>4 DEF Fits, Complete, ReturnUnfailed
    <3>. QED BY <3>4, <3>5, Values DEF Returns
  <2>2. CASE ~bounded[s]
    <3>1. "unboundedEnd" \in said[s]
      BY <1>2, <1>5, <2>2 DEF StreamInv, SaidInv
    <3>. QED BY <1>3, <1>5, <2>2, <3>1, TerminalCases, Values
  <2>. QED BY <2>1, <2>2
<1>6. CASE Len(result[s]) = 1 /\ result[s][1] = "canceled" /\ derivedErr[s] # "nil"
  BY <1>1, <1>6, TerminalCases, DerivedFits
<1>7. CASE /\ Len(result[s]) = 1 /\ result[s][1] # "nil"
           /\ result[s][1] # "canceled" \/ derivedErr[s] = "nil"
  <2>1. PICK k : k = result[s][1]
    OBVIOUS
  <2>2. k \in ErrorKinds /\ k \in said[s]
    <3>1. result[s] # << >> /\ result[s][1] \in {"nil"} \cup ErrorKinds
      BY <1>2, <1>7
    <3>2. result[s][1] \in said[s] \cup {"nil"}
      BY <1>1, <3>1 DEF StreamInv, SaidInv
    <3>. QED BY <1>7, <2>1, <3>1, <3>2
  <2>3. FailStream(s, k)
    BY <1>7, <2>1, TerminalCases
  <2>4. Blames(s, k)'
    BY <1>1, <2>2 DEF Blames
  <2>. QED BY <2>2, <2>3, <2>4 DEF Returns
<1>. QED BY <1>4, <1>5, <1>6, <1>7

\* A stream gets its status with a cause: a return is justified, and a failure
\* is the producer's.
LEMMA StreamReturns ==
  ASSUME TypeOK, NEW s \in Streams, StreamInv(s), Loop(s) \/ SendFails(s),
         ~HasStatus(s), HasStatus(s)'
  PROVE  Returns(s)
<1>1. CASE StartProducer(s)
  <2>1. ~Goto(s, "loop")
    BY <1>1 DEF Goto, HasStatus, TypeOK
  <2>. QED BY <1>1, <2>1, DerivedFits DEF StartProducer
<1>2. ASSUME NEW k \in Kinds \cup {"incomplete"}, StartFails(s, k) PROVE Returns(s)
  BY <1>2, StartFailsReturns
<1>3. CASE CheckContext(s)
  <2>1. ~Goto(s, "select")
    BY DEF Goto, HasStatus, TypeOK
  <2>. QED BY <1>3, <2>1, DerivedFits DEF CheckContext
<1>4. CASE SelectContext(s)
  BY <1>4, DerivedFits, OwnFits DEF SelectContext, ProducerCtxErr
<1>5. CASE SelectStop(s)
  BY <1>5, Values DEF SelectStop, Returns, Fits
<1>6. CASE SelectEvent(s) \/ SelectClosed(s) \/ CancelDerived(s) \/ Release(s)
  BY <1>6 DEF SelectEvent, SelectClosed, Goto, CancelDerived, Release, HasStatus, TypeOK
<1>7. CASE CheckEvent(s)
  <2>1. pc[s] = "got" /\ UNCHANGED producerVars
    BY <1>7, Zenon DEF CheckEvent
  <2>2. CASE handler = "stream" /\ derivedErr[s] # "nil"
    BY <1>7, <2>2, CheckEventCases, DerivedFits
  <2>3. CASE handler = "stream" /\ derivedErr[s] = "nil" /\ event[s] = "nil"
    <3>1. "nilEvent" \in said[s]
      BY <2>1, <2>3 DEF StreamInv, SaidInv, NilWaits
    <3>2. Blames(s, "plain")'
      BY <2>1, <3>1, Values DEF Blames
    <3>3. FailStream(s, "plain")
      BY <1>7, <2>3, CheckEventCases
    <3>. QED BY <3>2, <3>3, Values DEF Returns
  <2>4. CASE handler = "legacy" \/ (derivedErr[s] = "nil" /\ event[s] # "nil")
    <3>1. Goto(s, "sending")
      BY <1>7, <2>4, CheckEventCases
    <3>. QED BY <3>1 DEF Goto, HasStatus, TypeOK
  <2>5. handler \in {"legacy", "stream"}
    BY DEF TypeOK
  <2>. QED BY <2>2, <2>3, <2>4, <2>5
<1>8. CASE CheckDrained(s)
  <2>1. pc[s] = "drained" /\ UNCHANGED producerVars
    BY <1>8, Zenon DEF CheckDrained
  <2>2. CASE handler = "legacy"
    <3>1. closed[s] /\ events[s] = << >> /\ delivered[s] = produced[s]
      BY <2>1 DEF StreamInv, CountInv, Looping, TypeOK
    <3>2. ReturnUnfailed(s, "OK")
      BY <1>8, <2>2, CheckDrainedCases
    <3>3. Fits(s, "OK")'
      BY <2>1, <2>2, <3>1, <3>2 DEF Fits, Complete, ReturnUnfailed
    <3>. QED BY <3>2, <3>3, Values DEF Returns
  <2>3. CASE handler = "stream" /\ derivedErr[s] # "nil"
    BY <1>8, <2>3, CheckDrainedCases, DerivedFits
  <2>4. CASE handler = "stream" /\ derivedErr[s] = "nil"
    <3>1. Goto(s, "terminal")
      BY <1>8, <2>4, CheckDrainedCases
    <3>. QED BY <3>1 DEF Goto, HasStatus, TypeOK
  <2>. QED BY <2>2, <2>3, <2>4 DEF TypeOK
<1>9. CASE Terminal(s)
  BY <1>9, TerminalReturns
<1>10. CASE SendFails(s)
  <2>1. CASE ReturnUnfailed(s, "Unavailable")
    BY <2>1, Values DEF Returns, Fits
  <2>2. CASE handler = "legacy" /\ ctxErr[s] # "nil"
    BY <1>10, <2>2, OwnFits DEF SendFails
  <2>3. StatusOf("DownstreamUnavailable") = "Unavailable"
    BY StatusCases
  <2>. QED BY <1>10, <2>1, <2>2, <2>3 DEF SendFails
<1>11. ~Counts(s)
  BY CountsFrame DEF HasStatus
<1>. QED
  BY <1>1, <1>2, <1>3, <1>4, <1>5, <1>6, <1>7, <1>8, <1>9, <1>10, <1>11
     DEF Loop, StartFailure, Counts

-------------------------------------------------------------------------------
(* The invariant of a stream: its own steps *)

LEMMA BlameFits ==
  ASSUME NEW s, NEW k \in ErrorKinds, Blames(s, k)'
  PROVE  Fits(s, StatusOf(k))'
<1>1. k \in {"InvalidRequest", "Canceled", "UpstreamUnavailable", "DataIntegrity",
            "DownstreamUnavailable", "Internal", "canceled", "deadline", "plain"}
  BY DEF ErrorKinds, Classified, CtxErrors
<1>2. PICK c : c = StatusOf(k)
  OBVIOUS
<1>3. CASE k \in said'[s]
  <2>1. Fits(s, c)'
    BY <1>1, <1>2, <1>3, StatusCases DEF Fits
  <2>. QED BY <1>2, <2>1
<1>4. CASE k = "plain" /\ said'[s] \cap Breaches # {}
  <2>1. c = "Internal"
    BY <1>2, <1>4, StatusCases
  <2>2. Fits(s, c)'
    BY <1>4, <2>1 DEF Fits
  <2>. QED BY <1>2, <2>2
<1>. QED BY <1>3, <1>4 DEF Blames

LEMMA ReturnInv ==
  ASSUME TypeOK, NEW s \in Streams, StreamInv(s), ~HasStatus(s), pc[s] # "idle",
         Returns(s), UNCHANGED <<events, closed, result, produced>>,
         closed[s] => producer'[s] = producer[s],
         result[s] # << >> => bounded'[s] = bounded[s],
         said[s] \subseteq said'[s]
  PROVE  StreamInv(s)'
<1>1. PICK c \in Codes : ReturnWith(s, c) /\ Fits(s, c)'
  <2>1. ASSUME NEW k \in ErrorKinds, FailStream(s, k), Blames(s, k)'
        PROVE  \E c \in Codes : ReturnWith(s, c) /\ Fits(s, c)'
    BY <2>1, BlameFits, StatusType DEF FailStream
  <2>. QED BY <2>1 DEF Returns, ReturnUnfailed
<1>2. UNCHANGED <<handler, derivedErr, event, delivered>>
  BY DEF Returns, ReturnUnfailed, FailStream
<1>3. pc'[s] = "returning" /\ code'[s] = c /\ c # "none"
  BY <1>1, Values DEF ReturnWith, TypeOK
<1>4. StartInv(s)' /\ ContextInv(s)' /\ OutcomeInv(s)'
  BY <1>1, <1>3 DEF StartInv, ContextInv, OutcomeInv, HasStatus
<1>5. CountInv(s)'
  BY <1>3 DEF StreamInv, CountInv, Looping
<1>6. SaidInv(s)'
  BY <1>2, <1>3 DEF StreamInv, SaidInv, NilWaits, HasStatus
<1>. QED BY <1>4, <1>5, <1>6 DEF StreamInv

LEMMA ClientInv ==
  ASSUME TypeOK, NEW s \in Streams, StreamInv(s), Client(s) \/ Watch(s)
  PROVE  StreamInv(s)'
<1>1. CASE Admit(s)
  <2>1. /\ pc[s] = "idle" /\ pc'[s] = "start"
        /\ UNCHANGED <<handler, phase, ctxErr, derivedErr, producerVars, event, delivered,
                       code>>
    BY <1>1 DEF Admit, TypeOK
  <2>2. StartInv(s)' /\ CountInv(s)' /\ ContextInv(s)' /\ OutcomeInv(s)'
    BY <2>1 DEF StreamInv, StartInv, CountInv, ContextInv, OutcomeInv, Fits, HasStatus,
                Looping, Stopped
  <2>3. SaidInv(s)'
    BY <2>1 DEF StreamInv, SaidInv, NilWaits, HasStatus
  <2>. QED BY <2>2, <2>3 DEF StreamInv
<1>2. CASE Reject(s)
  <2>1. pc'[s] = "done" /\ code'[s] = "Unknown"
    BY <1>2 DEF Reject, TypeOK
  <2>. QED
    BY <1>2, <2>1 DEF Reject, StreamInv, StartInv, CountInv, SaidInv, NilWaits, ContextInv,
                      OutcomeInv, Fits, HasStatus, Looping
<1>3. ASSUME NEW e \in CtxErrors, ClientEnds(s, e) PROVE StreamInv(s)'
  <2>1. /\ ctxErr[s] = "nil" /\ ctxErr'[s] = e
        /\ derivedErr'[s] = IF derivedErr[s] = "nil" THEN e ELSE derivedErr[s]
        /\ UNCHANGED <<handler, phase, producerVars, pc, event, delivered, code>>
    BY <1>3 DEF ClientEnds, TypeOK
  <2>2. StartInv(s)' /\ CountInv(s)' /\ ContextInv(s)' /\ OutcomeInv(s)'
    BY <2>1 DEF StreamInv, StartInv, CountInv, ContextInv, OutcomeInv, Fits, Complete,
                HasStatus, Looping, Stopped
  <2>3. derivedErr[s] # "nil" => derivedErr'[s] # "nil"
    BY <2>1
  <2>4. SaidInv(s)'
    BY <2>1, <2>3 DEF StreamInv, SaidInv, NilWaits, HasStatus
  <2>. QED BY <2>2, <2>4 DEF StreamInv
<1>4. CASE Watch(s)
  <2>1. /\ Stopped \/ derivedErr[s] # "nil"
        /\ derivedErr'[s] = IF derivedErr[s] = "nil" THEN "canceled" ELSE derivedErr[s]
        /\ UNCHANGED <<handler, phase, ctxErr, producerVars, pc, event, delivered, code>>
    BY <1>4 DEF Watch, TypeOK
  <2>2. StartInv(s)' /\ CountInv(s)' /\ ContextInv(s)' /\ OutcomeInv(s)'
    BY <2>1 DEF StreamInv, StartInv, CountInv, ContextInv, OutcomeInv, Fits, Complete,
                HasStatus, Looping, Stopped
  <2>3. derivedErr[s] # "nil" => derivedErr'[s] # "nil"
    BY <2>1
  <2>4. SaidInv(s)'
    BY <2>1, <2>3 DEF StreamInv, SaidInv, NilWaits, HasStatus
  <2>. QED BY <2>2, <2>4 DEF StreamInv
<1>. QED BY <1>1, <1>2, <1>3, <1>4 DEF Client

\* A running producer has not closed Events, and its stream has started.
LEMMA RunningNotClosed ==
  ASSUME NEW s, StreamInv(s), Running(s)
  PROVE  ~closed[s] /\ pc[s] \notin {"idle", "start", "drained", "terminal"}
BY DEF StreamInv, StartInv, CountInv, Running

LEMMA ProduceInv ==
  ASSUME TypeOK, NEW s \in Streams, StreamInv(s),
         NEW e \in {"event", "nil"}, Produce(s, e)
  PROVE  StreamInv(s)'
<1>1. ~closed[s] /\ pc[s] \notin {"idle", "start", "drained", "terminal"}
  BY RunningNotClosed DEF Produce
<1>2. /\ events'[s] = Append(events[s], e) /\ produced'[s] = produced[s] + 1
      /\ said'[s] = IF e = "nil" THEN said[s] \cup {"nilEvent"} ELSE said[s]
      /\ UNCHANGED <<handler, phase, ctxErr, derivedErr, pc, producer, bounded, closed,
                     result, event, delivered, code>>
  BY DEF Produce, TypeOK
<1>3. /\ Len(events'[s]) = Len(events[s]) + 1 /\ Len(events[s]) \in Nat
      /\ events'[s][Len(events[s]) + 1] = e
      /\ \A i \in 1..Len(events[s]) : events'[s][i] = events[s][i]
  <2>1. events[s] \in Seq({"event", "nil"})
    BY DEF TypeOK
  <2>. QED BY <1>2, <2>1, AppendProperties
<1>4. StartInv(s)' /\ ContextInv(s)'
  BY <1>1, <1>2 DEF StreamInv, StartInv, ContextInv, HasStatus, Stopped
<1>5. CountInv(s)'
  BY <1>1, <1>2, <1>3 DEF StreamInv, CountInv, Looping, TypeOK
<1>6. OutcomeInv(s)'
  BY <1>1, <1>2 DEF StreamInv, OutcomeInv, Fits, Complete, Stopped
<1>7. NilWaits(s)' <=> NilWaits(s) \/ e = "nil"
  BY <1>2, <1>3 DEF NilWaits
<1>8. SaidInv(s)'
  BY <1>1, <1>2, <1>7 DEF StreamInv, SaidInv, HasStatus
<1>. QED BY <1>4, <1>5, <1>6, <1>8 DEF StreamInv

\* What a terminal result r says is the producer's, or the error of the context
\* the producer was given.
Accounted(s, r, what) ==
  /\ r = "nil" => bounded[s] \/ "unboundedEnd" \in what
  /\ r \in what \cup {"nil"} \/ derivedErr[s] # "nil"
  /\ \A k \in what : (k = r /\ k # "nil") \/ (k = "unboundedEnd" /\ ~bounded[s])

LEMMA SendResultInv ==
  ASSUME TypeOK, NEW s \in Streams, StreamInv(s),
         NEW r \in {"nil"} \cup ErrorKinds, NEW what, SendResult(s, r, what),
         Accounted(s, r, what)
  PROVE  StreamInv(s)'
<1>1. ~closed[s] /\ pc[s] \notin {"idle", "start", "drained", "terminal"}
  BY RunningNotClosed DEF SendResult
<1>2. /\ result[s] = << >> /\ result'[s] = <<r>> /\ said'[s] = said[s] \cup what
      /\ handler = "stream"
      /\ UNCHANGED <<handler, phase, ctxErr, derivedErr, pc, producer, bounded, closed,
                     events, produced, event, delivered, code>>
  BY DEF SendResult, TypeOK
<1>3. StartInv(s)' /\ ContextInv(s)' /\ CountInv(s)'
  BY <1>1, <1>2 DEF StreamInv, StartInv, ContextInv, CountInv, HasStatus, Looping, Stopped
<1>4. OutcomeInv(s)'
  BY <1>1, <1>2 DEF StreamInv, OutcomeInv, Fits, Complete, Stopped
<1>5. result'[s] # << >> /\ result'[s][1] = r /\ Len(result'[s]) = 1
  BY <1>2
<1>6. NilWaits(s)' <=> NilWaits(s)
  BY <1>2 DEF NilWaits
<1>7. SaidInv(s)'
  BY <1>1, <1>2, <1>5, <1>6 DEF StreamInv, SaidInv, HasStatus, Accounted
<1>. QED BY <1>3, <1>4, <1>7 DEF StreamInv

LEMMA ProducerInv ==
  ASSUME TypeOK, NEW s \in Streams, StreamInv(s), Producer(s)
  PROVE  StreamInv(s)'
<1>1. ASSUME NEW e \in {"event", "nil"}, Produce(s, e) PROVE StreamInv(s)'
  BY <1>1, ProduceInv
<1>2. CASE Succeed(s)
  <2>1. CASE bounded[s]
    <3>1. SendResult(s, "nil", {}) /\ Accounted(s, "nil", {})
      BY <1>2, <2>1 DEF Succeed, Accounted
    <3>. QED BY <3>1, SendResultInv
  <2>2. CASE ~bounded[s]
    <3>1. SendResult(s, "nil", {"unboundedEnd"}) /\ Accounted(s, "nil", {"unboundedEnd"})
      BY <1>2, <2>2 DEF Succeed, Accounted
    <3>. QED BY <3>1, SendResultInv
  <2>. QED BY <2>1, <2>2
<1>3. ASSUME NEW k \in Kinds, Fail(s, k) PROVE StreamInv(s)'
  <2>1. k \in ErrorKinds /\ k # "nil"
    BY SourceAssumption, Values
  <2>2. SendResult(s, k, {k}) /\ Accounted(s, k, {k})
    BY <1>3, <2>1 DEF Fail, Accounted
  <2>. QED BY <2>1, <2>2, SendResultInv
<1>4. CASE ReportCancel(s)
  <2>1. handler = "stream"
    BY <1>4 DEF ReportCancel, SendResult
  <2>2. derivedErr[s] # "nil" /\ derivedErr[s] \in ErrorKinds
    BY <1>4, <2>1, Values DEF ReportCancel, ProducerCtxErr, TypeOK
  <2>3. SendResult(s, derivedErr[s], {}) /\ Accounted(s, derivedErr[s], {})
    BY <1>4, <2>1, <2>2 DEF ReportCancel, ProducerCtxErr, Accounted
  <2>. QED BY <2>2, <2>3, SendResultInv
<1>5. CASE SendSecondResult(s)
  <2>1. ~closed[s]
    BY <1>5, RunningNotClosed DEF SendSecondResult
  <2>2. /\ result'[s] = Append(result[s], "nil") /\ Len(result[s]) = 1
        /\ said'[s] = said[s] \cup {"twoResults"}
        /\ UNCHANGED <<handler, phase, ctxErr, derivedErr, pc, producer, bounded, closed,
                       events, produced, event, delivered, code>>
    BY <1>5 DEF SendSecondResult, TypeOK
  <2>3. /\ result[s] # << >> /\ result'[s] # << >>
        /\ Len(result'[s]) = 2 /\ result'[s][1] = result[s][1]
    <3>1. result[s] \in Seq({"nil"} \cup ErrorKinds)
      BY DEF TypeOK
    <3>. QED BY <2>2, <3>1, AppendProperties
  <2>4. pc[s] \notin {"idle", "start"}
    BY <1>5, RunningNotClosed DEF SendSecondResult
  <2>5. StartInv(s)' /\ ContextInv(s)' /\ CountInv(s)'
    BY <2>1, <2>2, <2>4
       DEF StreamInv, StartInv, ContextInv, CountInv, HasStatus, Looping, Stopped
  <2>6. OutcomeInv(s)'
    BY <2>1, <2>2 DEF StreamInv, OutcomeInv, Fits, Complete, Stopped
  <2>7. SaidInv(s)'
    BY <2>1, <2>2, <2>3 DEF StreamInv, SaidInv, NilWaits, HasStatus
  <2>. QED BY <2>5, <2>6, <2>7 DEF StreamInv
<1>6. CASE CloseEvents(s)
  <2>1. ~closed[s] /\ pc[s] \notin {"idle", "start"}
    BY <1>6, RunningNotClosed DEF CloseEvents
  <2>2. /\ closed'[s] /\ producer'[s] = "ended"
        /\ said'[s] = IF handler = "stream" /\ result[s] = << >>
                      THEN said[s] \cup {"missingResult"} ELSE said[s]
        /\ UNCHANGED <<handler, phase, ctxErr, derivedErr, pc, bounded, result,
                       events, produced, event, delivered, code>>
    BY <1>6 DEF CloseEvents, TypeOK
  <2>3. StartInv(s)' /\ ContextInv(s)' /\ CountInv(s)'
    BY <2>1, <2>2
       DEF StreamInv, StartInv, ContextInv, CountInv, HasStatus, Looping, Stopped
  <2>4. OutcomeInv(s)'
    BY <2>1, <2>2 DEF StreamInv, OutcomeInv, Fits, Complete, Stopped
  <2>5. SaidInv(s)'
    BY <2>1, <2>2 DEF StreamInv, SaidInv, NilWaits, HasStatus
  <2>. QED BY <2>3, <2>4, <2>5 DEF StreamInv
<1>. QED BY <1>1, <1>2, <1>3, <1>4, <1>5, <1>6 DEF Producer

LEMMA SelectEventInv ==
  ASSUME TypeOK, NEW s \in Streams, StreamInv(s), SelectEvent(s)
  PROVE  StreamInv(s)'
<1>1. /\ pc[s] = "select" /\ pc'[s] = "got" /\ events[s] # << >>
      /\ event'[s] = Head(events[s]) /\ events'[s] = Tail(events[s])
      /\ UNCHANGED <<handler, phase, ctxErr, derivedErr, producer, bounded, closed, said,
                     result, produced, delivered, code>>
  BY DEF SelectEvent, TypeOK
<1>2. /\ Len(events[s]) \in Nat /\ Len(events'[s]) = Len(events[s]) - 1
      /\ 1 <= Len(events[s]) /\ event'[s] = events[s][1]
      /\ \A i \in 1..Len(events'[s]) : events'[s][i] = events[s][i + 1]
  <2>1. events[s] \in Seq({"event", "nil"})
    BY DEF TypeOK
  <2>. QED BY <1>1, <2>1, HeadTailProperties, EmptySeq
<1>3. NilWaits(s)' <=> NilWaits(s)
  <2>1. ASSUME NEW i \in 1..Len(events[s]), events[s][i] = "nil" PROVE NilWaits(s)'
    <3>1. CASE i = 1
      BY <1>1, <1>2, <2>1, <3>1, Zenon DEF NilWaits
    <3>2. CASE i # 1
      <4>1. i - 1 \in 1..Len(events'[s]) /\ events'[s][i - 1] = "nil"
        BY <1>2, <2>1, <3>2
      <4>. QED BY <4>1 DEF NilWaits
    <3>. QED BY <3>1, <3>2
  <2>2. ASSUME NEW i \in 1..Len(events'[s]), events'[s][i] = "nil" PROVE NilWaits(s)
    <3>1. i + 1 \in 1..Len(events[s]) /\ events[s][i + 1] = "nil"
      BY <1>2, <2>2
    <3>. QED BY <3>1 DEF NilWaits
  <2>3. event'[s] = "nil" => NilWaits(s)
    <3>1. 1 \in 1..Len(events[s])
      BY <1>2
    <3>. QED BY <1>2, <3>1 DEF NilWaits
  <2>. QED BY <1>1, <2>1, <2>2, <2>3 DEF NilWaits
<1>4. StartInv(s)' /\ ContextInv(s)' /\ OutcomeInv(s)'
  BY <1>1 DEF StreamInv, StartInv, ContextInv, OutcomeInv, Fits, HasStatus, Stopped
<1>5. CountInv(s)'
  BY <1>1, <1>2 DEF StreamInv, CountInv, Looping, TypeOK
<1>6. SaidInv(s)'
  BY <1>1, <1>3 DEF StreamInv, SaidInv, HasStatus
<1>. QED BY <1>4, <1>5, <1>6 DEF StreamInv

\* The loop goes on at l: an event it has looked at is not nil if that matters,
\* and the end it has seen is the end.
LEMMA GotoInv ==
  ASSUME TypeOK, NEW s \in Streams, StreamInv(s), NEW l, Goto(s, l),
         UNCHANGED producerVars,
         \/ pc[s] = "loop" /\ l = "select"
         \/ pc[s] = "select" /\ l = "drained" /\ closed[s] /\ events[s] = << >>
         \/ /\ pc[s] = "got" /\ l = "sending"
            /\ handler = "stream" => event[s] # "nil"
         \/ pc[s] = "drained" /\ l = "terminal" /\ handler = "stream" /\ derivedErr[s] = "nil"
  PROVE  StreamInv(s)'
<1>1. /\ pc'[s] = l
      /\ UNCHANGED <<handler, phase, ctxErr, derivedErr, producer, bounded, events, closed,
                     result, said, produced, event, delivered, code>>
  BY DEF Goto, TypeOK
<1>2. StartInv(s)' /\ ContextInv(s)' /\ OutcomeInv(s)'
  BY <1>1 DEF StreamInv, StartInv, ContextInv, OutcomeInv, Fits, Complete, HasStatus, Stopped
<1>3. CountInv(s)'
  BY <1>1 DEF StreamInv, CountInv, Looping
<1>4. (NilWaits(s)' => NilWaits(s)) /\ (handler = "stream" /\ NilWaits(s) => NilWaits(s)')
  BY <1>1 DEF NilWaits
<1>5. SaidInv(s)'
  BY <1>1, <1>4 DEF StreamInv, SaidInv, HasStatus
<1>. QED BY <1>2, <1>3, <1>5 DEF StreamInv

LEMMA StartProducerInv ==
  ASSUME TypeOK, NEW s \in Streams, StreamInv(s), StartProducer(s), Goto(s, "loop")
  PROVE  StreamInv(s)'
<1>1. /\ pc[s] = "start" /\ pc'[s] = "loop"
      /\ UNCHANGED <<handler, phase, ctxErr, derivedErr, events, closed, result, said,
                     produced, event, delivered, code>>
  BY DEF StartProducer, Goto, TypeOK
<1>2. /\ ~closed[s] /\ events[s] = << >> /\ result[s] = << >> /\ said[s] = {}
      /\ produced[s] = 0 /\ delivered[s] = 0
  BY <1>1 DEF StreamInv, StartInv
<1>3. StartInv(s)' /\ ContextInv(s)' /\ OutcomeInv(s)'
  BY <1>1 DEF StreamInv, StartInv, ContextInv, OutcomeInv, Fits, Complete, HasStatus, Stopped
<1>4. CountInv(s)'
  BY <1>1, <1>2 DEF CountInv, Looping
<1>5. SaidInv(s)'
  BY <1>1, <1>2 DEF SaidInv, NilWaits
<1>. QED BY <1>3, <1>4, <1>5 DEF StreamInv

LEMMA LeavingInv ==
  ASSUME TypeOK, NEW s \in Streams, StreamInv(s), CancelDerived(s) \/ Release(s)
  PROVE  StreamInv(s)'
<1>1. CASE CancelDerived(s)
  <2>1. /\ pc[s] = "returning" /\ derivedErr'[s] # "nil"
        /\ UNCHANGED <<handler, phase, ctxErr, pc, producer, bounded, events, closed,
                       result, said, produced, event, delivered, code>>
    BY <1>1 DEF CancelDerived, TypeOK
  <2>2. StartInv(s)' /\ ContextInv(s)' /\ OutcomeInv(s)' /\ CountInv(s)'
    BY <2>1 DEF StreamInv, StartInv, ContextInv, OutcomeInv, CountInv, Fits, Complete,
                HasStatus, Looping, Stopped
  <2>3. SaidInv(s)'
    BY <2>1 DEF StreamInv, SaidInv, NilWaits, HasStatus
  <2>. QED BY <2>2, <2>3 DEF StreamInv
<1>2. CASE Release(s)
  <2>1. /\ pc[s] = "returning" /\ pc'[s] = "done"
        /\ ~closed'[s] /\ events'[s] = << >> /\ result'[s] = << >>
        /\ UNCHANGED <<phase, ctxErr, said, code>>
    BY <1>2 DEF Release, Forget, TypeOK
  <2>2. StartInv(s)' /\ ContextInv(s)' /\ OutcomeInv(s)' /\ CountInv(s)'
    BY <2>1 DEF StreamInv, StartInv, ContextInv, OutcomeInv, CountInv, Fits,
                HasStatus, Looping, Stopped
  <2>3. SaidInv(s)'
    BY <2>1 DEF SaidInv, NilWaits, HasStatus
  <2>. QED BY <2>2, <2>3 DEF StreamInv
<1>. QED BY <1>1, <1>2

LEMMA SentInv ==
  ASSUME TypeOK, NEW s \in Streams, StreamInv(s), Sent(s)
  PROVE  StreamInv(s)'
<1>1. /\ pc[s] = "sending" /\ pc'[s] = "sent" /\ delivered'[s] = delivered[s] + 1
      /\ UNCHANGED <<handler, phase, ctxErr, derivedErr, producer, bounded, events, closed,
                     result, said, produced, event, code>>
  BY DEF Sent, TypeOK
<1>2. StartInv(s)' /\ ContextInv(s)' /\ OutcomeInv(s)'
  BY <1>1 DEF StreamInv, StartInv, ContextInv, OutcomeInv, Fits, HasStatus, Stopped
<1>3. CountInv(s)'
  BY <1>1 DEF StreamInv, CountInv, Looping, TypeOK
<1>4. SaidInv(s)'
  BY <1>1 DEF StreamInv, SaidInv, NilWaits, HasStatus
<1>. QED BY <1>2, <1>3, <1>4 DEF StreamInv

LEMMA CountsInv ==
  ASSUME TypeOK, NEW s \in Streams, StreamInv(s), Counts(s)
  PROVE  StreamInv(s)'
<1>1. /\ pc[s] \in {"sent", "counted"} /\ pc'[s] \in {"counted", "loop"}
      /\ UNCHANGED <<handler, phase, ctxErr, derivedErr, producer, bounded, events, closed,
                     result, said, produced, event, delivered, code>>
  BY CountsFrame
<1>2. StartInv(s)' /\ ContextInv(s)' /\ OutcomeInv(s)'
  BY <1>1 DEF StreamInv, StartInv, ContextInv, OutcomeInv, Fits, HasStatus, Stopped
<1>3. CountInv(s)'
  BY <1>1 DEF StreamInv, CountInv, Looping
<1>4. SaidInv(s)'
  BY <1>1 DEF StreamInv, SaidInv, NilWaits, HasStatus
<1>. QED BY <1>2, <1>3, <1>4 DEF StreamInv

LEMMA LoopInv ==
  ASSUME TypeOK, NEW s \in Streams, StreamInv(s), Loop(s) \/ SendFails(s)
  PROVE  StreamInv(s)'
<1>1. ASSUME ~HasStatus(s), HasStatus(s)' PROVE StreamInv(s)'
  <2>1. Returns(s)
    BY <1>1, StreamReturns
  <2>2. CASE UNCHANGED producerVars /\ pc[s] # "idle"
    BY <1>1, <2>1, <2>2, ReturnInv
  <2>3. CASE StartProducer(s)
    <3>1. pc[s] = "start" /\ UNCHANGED <<events, closed, result, produced, said>>
      BY <2>3 DEF StartProducer
    <3>2. ~closed[s] /\ result[s] = << >>
      BY <3>1 DEF StreamInv, StartInv
    <3>. QED BY <1>1, <2>1, <3>1, <3>2, ReturnInv
  <2>4. ASSUME NEW k, StartFails(s, k) PROVE StreamInv(s)'
    <3>1. /\ pc[s] = "start" /\ UNCHANGED <<producer, bounded, events, closed, result, produced>>
          /\ said' = [said EXCEPT ![s] = IF k = ProducerCtxErr(s) THEN @ ELSE @ \cup {k}]
      BY <2>4, Zenon DEF StartFails
    <3>2. said[s] \subseteq said'[s]
      BY <3>1 DEF TypeOK
    <3>. QED BY <1>1, <2>1, <3>1, <3>2, ReturnInv
  <2>5. CASE SendFails(s)
    <3>1. UNCHANGED producerVars /\ pc[s] # "idle"
      BY <2>5 DEF SendFails
    <3>. QED BY <2>2, <3>1
  <2>6. ~SelectEvent(s) /\ ~CancelDerived(s) /\ ~Release(s) /\ ~Counts(s)
    BY <1>1, CountsFrame DEF SelectEvent, CancelDerived, Release, HasStatus, TypeOK
  <2>. QED BY <2>2, <2>3, <2>4, <2>5, <2>6, LoopSteps DEF StartFailure
<1>2. CASE SelectEvent(s) \/ Counts(s) \/ CancelDerived(s) \/ Release(s)
  BY <1>2, SelectEventInv, CountsInv, LeavingInv
<1>3. ASSUME ~HasStatus(s)' PROVE StreamInv(s)'
  <2>1. ASSUME NEW c PROVE ~ReturnUnfailed(s, c) /\ ~FailStream(s, c)
    BY <1>3 DEF ReturnUnfailed, FailStream, ReturnWith, HasStatus, TypeOK
  <2>2. CASE StartProducer(s)
    BY <2>1, <2>2, StartProducerInv DEF StartProducer
  <2>3. CASE CheckContext(s)
    BY <2>1, <2>3, GotoInv DEF CheckContext
  <2>4. CASE SelectClosed(s)
    BY <2>4, GotoInv DEF SelectClosed
  <2>5. CASE CheckEvent(s)
    <3>1. pc[s] = "got" /\ UNCHANGED producerVars
      BY <2>5, Zenon DEF CheckEvent
    <3>2. handler = "legacy" \/ (derivedErr[s] = "nil" /\ event[s] # "nil")
      BY <2>1, <2>5, CheckEventCases DEF TypeOK
    <3>3. Goto(s, "sending")
      BY <2>5, <3>2, CheckEventCases
    <3>. QED BY <3>1, <3>2, <3>3, GotoInv
  <2>6. CASE CheckDrained(s)
    <3>1. pc[s] = "drained" /\ UNCHANGED producerVars
      BY <2>6, Zenon DEF CheckDrained
    <3>2. handler = "stream" /\ derivedErr[s] = "nil"
      BY <2>1, <2>6, CheckDrainedCases DEF TypeOK
    <3>3. Goto(s, "terminal")
      BY <2>6, <3>2, CheckDrainedCases
    <3>. QED BY <3>1, <3>2, <3>3, GotoInv
  <2>7. ~SelectContext(s) /\ ~SelectStop(s) /\ ~SendFails(s)
    BY <2>1 DEF SelectContext, SelectStop, SendFails
  <2>8. ~Terminal(s) /\ ~StartFailure(s)
    <3>1. ~Returns(s)
      BY <2>1 DEF Returns
    <3>. QED BY <3>1, TerminalReturns, StartFailsReturns DEF StartFailure
  <2>. QED BY <1>2, <2>2, <2>3, <2>4, <2>5, <2>6, <2>7, <2>8 DEF Loop, Counts
<1>4. CASE HasStatus(s)
  <2>1. CancelDerived(s) \/ Release(s)
    BY <1>4, LoopSteps, CountsFrame DEF HasStatus, SelectEvent, SendFails
  <2>. QED BY <1>2, <2>1
<1>. QED BY <1>1, <1>3, <1>4

-------------------------------------------------------------------------------
(* Every status has its cause *)

LEMMA SourceFrame ==
  ASSUME Started \/ Stop \/ Shutdown
  PROVE  /\ UNCHANGED <<handler, streaming, contextVars, pc, producerVars, deliveryVars,
                        code, metricVars>>
         /\ Stopped => Stopped'
         /\ health' # "UNHEALTHY" \/ health' = health
BY DEF Started, Stop, Shutdown, StopHealth, BeginDrain, Drained, Stopped

LEMMA StreamsNext ==
  ASSUME TypeOK, \A s \in Streams : StreamInv(s), [Next]_vars
  PROVE  \A s \in Streams : StreamInv(s)'
<1>1. ASSUME NEW s \in Streams, StreamStep(s) PROVE \A t \in Streams : StreamInv(t)'
  <2>1. StreamInv(s)'
    BY <1>1, ClientInv, ProducerInv, LoopInv, SentInv DEF StreamStep
  <2>2. ASSUME NEW t \in Streams \ {s} PROVE StreamInv(t)'
    BY <1>1, StepFrame, SameInv DEF Stopped
  <2>. QED BY <2>1, <2>2
<1>2. CASE Started \/ Stop \/ Shutdown
  BY <1>2, SourceFrame, SameInv DEF Same
<1>3. CASE UNCHANGED vars
  BY <1>3, SameInv DEF vars, Same, Stopped
<1>. QED BY <1>1, <1>2, <1>3 DEF Next, StreamStep

LEMMA StreamsInit == Init => \A s \in Streams : StreamInv(s)
<1>. SUFFICES ASSUME Init, NEW s \in Streams PROVE StreamInv(s)
  OBVIOUS
<1>1. /\ pc[s] = "idle" /\ code[s] = "none" /\ producer[s] = "none" /\ ~closed[s]
      /\ events[s] = << >> /\ result[s] = << >> /\ said[s] = {} /\ derivedErr[s] = "nil"
      /\ produced[s] = 0 /\ delivered[s] = 0
  BY DEF Init
<1>2. StartInv(s) /\ CountInv(s) /\ ContextInv(s) /\ OutcomeInv(s)
  BY <1>1 DEF StartInv, CountInv, ContextInv, OutcomeInv, Fits, HasStatus, Looping
<1>3. SaidInv(s)
  BY <1>1 DEF SaidInv, NilWaits
<1>. QED BY <1>2, <1>3 DEF StreamInv

LEMMA StreamsInvariant == Spec => [](\A s \in Streams : StreamInv(s))
<1>1. TypeOK /\ (\A s \in Streams : StreamInv(s)) /\ [Next]_vars
        => (\A s \in Streams : StreamInv(s))'
  BY StreamsNext
<1>. QED BY <1>1, StreamsInit, TypeCorrect, PTL DEF Spec

\* The status a client gets is justified by what happened on its stream: OK by
\* a complete stream, a cancellation by its own context, by Stop or by the
\* producer, a failure by what the producer reported or broke.
THEOREM OutcomesJustified == Spec => []OutcomeJustified
<1>1. TypeOK /\ (\A s \in Streams : StreamInv(s)) => OutcomeJustified
  <2>. SUFFICES ASSUME TypeOK, NEW s \in Streams, StreamInv(s)
                PROVE  CASE code[s] = "OK" -> pc[s] = "returning" => Complete(s)
                         [] code[s] = "Canceled" ->
                              \/ ctxErr[s] = "canceled" \/ Stopped
                              \/ said[s] \cap {"Canceled", "canceled"} # {}
                         [] code[s] = "DeadlineExceeded" ->
                              ctxErr[s] = "deadline" \/ "deadline" \in said[s]
                         [] code[s] = "InvalidArgument" -> "InvalidRequest" \in said[s]
                         [] code[s] = "DataLoss" -> "DataIntegrity" \in said[s]
                         [] code[s] = "Internal" ->
                              said[s] \cap ({"Internal", "plain"} \cup Breaches) # {}
                         [] code[s] \in {"Unavailable", "Unknown", "none"} -> TRUE
    BY Zenon DEF OutcomeJustified
  <2>1. code[s] \in {"none", "OK", "InvalidArgument", "Canceled", "Unavailable", "DataLoss",
                    "Internal", "DeadlineExceeded", "Unknown"}
    BY DEF TypeOK, Codes
  <2>2. Fits(s, code[s])
    BY DEF StreamInv, OutcomeInv
  <2>. QED BY <2>1, <2>2, Zenon DEF Fits
<1>. QED BY <1>1, StreamsInvariant, TypeCorrect, PTL

-------------------------------------------------------------------------------
(* Health *)

\* The health and the errors change for a failure of the producer only, and so
\* does the code of s to one that counts as a failure.
LEMMA FailureBlamed ==
  ASSUME TypeOK, NEW s \in Streams, StreamInv(s), StreamStep(s)
  PROVE  \/ \E k \in ErrorKinds :
              ~HasStatus(s) /\ FailStream(s, k) /\ Blames(s, k)'
         \/ /\ UNCHANGED <<health, errors>>
            /\ code'[s] \in {"InvalidArgument", "DataLoss", "Internal"} => code'[s] = code[s]
<1>1. CASE Client(s) \/ Watch(s)
  BY <1>1 DEF Client, Admit, Reject, ClientEnds, Watch, TypeOK
<1>2. CASE Producer(s)
  BY <1>2 DEF Producer, Produce, Succeed, Fail, ReportCancel, SendResult,
              SendSecondResult, CloseEvents
<1>3. CASE Sent(s) \/ SelectEvent(s) \/ CancelDerived(s) \/ Release(s)
  BY <1>3 DEF Sent, SelectEvent, CancelDerived, Release
<1>4. CASE \E l \in Onward : Goto(s, l)
  BY <1>4 DEF Goto
<1>5. ASSUME Ends(s), pc[s] \notin {"idle", "returning", "done"}, Loop(s) \/ SendFails(s)
      PROVE  \/ \E k \in ErrorKinds :
                  ~HasStatus(s) /\ FailStream(s, k) /\ Blames(s, k)'
             \/ /\ UNCHANGED <<health, errors>>
                /\ code'[s] \notin {"InvalidArgument", "DataLoss", "Internal"}
  <2>1. ~HasStatus(s) /\ HasStatus(s)'
    BY <1>5 DEF Ends, ReturnUnfailed, FailStream, ReturnWith, HasStatus, TypeOK
  <2>2. Returns(s)
    BY <1>5, <2>1, StreamReturns
  <2>3. CASE \E c \in Codes \ {"InvalidArgument", "DataLoss", "Internal"} :
               ReturnUnfailed(s, c) /\ Fits(s, c)'
    BY <2>3 DEF ReturnUnfailed, ReturnWith, TypeOK
  <2>. QED BY <2>1, <2>2, <2>3 DEF Returns
<1>6. CASE SendFails(s)
  <2>1. Ends(s) /\ pc[s] = "sending"
    BY <1>6, StatusType, Values DEF SendFails, Ends, TypeOK
  <2>. QED BY <1>5, <1>6, <2>1
<1>7. CASE Loop(s)
  <2>1. CASE Counts(s)
    BY <2>1, CountsFrame
  <2>. QED BY <1>3, <1>4, <1>5, <1>7, <2>1, LoopSteps
<1>. QED BY <1>1, <1>2, <1>3, <1>6, <1>7 DEF StreamStep

LEMMA SaidGrows ==
  ASSUME TypeOK, NEW s \in Streams, StreamStep(s)
  PROVE  \A t \in Streams : said[t] \subseteq said'[t]
BY StepFrame DEF Same

LEMMA HealthNext ==
  ASSUME TypeOK, \A s \in Streams : StreamInv(s), HealthJustified, [Next]_vars
  PROVE  HealthJustified'
<1>1. ASSUME NEW s \in Streams, StreamStep(s) PROVE HealthJustified'
  <2>1. \A t \in Streams : said[t] \subseteq said'[t]
    BY <1>1, SaidGrows
  <2>2. ASSUME NEW k \in ErrorKinds, FailStream(s, k), Blames(s, k)', Severe(k)
        PROVE  HealthJustified'
    <3>1. \A b \in Breaches : Severe(b)
      BY DEF Breaches, Severe
    <3>2. \E j \in said'[s] : Severe(j)
      BY <2>2, <3>1 DEF Blames
    <3>. QED BY <3>2 DEF HealthJustified
  <2>3. CASE health' = health
    BY <2>1, <2>3 DEF HealthJustified
  <2>. QED BY <1>1, <2>2, <2>3, FailureBlamed DEF FailStream
<1>2. CASE Started \/ Stop \/ Shutdown
  <2>1. said' = said /\ (health' # "UNHEALTHY" \/ health' = health)
    BY <1>2, SourceFrame
  <2>. QED BY <2>1 DEF HealthJustified
<1>3. CASE UNCHANGED vars
  BY <1>3 DEF vars, HealthJustified
<1>. QED BY <1>1, <1>2, <1>3 DEF Next, StreamStep

\* Only a producer can make the source unhealthy, with an error that is neither
\* a cancellation nor a bad request or with a breach of its contract.
THEOREM HealthIsJustified == Spec => []HealthJustified
<1>1. Init => HealthJustified
  BY DEF Init, HealthJustified
<1>. QED BY <1>1, HealthNext, StreamsInvariant, TypeCorrect, PTL DEF Spec

-------------------------------------------------------------------------------
(* The metrics *)

\* What is counted once, when the stream s is settled.
LEMMA FailureCounted ==
  ASSUME TypeOK, MetricsInv, NEW s \in Streams, ~HasStatus(s), HasStatus(s)',
         said'[s] # {}, \A t \in Streams \ {s} : Same(t), errors' = errors + 1
  PROVE  /\ IsFiniteSet(Failed)' /\ Cardinality(Failed)' <= errors'
         /\ IsFiniteSet(Blamed)' /\ IsFiniteSet(Settled)' /\ errors' <= Cardinality(Settled)'
<1>1. Failed' \subseteq Failed \cup {s} /\ Blamed' \subseteq Blamed \cup {s}
  BY DEF Failed, Blamed, Same
<1>2. Settled' = Settled \cup {s} /\ s \notin Settled
  BY DEF Settled, Blamed, HasStatus, Same
<1>3. /\ IsFiniteSet(Failed) /\ IsFiniteSet(Blamed) /\ IsFiniteSet(Settled)
      /\ Cardinality(Failed) <= errors /\ errors <= Cardinality(Settled)
  BY DEF MetricsInv
<1>4. /\ IsFiniteSet(Failed \cup {s}) /\ Cardinality(Failed \cup {s}) <= Cardinality(Failed) + 1
      /\ Cardinality(Failed \cup {s}) \in Nat /\ Cardinality(Failed) \in Nat
  <2>1. Cardinality(Failed) \in Nat
    BY <1>3, FS_CardinalityType
  <2>2. /\ IsFiniteSet(Failed \cup {s})
        /\ Cardinality(Failed \cup {s}) \in {Cardinality(Failed), Cardinality(Failed) + 1}
    BY <1>3, FS_AddElement
  <2>. QED BY <2>1, <2>2
<1>5. IsFiniteSet(Failed') /\ Cardinality(Failed') <= Cardinality(Failed \cup {s})
      /\ Cardinality(Failed') \in Nat
  BY <1>1, <1>4, FS_Subset, FS_CardinalityType
<1>6. IsFiniteSet(Blamed')
  BY <1>1, <1>3, FS_AddElement, FS_Subset
<1>7. IsFiniteSet(Settled') /\ Cardinality(Settled') = Cardinality(Settled) + 1
      /\ Cardinality(Settled) \in Nat
  BY <1>2, <1>3, FS_AddElement, FS_CardinalityType
<1>. QED BY <1>3, <1>4, <1>5, <1>6, <1>7 DEF TypeOK

LEMMA NothingCounted ==
  ASSUME TypeOK, MetricsInv, NEW s \in Streams, HasStatus(s) => HasStatus(s)',
         said[s] \subseteq said'[s],
         code'[s] \in {"InvalidArgument", "DataLoss", "Internal"} => code'[s] = code[s],
         \A t \in Streams \ {s} : Same(t), errors' = errors
  PROVE  /\ IsFiniteSet(Failed)' /\ Cardinality(Failed)' <= errors'
         /\ IsFiniteSet(Blamed)' /\ IsFiniteSet(Settled)' /\ errors' <= Cardinality(Settled)'
<1>1. Failed' \subseteq Failed /\ Blamed' \subseteq Blamed \cup {s}
  BY DEF Failed, Blamed, Same
<1>2. Settled \subseteq Settled' /\ Settled' \subseteq Blamed'
  BY DEF Settled, Blamed, HasStatus, Same
<1>3. /\ IsFiniteSet(Failed) /\ IsFiniteSet(Blamed) /\ IsFiniteSet(Settled)
      /\ Cardinality(Failed) <= errors /\ errors <= Cardinality(Settled)
  BY DEF MetricsInv
<1>4. IsFiniteSet(Failed') /\ Cardinality(Failed') <= Cardinality(Failed)
      /\ Cardinality(Failed') \in Nat /\ Cardinality(Failed) \in Nat
  BY <1>1, <1>3, FS_Subset, FS_CardinalityType
<1>5. IsFiniteSet(Blamed')
  BY <1>1, <1>3, FS_AddElement, FS_Subset
<1>6. IsFiniteSet(Settled')
  BY <1>2, <1>5, FS_Subset
<1>7. Cardinality(Settled) <= Cardinality(Settled')
      /\ Cardinality(Settled') \in Nat /\ Cardinality(Settled) \in Nat
  BY <1>2, <1>3, <1>6, FS_Subset, FS_CardinalityType
<1>. QED BY <1>3, <1>4, <1>5, <1>6, <1>7 DEF TypeOK

\* The streams at some places when s comes to one of them, leaves, or does neither.
LEMMA AtMoves ==
  ASSUME NEW places, NEW s \in Streams, IsFiniteSet(At(places)),
         \A t \in Streams \ {s} : pc'[t] = pc[t]
  PROVE  /\ IsFiniteSet(At(places))' /\ Cardinality(At(places)) \in Nat
         /\ pc[s] \notin places /\ pc'[s] \in places =>
              Cardinality(At(places))' = Cardinality(At(places)) + 1
         /\ pc[s] \in places /\ pc'[s] \notin places =>
              Cardinality(At(places))' = Cardinality(At(places)) - 1
         /\ (pc[s] \in places <=> pc'[s] \in places) =>
              Cardinality(At(places))' = Cardinality(At(places))
<1>1. Cardinality(At(places)) \in Nat
  BY FS_CardinalityType
<1>2. CASE pc[s] \notin places /\ pc'[s] \in places
  <2>1. At(places)' = At(places) \cup {s} /\ s \notin At(places)
    BY <1>2 DEF At
  <2>. QED BY <1>1, <1>2, <2>1, FS_AddElement
<1>3. CASE pc[s] \in places /\ pc'[s] \notin places
  <2>1. At(places)' = At(places) \ {s} /\ s \in At(places)
    BY <1>3 DEF At
  <2>. QED BY <1>1, <1>3, <2>1, FS_RemoveElement
<1>4. CASE pc[s] \in places <=> pc'[s] \in places
  <2>1. At(places)' = At(places)
    BY <1>4 DEF At
  <2>. QED BY <1>1, <1>4, <2>1
<1>. QED BY <1>2, <1>3, <1>4

LEMMA SumNext ==
  ASSUME TypeOK, SumInv, NEW s \in Streams, StreamStep(s)
  PROVE  SumInv'
<1>. DEFINE sent    == Cardinality(At({"sent"}))
            counted == Cardinality(At({"sent", "counted"}))
            Still   == /\ UNCHANGED <<delivered, processed, succeeded>>
                       /\ pc[s] = "sent" <=> pc'[s] = "sent"
                       /\ pc[s] = "counted" <=> pc'[s] = "counted"
<1>1. \A t \in Streams \ {s} : pc'[t] = pc[t]
  BY StepFrame DEF Same
<1>2. /\ IsFiniteSet(At({"sent"}))' /\ IsFiniteSet(At({"sent", "counted"}))'
      /\ sent \in Nat /\ counted \in Nat /\ processed \in Nat /\ succeeded \in Nat
      /\ processed + sent = Total(delivered) /\ succeeded + counted = Total(delivered)
  BY <1>1, AtMoves DEF SumInv, TypeOK
<1>3. CASE Sent(s)
  <2>1. /\ IsFiniteSet(Units(delivered))' /\ Total(delivered)' = Total(delivered) + 1
    BY <1>3, TotalUp DEF Sent, SumInv, TypeOK
  <2>2. pc[s] = "sending" /\ pc'[s] = "sent" /\ UNCHANGED <<processed, succeeded>>
    BY <1>3 DEF Sent, TypeOK
  <2>3. sent' = sent + 1 /\ counted' = counted + 1
    BY <1>1, <2>2, AtMoves DEF SumInv
  <2>. QED BY <1>2, <2>1, <2>2, <2>3 DEF SumInv
<1>4. CASE CountProcessed(s)
  <2>1. /\ pc[s] = "sent" /\ pc'[s] = "counted"
        /\ processed' = processed + 1 /\ UNCHANGED <<delivered, succeeded>>
    BY <1>4 DEF CountProcessed, TypeOK
  <2>2. sent' = sent - 1 /\ counted' = counted
    BY <1>1, <2>1, AtMoves DEF SumInv
  <2>. QED BY <1>2, <2>1, <2>2 DEF SumInv
<1>5. CASE CountSuccess(s)
  <2>1. /\ pc[s] = "counted" /\ pc'[s] = "loop"
        /\ succeeded' = succeeded + 1 /\ UNCHANGED <<delivered, processed>>
    BY <1>5 DEF CountSuccess, TypeOK
  <2>2. sent' = sent /\ counted' = counted - 1
    BY <1>1, <2>1, AtMoves DEF SumInv
  <2>. QED BY <1>2, <2>1, <2>2 DEF SumInv
<1>6. ASSUME Still PROVE SumInv'
  <2>1. sent' = sent /\ counted' = counted
    BY <1>1, <1>6, AtMoves DEF SumInv
  <2>. QED BY <1>2, <1>6, <2>1 DEF SumInv
<1>7. CASE Client(s) \/ Watch(s) \/ Producer(s)
  <2>1. Still
    BY <1>7 DEF Client, Admit, Reject, ClientEnds, Watch, Producer, Produce, Succeed, Fail,
                ReportCancel, SendResult, SendSecondResult, CloseEvents, TypeOK
  <2>. QED BY <1>6, <2>1
<1>8. CASE SelectEvent(s) \/ CancelDerived(s) \/ Release(s)
  <2>1. Still
    BY <1>8 DEF SelectEvent, CancelDerived, Release, TypeOK
  <2>. QED BY <1>6, <2>1
<1>9. ASSUME pc[s] \notin {"sent", "counted"}, Ends(s) \/ \E l \in Onward : Goto(s, l)
      PROVE  SumInv'
  <2>1. Still
    BY <1>9, Values DEF Ends, ReturnUnfailed, FailStream, ReturnWith, Goto, TypeOK
  <2>. QED BY <1>6, <2>1
<1>10. CASE SendFails(s)
  <2>1. Ends(s) /\ pc[s] = "sending"
    BY <1>10, StatusType, Values DEF SendFails, Ends, TypeOK
  <2>. QED BY <1>9, <2>1
<1>. QED
  BY <1>3, <1>4, <1>5, <1>7, <1>8, <1>9, <1>10, LoopSteps DEF StreamStep, Counts

LEMMA MetricsNext ==
  ASSUME TypeOK, \A s \in Streams : StreamInv(s), MetricsInv, [Next]_vars
  PROVE  MetricsInv'
<1>. DEFINE Rest == /\ IsFiniteSet(Failed) /\ Cardinality(Failed) <= errors
                    /\ IsFiniteSet(Blamed) /\ IsFiniteSet(Settled)
                    /\ errors <= Cardinality(Settled)
<1>2. ASSUME UNCHANGED <<delivered, pc, processed, succeeded>> PROVE SumInv'
  BY <1>2 DEF MetricsInv, SumInv, At
<1>4. ASSUME NEW s \in Streams, StreamStep(s) PROVE Rest'
  <2>1. /\ \A t \in Streams \ {s} : Same(t)
        /\ said[s] \subseteq said'[s] /\ (HasStatus(s) => HasStatus(s)')
    BY <1>4, StepFrame
  <2>2. ASSUME NEW k \in ErrorKinds, ~HasStatus(s), FailStream(s, k), Blames(s, k)'
        PROVE  Rest'
    <3>1. errors' = errors + 1 /\ HasStatus(s)'
      BY <2>2 DEF FailStream, ReturnWith, HasStatus, TypeOK
    <3>2. said'[s] # {}
      BY <2>2 DEF Blames
    <3>. QED BY <2>1, <2>2, <3>1, <3>2, FailureCounted
  <2>3. ASSUME UNCHANGED <<health, errors>>,
               code'[s] \in {"InvalidArgument", "DataLoss", "Internal"} => code'[s] = code[s]
        PROVE  Rest'
    BY <2>1, <2>3, NothingCounted
  <2>. QED BY <1>4, <2>2, <2>3, FailureBlamed
<1>5. ASSUME UNCHANGED <<code, said, pc, errors>> PROVE Rest'
  <2>1. Failed' = Failed /\ Blamed' = Blamed /\ Settled' = Settled
    BY <1>5 DEF Failed, Blamed, Settled, HasStatus
  <2>. QED BY <1>5, <2>1 DEF MetricsInv
<1>6. CASE Started \/ Stop \/ Shutdown
  BY <1>2, <1>5, <1>6, SourceFrame DEF MetricsInv
<1>7. CASE UNCHANGED vars
  BY <1>2, <1>5, <1>7 DEF MetricsInv, vars
<1>8. ASSUME NEW s \in Streams, StreamStep(s) PROVE MetricsInv'
  <2>1. SumInv'
    BY <1>8, SumNext DEF MetricsInv
  <2>2. Rest'
    BY <1>4, <1>8
  <2>. QED BY <2>1, <2>2 DEF MetricsInv
<1>. QED BY <1>6, <1>7, <1>8 DEF Next, StreamStep

\* The metrics count every event sent, each behind by the streams that have still to
\* raise it, and every failed stream once (source.go:385-391, 398-406): each stream
\* that failed is counted, and only streams whose producer reported or broke
\* something are.
THEOREM MetricsAddUp == Spec => []MetricsAgree
<1>1. Init => MetricsInv
  <2>. SUFFICES ASSUME Init PROVE MetricsInv
    OBVIOUS
  <2>1. SumInv
    <3>1. At({"sent"}) = {} /\ At({"sent", "counted"}) = {}
      BY DEF Init, At
    <3>2. IsFiniteSet(Units(delivered)) /\ Total(delivered) = 0
      BY TotalZero DEF Init
    <3>3. processed = 0 /\ succeeded = 0
      BY DEF Init
    <3>. HIDE DEF Init
    <3>4. IsFiniteSet({}) /\ Cardinality({}) = 0
      BY FS_EmptySet
    <3>. QED BY <3>1, <3>2, <3>3, <3>4 DEF SumInv
  <2>2. Failed = {} /\ Blamed = {} /\ Settled = {} /\ errors = 0
    BY DEF Init, Failed, Blamed, Settled
  <2>. QED BY <2>1, <2>2, FS_EmptySet DEF MetricsInv
<1>2. TypeOK /\ MetricsInv => MetricsAgree
  <2>. SUFFICES ASSUME TypeOK, MetricsInv PROVE errors <= Cardinality(Blamed)
    BY DEF MetricsInv, SumInv, MetricsAgree, Failed, Blamed
  <2>1. Settled \subseteq Blamed
    BY DEF Settled
  <2>2. /\ Cardinality(Settled) \in Nat /\ Cardinality(Blamed) \in Nat
        /\ Cardinality(Settled) <= Cardinality(Blamed)
    BY <2>1, FS_Subset, FS_CardinalityType DEF MetricsInv
  <2>. QED BY <2>2 DEF MetricsInv, TypeOK
<1>. QED BY <1>1, <1>2, MetricsNext, StreamsInvariant, TypeCorrect, PTL DEF Spec

-------------------------------------------------------------------------------
(* SourceStream implements ExclusiveStream *)

\* The goroutine of a stream stays with it until the deferred calls are done.
LEMMA ServesOn ==
  ASSUME TypeOK, NEW s \in Streams, Loop(s) \/ Sent(s) \/ SendFails(s), ~Release(s)
  PROVE  Live(s) /\ Live(s)'
<1>1. ASSUME pc[s] \notin {"idle", "returning", "done"},
             Ends(s) \/ \E l \in Onward : Goto(s, l)
      PROVE  Live(s) /\ Live(s)'
  BY <1>1, Values DEF Ends, ReturnUnfailed, FailStream, ReturnWith, Goto, Live, TypeOK
<1>2. CASE SelectEvent(s) \/ CancelDerived(s) \/ Sent(s) \/ SendFails(s)
  BY <1>2 DEF SelectEvent, CancelDerived, Sent, SendFails, ReturnUnfailed, ReturnWith, Live,
              TypeOK
<1>3. CASE Counts(s)
  BY <1>3, CountsFrame DEF Live
<1>. QED BY <1>1, <1>2, <1>3, LoopSteps

\* A producer runs for a stream that is served; what it does later is not followed.
ProducerServed(s) == producer[s] = "running" => Live(s)

LEMMA ServedNext ==
  ASSUME TypeOK, \A s \in Streams : StreamInv(s), \A s \in Streams : ProducerServed(s),
         [Next]_vars
  PROVE  \A s \in Streams : ProducerServed(s)'
<1>1. ASSUME NEW s \in Streams, StreamStep(s) PROVE \A t \in Streams : ProducerServed(t)'
  <2>1. ASSUME NEW t \in Streams \ {s} PROVE ProducerServed(t)'
    BY <1>1, <2>1, StepFrame DEF ProducerServed, Same, Live
  <2>2. CASE Client(s) \/ Watch(s)
    <3>1. pc[s] = "idle" => producer[s] = "none"
      BY DEF StreamInv, StartInv
    <3>2. ProducerServed(s)'
      BY <2>2, <3>1 DEF Client, Admit, Reject, ClientEnds, Watch, ProducerServed, Live, TypeOK
    <3>. QED BY <2>1, <3>2
  <2>3. CASE Producer(s)
    <3>1. pc' = pc /\ producer[s] = "running"
      BY <2>3 DEF Producer, Produce, Succeed, Fail, ReportCancel, SendResult,
                  SendSecondResult, CloseEvents, Running, TypeOK
    <3>2. ProducerServed(s)'
      BY <3>1 DEF ProducerServed, Live
    <3>. QED BY <2>1, <3>2
  <2>4. CASE Release(s)
    <3>1. ProducerServed(s)'
      BY <2>4 DEF Release, Forget, ProducerServed, TypeOK
    <3>. QED BY <2>1, <3>1
  <2>5. CASE (Loop(s) \/ Sent(s) \/ SendFails(s)) /\ ~Release(s)
    BY <2>1, <2>5, ServesOn DEF ProducerServed
  <2>. QED BY <1>1, <2>2, <2>3, <2>4, <2>5 DEF StreamStep
<1>2. CASE Started \/ Stop \/ Shutdown
  BY <1>2, SourceFrame DEF ProducerServed, Live
<1>3. CASE UNCHANGED vars
  BY <1>3 DEF vars, ProducerServed, Live
<1>. QED BY <1>1, <1>2, <1>3 DEF Next, StreamStep

LEMMA ServedInvariant == Spec => [](\A s \in Streams : ProducerServed(s))
<1>1. Init => \A s \in Streams : ProducerServed(s)
  BY DEF Init, ProducerServed
<1>2. TypeOK /\ (\A s \in Streams : StreamInv(s)) /\ (\A s \in Streams : ProducerServed(s))
        /\ [Next]_vars => (\A s \in Streams : ProducerServed(s))'
  BY ServedNext
<1>. QED BY <1>1, <1>2, StreamsInvariant, TypeCorrect, PTL DEF Spec

LEMMA InitExclusive == Init => Exclusive!Init
BY DEF Init, Exclusive!Init, Gate, Accepting, Outcome, Live

\* Steps that touch none of the variables of the abstract specification.
LEMMA ExclusiveStutter ==
  ASSUME UNCHANGED <<phase, produced, closed, delivered, code>>,
         \A t \in Streams : Live(t)' <=> Live(t)
  PROVE  UNCHANGED Exclusive!vars
BY DEF Exclusive!vars, Gate, Accepting, Outcome

\* A status is given once: OK completes the stream, any other cuts it.
LEMMA ExclusiveReturn ==
  ASSUME TypeOK, NEW s \in Streams, Live(s), code[s] = "none",
         NEW c \in Codes, code' = [code EXCEPT ![s] = c],
         UNCHANGED <<phase, produced, closed, delivered>>,
         \A t \in Streams : Live(t)' <=> Live(t),
         c = "OK" => closed[s] /\ delivered[s] = produced[s]
  PROVE  Exclusive!Complete(s) \/ Exclusive!Cut(s)
<1>. DEFINE o == [q \in Streams |-> Outcome(q)]
<1>1. Exclusive!Pending(s)
  BY DEF Exclusive!Pending, Outcome
<1>2. o' = [o EXCEPT ![s] = IF c = "OK" THEN "complete" ELSE "cut"]
  BY Values DEF Outcome, TypeOK
<1>3. UNCHANGED <<Gate, {q \in Streams : Live(q)}, {q \in Streams : closed[q]}>>
  BY DEF Gate, Accepting
<1>. QED BY <1>1, <1>2, <1>3 DEF Exclusive!Complete, Exclusive!Cut

LEMMA ExclusiveLoop ==
  ASSUME TypeOK, NEW s \in Streams, StreamInv(s), StreamInv(s)', Loop(s) \/ SendFails(s)
  PROVE  Exclusive!Next \/ UNCHANGED Exclusive!vars
<1>1. phase' = phase /\ \A t \in Streams \ {s} : Live(t)' <=> Live(t)
  BY StepFrame DEF StreamStep, Same, Live
<1>2. CASE Release(s)
  <2>1. code[s] # "none" /\ pc[s] = "returning" /\ pc'[s] = "done"
    BY <1>2 DEF Release, StreamInv, StartInv, HasStatus, TypeOK
  <2>2. {t \in Streams : Live(t)}' = {t \in Streams : Live(t)} \ {s}
    BY <1>1, <2>1 DEF Live
  <2>3. {t \in Streams : closed[t]}' = {t \in Streams : closed[t]} \ {s}
    BY <1>2 DEF Release, Forget, TypeOK
  <2>4. Exclusive!Release(s)
    BY <1>2, <2>1, <2>2, <2>3 DEF Exclusive!Release, Release, Gate, Accepting, Outcome, Live
  <2>. QED BY <2>4 DEF Exclusive!Next
<1>3. CASE ~Release(s)
  <2>1. Live(s) /\ \A t \in Streams : Live(t)' <=> Live(t)
    BY <1>1, <1>3, ServesOn
  <2>2. CASE SelectEvent(s) \/ Counts(s) \/ CancelDerived(s)
    BY <1>1, <2>1, <2>2, ExclusiveStutter, CountsFrame DEF SelectEvent, CancelDerived
  <2>3. ASSUME NEW c \in Codes, ReturnWith(s, c), ~HasStatus(s),
               UNCHANGED <<produced, closed, delivered>>
        PROVE  Exclusive!Next
    <3>1. code[s] = "none" /\ code' = [code EXCEPT ![s] = c]
      BY <2>3 DEF ReturnWith, StreamInv, StartInv
    <3>2. c = "OK" => closed[s] /\ delivered[s] = produced[s]
      <4>1. code'[s] = c /\ pc'[s] = "returning"
        BY <2>3 DEF ReturnWith, TypeOK
      <4>2. (code[s] = "OK" /\ pc[s] = "returning" => Complete(s))'
        BY DEF StreamInv, OutcomeInv, Fits
      <4>. QED BY <2>3, <4>1, <4>2 DEF Complete
    <3>3. Exclusive!Complete(s) \/ Exclusive!Cut(s)
      BY <1>1, <2>1, <2>3, <3>1, <3>2, ExclusiveReturn
    <3>. QED BY <3>3 DEF Exclusive!Next
  <2>4. ASSUME Ends(s), ~HasStatus(s), UNCHANGED <<produced, closed>> PROVE Exclusive!Next
    BY <2>3, <2>4, StatusType DEF Ends, ReturnUnfailed, FailStream
  <2>5. ASSUME NEW l \in Onward, Goto(s, l), UNCHANGED <<produced, closed>>
        PROVE  UNCHANGED Exclusive!vars
    BY <1>1, <2>1, <2>5, ExclusiveStutter DEF Goto
  <2>6. CASE SendFails(s)
    <3>1. Ends(s) /\ ~HasStatus(s)
      BY <2>6, StatusType, Values DEF SendFails, Ends, HasStatus, TypeOK
    <3>. QED BY <2>4, <2>6, <3>1 DEF SendFails
  <2>7. ASSUME NEW k, StartFails(s, k) PROVE UNCHANGED <<produced, closed>>
    BY <2>7, Zenon DEF StartFails
  <2>8. StartProducer(s) => UNCHANGED <<produced, closed>>
    BY DEF StartProducer
  <2>. QED
    BY <1>3, <2>2, <2>4, <2>5, <2>6, <2>7, <2>8, LoopSteps DEF StartFailure, HasStatus
<1>. QED BY <1>2, <1>3

LEMMA ExclusiveClient ==
  ASSUME TypeOK, OneStreamInv, NEW s \in Streams, StreamInv(s), Client(s) \/ Watch(s)
  PROVE  Exclusive!Next \/ UNCHANGED Exclusive!vars
<1>1. \A t \in Streams \ {s} : Live(t)' <=> Live(t)
  BY StepFrame DEF StreamStep, Same, Live
<1>2. pc[s] = "idle" => code[s] = "none" /\ ~Live(s)
  BY DEF StreamInv, StartInv, HasStatus, Live
<1>3. CASE Admit(s)
  <2>1. \A t \in Streams : ~Live(t)
    BY <1>3 DEF Admit, OneStreamInv
  <2>2. {t \in Streams : Live(t)} = {} /\ {t \in Streams : Live(t)}' = {s}
    BY <1>1, <1>3, <2>1 DEF Admit, Live, TypeOK
  <2>3. Exclusive!Admit(s)
    BY <1>2, <1>3, <2>2 DEF Admit, Exclusive!Admit, Exclusive!Fresh, Gate, Accepting, Outcome
  <2>. QED BY <2>3 DEF Exclusive!Next
<1>4. CASE Reject(s)
  <2>1. {t \in Streams : Live(t)} # {}
    BY <1>4 DEF Reject, OneStreamInv
  <2>2. {t \in Streams : Live(t)}' = {t \in Streams : Live(t)}
    BY <1>1, <1>4 DEF Reject, Live, TypeOK
  <2>3. [t \in Streams |-> Outcome(t)]' = [[t \in Streams |-> Outcome(t)] EXCEPT ![s] = "cut"]
    BY <1>4 DEF Reject, Outcome, TypeOK
  <2>4. Exclusive!TurnAway(s)
    BY <1>2, <1>4, <2>1, <2>2, <2>3
       DEF Reject, Exclusive!TurnAway, Exclusive!Fresh, Gate, Accepting, Outcome
  <2>. QED BY <2>4 DEF Exclusive!Next
<1>5. CASE Watch(s) \/ \E e \in CtxErrors : ClientEnds(s, e)
  BY <1>5, ExclusiveStutter DEF Watch, ClientEnds, Live
<1>. QED BY <1>3, <1>4, <1>5 DEF Client

LEMMA ExclusiveEvents ==
  ASSUME TypeOK, NEW s \in Streams, StreamInv(s), ProducerServed(s), Producer(s) \/ Sent(s)
  PROVE  Exclusive!Next \/ UNCHANGED Exclusive!vars
<1>1. {t \in Streams : Live(t)}' = {t \in Streams : Live(t)}
  <2>1. CASE Producer(s)
    <3>1. pc' = pc
      BY <2>1 DEF Producer, Produce, Succeed, Fail, ReportCancel, SendResult,
                  SendSecondResult, CloseEvents
    <3>. QED BY <3>1 DEF Live
  <2>2. CASE Sent(s)
    BY <2>2 DEF Sent, Live, TypeOK
  <2>. QED BY <2>1, <2>2
<1>2. Running(s) => Live(s) /\ ~closed[s]
  BY DEF Running, ProducerServed, StreamInv, CountInv
<1>3. ASSUME NEW e \in {"event", "nil"}, Produce(s, e) PROVE Exclusive!Next
  <2>1. Exclusive!Produce(s)
    BY <1>1, <1>2, <1>3 DEF Produce, Exclusive!Produce, Gate, Accepting, Outcome
  <2>. QED BY <2>1 DEF Exclusive!Next
<1>4. CASE CloseEvents(s)
  <2>1. {t \in Streams : closed[t]}' = {t \in Streams : closed[t]} \cup {s}
    BY <1>4 DEF CloseEvents, TypeOK
  <2>2. Exclusive!Seal(s)
    BY <1>1, <1>2, <1>4, <2>1 DEF CloseEvents, Exclusive!Seal, Gate, Accepting, Outcome
  <2>. QED BY <2>2 DEF Exclusive!Next
<1>5. CASE Sent(s)
  <2>1. pc[s] = "sending" /\ code[s] = "none" /\ Live(s)
    BY <1>5 DEF Sent, StreamInv, StartInv, HasStatus, Live
  <2>2. delivered[s] < produced[s]
    BY <2>1 DEF StreamInv, CountInv, Looping, TypeOK
  <2>3. Exclusive!Deliver(s)
    BY <1>1, <1>5, <2>1, <2>2
       DEF Sent, Exclusive!Deliver, Exclusive!Pending, Gate, Accepting, Outcome
  <2>. QED BY <2>3 DEF Exclusive!Next
<1>6. CASE \/ Succeed(s) \/ ReportCancel(s) \/ SendSecondResult(s)
           \/ \E k \in Kinds : Fail(s, k)
  BY <1>6, ExclusiveStutter DEF Succeed, Fail, ReportCancel, SendResult, SendSecondResult, Live
<1>. QED BY <1>3, <1>4, <1>5, <1>6 DEF Producer

LEMMA ExclusiveSource ==
  ASSUME Started \/ Stop \/ Shutdown
  PROVE  Exclusive!Next \/ UNCHANGED Exclusive!vars
<1>1. UNCHANGED <<produced, closed, delivered, code, pc>>
  BY SourceFrame
<1>2. UNCHANGED <<{t \in Streams : Live(t)}, {t \in Streams : closed[t]},
                  [t \in Streams |-> Outcome(t)]>>
  BY <1>1 DEF Live, Outcome
<1>3. CASE Started \/ Stop
  BY <1>1, <1>2, <1>3 DEF Started, Stop, Gate, Accepting, Exclusive!vars
<1>4. CASE BeginDrain
  <2>1. Exclusive!Close
    BY <1>1, <1>2, <1>4 DEF BeginDrain, Gate, Accepting, Exclusive!Close
  <2>. QED BY <2>1 DEF Exclusive!Next
<1>5. CASE Drained
  <2>1. {t \in Streams : Live(t)} = {}
    BY <1>5 DEF Drained
  <2>2. Exclusive!Rest
    BY <1>1, <1>2, <1>5, <2>1 DEF Drained, Gate, Accepting, Exclusive!Rest
  <2>. QED BY <2>2 DEF Exclusive!Next
<1>6. CASE StopHealth
  BY <1>1, <1>2, <1>6 DEF StopHealth, Gate, Accepting, Exclusive!vars
<1>. QED BY <1>3, <1>4, <1>5, <1>6 DEF Shutdown

\* The source implements the exclusive stream, for any number of streams that
\* compete for it: no stream is complete with an event undelivered, none is turned
\* away without another that is served, and a source at rest serves none.
THEOREM Refinement == Spec => ImplementsExclusive
<1>. DEFINE Inv == /\ TypeOK /\ OneStreamInv
                   /\ \A s \in Streams : StreamInv(s)
                   /\ \A s \in Streams : ProducerServed(s)
<1>1. Inv /\ Inv' /\ [Next]_vars => [Exclusive!Next]_(Exclusive!vars)
  <2>. SUFFICES ASSUME Inv, Inv', [Next]_vars
                PROVE  Exclusive!Next \/ UNCHANGED Exclusive!vars
    OBVIOUS
  <2>1. CASE UNCHANGED vars
    BY <2>1, ExclusiveStutter DEF vars, Live
  <2>2. ASSUME NEW s \in Streams, StreamStep(s)
        PROVE  Exclusive!Next \/ UNCHANGED Exclusive!vars
    <3>1. StreamInv(s) /\ StreamInv(s)' /\ ProducerServed(s)
      OBVIOUS
    <3>. QED BY <2>2, <3>1, ExclusiveLoop, ExclusiveClient, ExclusiveEvents DEF StreamStep
  <2>. QED BY <2>1, <2>2, ExclusiveSource DEF Next, StreamStep
<1>2. Spec => []Inv
  BY TypeCorrect, OneStreamInvariant, StreamsInvariant, ServedInvariant, PTL
<1>. QED BY <1>1, <1>2, InitExclusive, PTL DEF Spec, ImplementsExclusive, Exclusive!Spec
===============================================================================
