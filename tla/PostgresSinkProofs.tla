-------------------------- MODULE PostgresSinkProofs --------------------------
(***************************************************************************)
(* Theorems about PostgresSink, for any streams, batches and pool.  The    *)
(* types rest on the pool, whose connections in use never exceed its       *)
(* limit.  Batches are atomic because the rows of a call are those of one  *)
(* batch or one event from its start to its end (JobInv), and because      *)
(* nothing but the end of a call touches the table.  What a client that    *)
(* retries relies on needs what a stream still owes (StreamInv): the       *)
(* events of its call are sent and not stored, the others it was sent are  *)
(* stored once, or it has an error to report.                              *)
(***************************************************************************)
EXTENDS PostgresSink, TallyProofs

-------------------------------------------------------------------------------
(* Types, and the pool: nothing but its own count says how many connections  *)
(* the transactions that were left open keep.                                *)

Places == {"idle", "begin", "acquire"} \cup Holding

ShapeInv ==
  /\ phase \in {"connect", "schema", "open", "failed", "closed"}
  /\ ended \subseteq Streams
  /\ pc \in [Streams -> Places]
  /\ job \in [Streams -> SUBSET Events]
  /\ todo \in [Streams -> SUBSET Events]
  /\ leaked \in [Streams -> Nat]
  /\ table \in [Streams -> [Events -> Nat]]
  /\ sent \in [Streams -> SUBSET Events]
  /\ failed \subseteq Streams /\ acked \subseteq Streams

Busy == {s \in Streams : pc[s] \in Holding}

PoolInv ==
  /\ IsFiniteSet(Units(leaked)) /\ IsFiniteSet(Busy)
  /\ Used <= MaxOpenConns

LEMMA UsedIs == Used = Total(leaked) + Cardinality(Busy)
BY DEF Used, Busy

\* What a step may do to the pool: give connections back, take a free one, leave
\* one to a transaction that nobody ends, or have that one rolled back.
LEMMA PoolSteps ==
  ASSUME ShapeInv, [Next]_vars
  PROVE  \/ UNCHANGED leaked /\ Busy' \subseteq Busy
         \/ \E s \in Streams :
              Used < MaxOpenConns /\ UNCHANGED leaked /\ s \notin Busy /\ Busy' = Busy \cup {s}
         \/ \E s \in Streams :
              s \in Busy /\ leaked' = [leaked EXCEPT ![s] = @ + 1] /\ Busy' = Busy \ {s}
         \/ \E s \in Streams :
              leaked[s] > 0 /\ leaked' = [leaked EXCEPT ![s] = @ - 1] /\ Busy' = Busy
<1>. DEFINE Back == UNCHANGED leaked /\ Busy' \subseteq Busy
<1>1. CASE UNCHANGED vars \/ Ping \/ InitializeSchema \/ Close
  BY <1>1 DEF vars, Ping, InitializeSchema, Close, Become, Busy
<1>2. ASSUME NEW s \in Streams, StreamEnds(s) \/ Acknowledge(s) PROVE Back
  BY <1>2 DEF StreamEnds, Acknowledge, Busy
<1>3. ASSUME NEW s \in Streams, ContextRollback(s)
      PROVE  leaked[s] > 0 /\ leaked' = [leaked EXCEPT ![s] = @ - 1] /\ Busy' = Busy
  BY <1>3 DEF ContextRollback, Busy
<1>4. ASSUME NEW s \in Streams, NEW here, NEW there \in {"idle", "begin", "acquire"},
             pc' = [pc EXCEPT ![s] = there]
      PROVE  Busy' = Busy \ {s}
  BY <1>4 DEF ShapeInv, Busy, Holding
<1>5. ASSUME NEW s \in Streams, Callback(s) PROVE Back
  <2>1. ASSUME NEW b \in Batches, UnmarshalFails(s, b) PROVE Back
    BY <2>1 DEF UnmarshalFails, Busy
  <2>2. ASSUME NEW there \in {"begin", "acquire"}, NEW j, Call(s, there, j) PROVE Back
    BY <1>4, <2>2 DEF Call
  <2>. QED BY <1>5, <2>1, <2>2 DEF Callback, InsertBatch, InsertEvent
<1>6. ASSUME NEW s \in Streams, NEW here, Return(s, here) PROVE Busy' = Busy \ {s}
  BY <1>4, <1>6 DEF Return, Goto
<1>7. ASSUME NEW s \in Streams, NEW here, NEW there \in Holding, here \notin Holding,
             Acquire(s, here, there)
      PROVE  Used < MaxOpenConns /\ UNCHANGED leaked /\ s \notin Busy /\ Busy' = Busy \cup {s}
  BY <1>7 DEF Acquire, Goto, ShapeInv, Busy
<1>8. ASSUME NEW s \in Streams, BeginTx(s) \/ TakeConn(s)
      PROVE  \/ Back
             \/ Used < MaxOpenConns /\ UNCHANGED leaked /\ s \notin Busy /\ Busy' = Busy \cup {s}
  <2>1. CASE Acquire(s, "begin", "prepare") \/ Acquire(s, "acquire", "exec")
    BY <1>7, <2>1 DEF Holding
  <2>2. CASE AcquireFails(s, "begin") \/ AcquireFails(s, "acquire")
    BY <1>6, <2>2 DEF AcquireFails, Fail
  <2>. QED BY <1>8, <2>1, <2>2 DEF BeginTx, TakeConn
<1>9. ASSUME NEW s \in Streams, PrepareContext(s) \/ \E e \in Events : StmtExec(s, e) PROVE Back
  BY <1>9 DEF PrepareContext, StmtExec, Goto, ShapeInv, Busy, Holding
<1>10. ASSUME NEW s \in Streams, PrepareFails(s) \/ CommitFails(s) \/ ExecFails(s) PROVE Back
  BY <1>6, <1>10 DEF PrepareFails, CommitFails, ExecFails, Fail
<1>11. ASSUME NEW s \in Streams, Commit(s) \/ ExecContext(s) PROVE Back
  BY <1>6, <1>11 DEF Commit, ExecContext, Succeed, AnswerLost, Store
<1>12. ASSUME NEW s \in Streams, StmtExecFails(s)
       PROVE  s \in Busy /\ leaked' = [leaked EXCEPT ![s] = @ + 1] /\ Busy' = Busy \ {s}
  <2>1. s \in Busy
    BY <1>12 DEF StmtExecFails, Return, Goto, Busy, Holding
  <2>. QED BY <1>6, <1>12, <2>1 DEF StmtExecFails
<1>. QED
  BY <1>1, <1>2, <1>3, <1>5, <1>8, <1>9, <1>10, <1>11, <1>12 DEF Next, Insert

LEMMA PoolNext == ShapeInv /\ PoolInv /\ [Next]_vars => PoolInv'
<1>. SUFFICES ASSUME ShapeInv, PoolInv, [Next]_vars PROVE PoolInv'
  OBVIOUS
<1>1. /\ Total(leaked) \in Nat /\ Cardinality(Busy) \in Nat
      /\ Total(leaked) + Cardinality(Busy) <= MaxOpenConns
      /\ MaxOpenConns \in Nat
  BY UsedIs, TotalNat, FS_CardinalityType, SinkAssumption DEF PoolInv
<1>. SUFFICES /\ IsFiniteSet(Units(leaked')) /\ IsFiniteSet(Busy')
              /\ Total(leaked') + Cardinality(Busy') <= MaxOpenConns
  <2>1. Used' = Total(leaked') + Cardinality(Busy')
    BY DEF Used, Busy, Total, Units
  <2>. QED BY <2>1 DEF PoolInv, Units
<1>2. CASE UNCHANGED leaked /\ Busy' \subseteq Busy
  <2>1. IsFiniteSet(Busy') /\ Cardinality(Busy') <= Cardinality(Busy)
    BY <1>2, FS_Subset DEF PoolInv
  <2>2. Cardinality(Busy') \in Nat
    BY <2>1, FS_CardinalityType
  <2>. QED BY <1>1, <1>2, <2>1, <2>2 DEF PoolInv
<1>3. ASSUME NEW s \in Streams,
             Used < MaxOpenConns, UNCHANGED leaked, s \notin Busy, Busy' = Busy \cup {s}
      PROVE  /\ IsFiniteSet(Units(leaked')) /\ IsFiniteSet(Busy')
             /\ Total(leaked') + Cardinality(Busy') <= MaxOpenConns
  <2>1. IsFiniteSet(Busy') /\ Cardinality(Busy') = Cardinality(Busy) + 1
    BY <1>3, FS_AddElement DEF PoolInv
  <2>. QED BY <1>1, <1>3, <2>1, UsedIs DEF PoolInv
<1>4. ASSUME NEW s \in Streams,
             s \in Busy, leaked' = [leaked EXCEPT ![s] = @ + 1], Busy' = Busy \ {s}
      PROVE  /\ IsFiniteSet(Units(leaked')) /\ IsFiniteSet(Busy')
             /\ Total(leaked') + Cardinality(Busy') <= MaxOpenConns
  <2>1. IsFiniteSet(Busy') /\ Cardinality(Busy') = Cardinality(Busy) - 1
    BY <1>4, FS_RemoveElement DEF PoolInv
  <2>2. IsFiniteSet(Units(leaked')) /\ Total(leaked') = Total(leaked) + 1
    BY <1>4, TotalUp DEF PoolInv, ShapeInv
  <2>. QED BY <1>1, <2>1, <2>2
<1>5. ASSUME NEW s \in Streams,
             leaked[s] > 0, leaked' = [leaked EXCEPT ![s] = @ - 1], Busy' = Busy
      PROVE  /\ IsFiniteSet(Units(leaked')) /\ IsFiniteSet(Busy')
             /\ Total(leaked') + Cardinality(Busy') <= MaxOpenConns
  <2>1. IsFiniteSet(Units(leaked')) /\ Total(leaked') + 1 = Total(leaked)
    BY <1>5, TotalDown DEF PoolInv, ShapeInv
  <2>2. Total(leaked') \in Nat
    BY <2>1, TotalNat
  <2>. QED BY <1>1, <1>5, <2>1, <2>2 DEF PoolInv
<1>. QED BY <1>2, <1>3, <1>4, <1>5, PoolSteps

LEMMA ShapeNext == ShapeInv /\ PoolInv /\ [Next]_vars => ShapeInv'
<1>. SUFFICES ASSUME ShapeInv, PoolInv, [Next]_vars PROVE ShapeInv'
  OBVIOUS
<1>. USE DEF clientVars
<1>1. ASSUME NEW s \in Streams, NEW here, Return(s, here)
      PROVE  /\ pc' \in [Streams -> Places]
             /\ job' \in [Streams -> SUBSET Events] /\ todo' \in [Streams -> SUBSET Events]
  BY <1>1 DEF Return, Goto, ShapeInv, Places
<1>2. ASSUME NEW s \in Streams, NEW here, NEW there \in Places, Goto(s, here, there)
      PROVE  pc' \in [Streams -> Places]
  BY <1>2 DEF Goto, ShapeInv
<1>3. CASE UNCHANGED vars
  BY <1>3 DEF vars, ShapeInv
<1>4. CASE Ping \/ InitializeSchema \/ Close
  BY <1>4 DEF Ping, InitializeSchema, Close, Become, ShapeInv
<1>5. ASSUME NEW s \in Streams, StreamEnds(s) \/ Acknowledge(s) PROVE ShapeInv'
  BY <1>5 DEF StreamEnds, Acknowledge, ShapeInv
<1>6. ASSUME NEW s \in Streams, ContextRollback(s) PROVE ShapeInv'
  <2>1. leaked' \in [Streams -> Nat]
    BY <1>6 DEF ContextRollback, ShapeInv
  <2>. QED BY <1>6, <2>1 DEF ContextRollback, ShapeInv
<1>7. ASSUME NEW s \in Streams, Callback(s) PROVE ShapeInv'
  <2>1. ASSUME NEW there \in {"begin", "acquire"}, NEW j \in SUBSET Events, Call(s, there, j)
        PROVE  ShapeInv'
    <3>1. pc' \in [Streams -> Places]
      BY <2>1 DEF Call, ShapeInv, Places
    <3>2. sent' \in [Streams -> SUBSET Events]
      BY <2>1 DEF Call, Sends, ShapeInv
    <3>. QED BY <2>1, <3>1, <3>2 DEF Call, Sends, ShapeInv
  <2>2. ASSUME NEW b \in Batches, UnmarshalFails(s, b) PROVE ShapeInv'
    <3>1. b \in SUBSET Events
      BY DEF Events
    <3>2. sent' \in [Streams -> SUBSET Events]
      BY <2>2, <3>1 DEF UnmarshalFails, Sends, ShapeInv
    <3>. QED BY <2>2, <3>2 DEF UnmarshalFails, Sends, ShapeInv
  <2>3. ASSUME NEW b \in Batches, InsertBatch(s, b) PROVE ShapeInv'
    <3>1. b \in SUBSET Events
      BY DEF Events
    <3>. QED BY <2>1, <2>3, <3>1 DEF InsertBatch
  <2>4. ASSUME NEW e \in Singles, InsertEvent(s, e) PROVE ShapeInv'
    <3>1. {e} \in SUBSET Events
      BY DEF Events
    <3>. QED BY <2>1, <2>4, <3>1 DEF InsertEvent
  <2>. QED BY <1>7, <2>2, <2>3, <2>4 DEF Callback
<1>8. ASSUME NEW s \in Streams, BeginTx(s) \/ TakeConn(s) PROVE ShapeInv'
  <2>1. CASE Acquire(s, "begin", "prepare") \/ Acquire(s, "acquire", "exec")
    <3>1. "prepare" \in Places /\ "exec" \in Places
      BY DEF Places, Holding
    <3>2. pc' \in [Streams -> Places]
      BY <1>2, <2>1, <3>1 DEF Acquire
    <3>. QED BY <2>1, <3>2 DEF Acquire, ShapeInv
  <2>2. CASE AcquireFails(s, "begin") \/ AcquireFails(s, "acquire")
    BY <1>1, <2>2 DEF AcquireFails, Fail, ShapeInv
  <2>. QED BY <1>8, <2>1, <2>2 DEF BeginTx, TakeConn
<1>9. ASSUME NEW s \in Streams, PrepareContext(s) \/ \E e \in Events : StmtExec(s, e)
      PROVE  ShapeInv'
  <2>1. "insert" \in Places
    BY DEF Places, Holding
  <2>2. pc' \in [Streams -> Places]
    BY <1>2, <1>9, <2>1 DEF PrepareContext, StmtExec
  <2>3. todo' \in [Streams -> SUBSET Events]
    BY <1>9 DEF PrepareContext, StmtExec, ShapeInv
  <2>. QED BY <1>9, <2>2, <2>3 DEF PrepareContext, StmtExec, ShapeInv
<1>10. ASSUME NEW s \in Streams, PrepareFails(s) \/ CommitFails(s) \/ ExecFails(s)
       PROVE  ShapeInv'
  BY <1>1, <1>10 DEF PrepareFails, CommitFails, ExecFails, Fail, ShapeInv
<1>11. ASSUME NEW s \in Streams, Commit(s) \/ ExecContext(s) PROVE ShapeInv'
  <2>1. ASSUME Store(s, job[s]) PROVE table' \in [Streams -> [Events -> Nat]]
    <3>1. [e \in Events |-> table[s][e] + IF e \in job[s] THEN 1 ELSE 0] \in [Events -> Nat]
      BY DEF ShapeInv
    <3>. QED BY <2>1, <3>1 DEF Store, ShapeInv
  <2>. QED BY <1>1, <1>11, <2>1 DEF Commit, ExecContext, Succeed, AnswerLost, ShapeInv
<1>12. ASSUME NEW s \in Streams, StmtExecFails(s) PROVE ShapeInv'
  <2>1. leaked' \in [Streams -> Nat]
    BY <1>12 DEF StmtExecFails, ShapeInv
  <2>. QED BY <1>1, <1>12, <2>1 DEF StmtExecFails, ShapeInv
<1>. QED
  BY <1>3, <1>4, <1>5, <1>6, <1>7, <1>8, <1>9, <1>10, <1>11, <1>12 DEF Next, Insert

LEMMA ShapeInit == Init => ShapeInv /\ PoolInv
<1>. SUFFICES ASSUME Init PROVE ShapeInv /\ PoolInv
  OBVIOUS
<1>1. ShapeInv
  BY SinkAssumption DEF Init, ShapeInv, Places
<1>2. IsFiniteSet(Units(leaked)) /\ Total(leaked) = 0
  BY TotalZero DEF Init
<1>3. Busy = {}
  BY DEF Init, Busy, Holding
<1>. QED BY <1>1, <1>2, <1>3, FS_EmptySet, UsedIs, SinkAssumption DEF PoolInv

-------------------------------------------------------------------------------
(* What a step may do to the rows. *)

\* No call begins or ends, and no row is written.
Rests ==
  /\ UNCHANGED <<table, job, sent, acked, failed>> /\ ended \subseteq ended'
  /\ \A s \in Streams : pc'[s] = "idle" <=> pc[s] = "idle"

\* A call begins, or its events go no further than an error.
Begins(s, events) ==
  /\ pc[s] = "idle" /\ Sends(s, events)
  /\ UNCHANGED <<table, ended>>
  /\ \A u \in Streams \ {s} : pc'[u] = pc[u]
  /\ \/ job' = [job EXCEPT ![s] = events] /\ failed' = failed /\ pc'[s] # "idle"
     \/ job' = job /\ failed' = failed \cup {s} /\ pc' = pc

\* A call ends: with its rows, or with an error, or with both.
Ends(s) ==
  /\ pc[s] # "idle" /\ pc' = [pc EXCEPT ![s] = "idle"]
  /\ job' = [job EXCEPT ![s] = {}]
  /\ Store(s, job[s]) \/ UNCHANGED table
  /\ \/ Store(s, job[s]) /\ failed' = failed
     \/ failed' = failed \cup {s}
  /\ UNCHANGED <<ended, sent, acked>>

LEMMA Steps ==
  ASSUME ShapeInv, [Next]_vars
  PROVE  \/ Rests
         \/ \E s \in Streams : Acknowledge(s) \/ Ends(s)
         \/ \E s \in Streams : \/ \E b \in Batches : Begins(s, b)
                              \/ \E e \in Singles : Begins(s, {e})
<1>. USE DEF clientVars
<1>1. CASE UNCHANGED vars \/ Ping \/ InitializeSchema \/ Close
  BY <1>1 DEF vars, Ping, InitializeSchema, Close, Become, Rests
<1>2. ASSUME NEW s \in Streams, StreamEnds(s) \/ ContextRollback(s) PROVE Rests
  BY <1>2 DEF StreamEnds, ContextRollback, Rests
<1>3. ASSUME NEW s \in Streams, NEW here, NEW there, Goto(s, here, there),
             here # "idle", there # "idle"
      PROVE  \A u \in Streams : pc'[u] = "idle" <=> pc[u] = "idle"
  BY <1>3 DEF Goto, ShapeInv
<1>4. ASSUME NEW s \in Streams, PrepareContext(s) \/ \E e \in Events : StmtExec(s, e) PROVE Rests
  BY <1>3, <1>4 DEF PrepareContext, StmtExec, Rests
<1>5. ASSUME NEW s \in Streams, NEW here, here # "idle", Fail(s, here) PROVE Ends(s)
  BY <1>5 DEF Fail, Return, Goto, Ends
<1>6. ASSUME NEW s \in Streams, BeginTx(s) \/ TakeConn(s) PROVE Rests \/ Ends(s)
  <2>1. CASE Acquire(s, "begin", "prepare") \/ Acquire(s, "acquire", "exec")
    BY <1>3, <2>1 DEF Acquire, Rests
  <2>2. CASE AcquireFails(s, "begin") \/ AcquireFails(s, "acquire")
    BY <1>5, <2>2 DEF AcquireFails
  <2>. QED BY <1>6, <2>1, <2>2 DEF BeginTx, TakeConn
<1>7. ASSUME NEW s \in Streams, PrepareFails(s) \/ CommitFails(s) \/ ExecFails(s) PROVE Ends(s)
  BY <1>5, <1>7 DEF PrepareFails, CommitFails, ExecFails
<1>8. ASSUME NEW s \in Streams, StmtExecFails(s) PROVE Ends(s)
  BY <1>8 DEF StmtExecFails, Return, Goto, Ends
<1>9. ASSUME NEW s \in Streams, Commit(s) \/ ExecContext(s) PROVE Ends(s)
  BY <1>9 DEF Commit, ExecContext, Succeed, AnswerLost, Return, Goto, Ends
<1>10. ASSUME NEW s \in Streams, NEW events, NEW there, there # "idle", Call(s, there, events)
       PROVE  Begins(s, events)
  BY <1>10 DEF Call, Begins, ShapeInv
<1>11. ASSUME NEW s \in Streams, NEW b \in Batches, InsertBatch(s, b) \/ UnmarshalFails(s, b)
       PROVE  Begins(s, b)
  <2>1. CASE UnmarshalFails(s, b)
    BY <2>1 DEF UnmarshalFails, Begins
  <2>. QED BY <1>10, <1>11, <2>1 DEF InsertBatch
<1>12. ASSUME NEW s \in Streams, NEW e \in Singles, InsertEvent(s, e) PROVE Begins(s, {e})
  BY <1>10, <1>12 DEF InsertEvent
<1>. QED
  BY <1>1, <1>2, <1>4, <1>6, <1>7, <1>8, <1>9, <1>11, <1>12 DEF Next, Insert, Callback

Jobs == Batches \cup {{e} : e \in Singles} \cup {{}}

JobInv == job \in [Streams -> Jobs]

\* The rows of stream s for event e.
RowInv(s, e) ==
  /\ table[s][e] \in {0, 1}
  /\ table[s][e] = 1 => e \in sent[s] \ job[s]
  /\ s \notin failed /\ e \in sent[s] \ job[s] => table[s][e] = 1

StreamInv(s) ==
  /\ job[s] \subseteq sent[s]
  /\ pc[s] = "idle" => job[s] = {}
  /\ s \in acked => pc[s] = "idle" /\ s \in ended
  /\ \A e \in Events : RowInv(s, e)

\* Of two streams that had the same event, one has ended without a clean answer.
RetryInv ==
  \A s, u \in Streams :
    s # u /\ sent[s] \cap sent[u] # {} => {s, u} \cap (ended \ Clean) # {}

Inv == JobInv /\ AllOrNothing /\ (\A s \in Streams : StreamInv(s)) /\ RetryInv

\* The rows of a call are all of a batch that shares no event, or none of them.
LEMMA WholeOrNone ==
  ASSUME NEW j \in Jobs, NEW b \in Batches,
         b \cap (Singles \cup UNION (Batches \ {b})) = {},
         NEW e \in b, NEW f \in b
  PROVE  e \in j <=> f \in j
<1>1. CASE j \in Batches
  BY <1>1
<1>2. CASE \E c \in Singles : j = {c}
  BY <1>2
<1>. QED BY <1>1, <1>2 DEF Jobs

LEMMA Stored ==
  ASSUME ShapeInv, NEW s \in Streams, Store(s, job[s])
  PROVE  /\ \A u \in Streams \ {s} : table'[u] = table[u]
         /\ \A e \in Events : table'[s][e] = table[s][e] + IF e \in job[s] THEN 1 ELSE 0
BY DEF Store, ShapeInv

LEMMA AtomicStore ==
  ASSUME ShapeInv, JobInv, AllOrNothing, NEW s \in Streams, Store(s, job[s])
  PROVE  AllOrNothing'
<1>. SUFFICES ASSUME NEW u \in Streams, NEW b \in Batches,
                     b \cap (Singles \cup UNION (Batches \ {b})) = {},
                     NEW e \in b, NEW f \in b
              PROVE  table'[u][e] = table'[u][f]
  BY DEF AllOrNothing
<1>1. e \in Events /\ f \in Events
  BY DEF Events
<1>2. table[u][e] = table[u][f]
  BY DEF AllOrNothing
<1>3. e \in job[s] <=> f \in job[s]
  BY WholeOrNone DEF JobInv
<1>. QED BY <1>1, <1>2, <1>3, Stored

LEMMA RestsInv == ShapeInv /\ Inv /\ Rests => Inv'
<1>. SUFFICES ASSUME ShapeInv, Inv, Rests PROVE Inv'
  OBVIOUS
<1>1. JobInv' /\ AllOrNothing'
  BY DEF Inv, Rests, JobInv, AllOrNothing
<1>2. ASSUME NEW s \in Streams PROVE StreamInv(s)'
  BY DEF Inv, Rests, StreamInv, RowInv
<1>3. RetryInv'
  BY DEF Inv, Rests, RetryInv, Clean
<1>. QED BY <1>1, <1>2, <1>3 DEF Inv

LEMMA AcknowledgeInv ==
  ASSUME ShapeInv, Inv, NEW s \in Streams, Acknowledge(s) PROVE Inv'
<1>1. JobInv' /\ AllOrNothing'
  BY DEF Inv, Acknowledge, JobInv, AllOrNothing
<1>2. ASSUME NEW u \in Streams PROVE StreamInv(u)'
  BY DEF Inv, Acknowledge, StreamInv, RowInv
<1>3. RetryInv'
  BY DEF Inv, Acknowledge, RetryInv, Clean
<1>. QED BY <1>1, <1>2, <1>3 DEF Inv

LEMMA BeginsInv ==
  ASSUME ShapeInv, Inv, NEW s \in Streams, NEW events \in Jobs, Begins(s, events) PROVE Inv'
<1>1. sent' = [sent EXCEPT ![s] = @ \cup events] /\ acked' = acked
  BY DEF Begins, Sends
<1>2. JobInv' /\ AllOrNothing'
  <2>1. JobInv'
    BY DEF Inv, Begins, JobInv
  <2>. QED BY <2>1 DEF Inv, Begins, AllOrNothing
<1>3. ASSUME NEW u \in Streams \ {s} PROVE StreamInv(u)'
  <2>1. job'[u] = job[u] /\ sent'[u] = sent[u] /\ pc'[u] = pc[u]
    BY <1>1 DEF Begins, ShapeInv
  <2>2. table' = table /\ ended' = ended /\ (u \in failed' <=> u \in failed)
    BY DEF Begins
  <2>. QED BY <1>1, <2>1, <2>2 DEF Inv, StreamInv, RowInv
<1>4. StreamInv(s)'
  <2>1. job[s] = {} /\ s \notin acked /\ events \cap sent[s] = {}
    BY DEF Inv, StreamInv, Begins, Sends
  <2>2. sent'[s] = sent[s] \cup events /\ table' = table
    BY <1>1 DEF Begins, ShapeInv
  <2>3. ASSUME NEW e \in Events PROVE RowInv(s, e)
    BY DEF Inv, StreamInv
  <2>4. CASE job' = [job EXCEPT ![s] = events] /\ failed' = failed /\ pc'[s] # "idle"
    <3>1. job'[s] = events
      BY <2>4 DEF ShapeInv
    <3>2. ASSUME NEW e \in Events PROVE RowInv(s, e)'
      BY <2>1, <2>2, <2>3, <2>4, <3>1 DEF RowInv
    <3>. QED BY <1>1, <2>1, <2>2, <2>4, <3>1, <3>2 DEF StreamInv
  <2>5. CASE job' = job /\ failed' = failed \cup {s} /\ pc' = pc
    <3>1. ASSUME NEW e \in Events PROVE RowInv(s, e)'
      BY <2>1, <2>2, <2>3, <2>5 DEF RowInv
    <3>. QED BY <1>1, <2>1, <2>2, <2>5, <3>1 DEF StreamInv
  <2>. QED BY <2>4, <2>5 DEF Begins
<1>5. RetryInv'
  <2>1. ended' = ended /\ ended \ Clean \subseteq ended' \ Clean'
    BY <1>1 DEF Begins, Clean
  <2>2. ASSUME NEW u \in Streams \ {s}, sent'[s] \cap sent'[u] # {}
        PROVE  {s, u} \cap (ended \ Clean) # {}
    <3>1. sent'[s] = sent[s] \cup events /\ sent'[u] = sent[u]
      BY <1>1 DEF ShapeInv
    <3>2. CASE events \cap sent[u] # {}
      BY <3>2 DEF Begins, Sends
    <3>3. CASE sent[s] \cap sent[u] # {}
      BY <3>3 DEF Inv, RetryInv
    <3>. QED BY <2>2, <3>1, <3>2, <3>3
  <2>3. ASSUME NEW u \in Streams \ {s}, NEW v \in Streams \ {s}, u # v,
               sent'[u] \cap sent'[v] # {}
        PROVE  {u, v} \cap (ended \ Clean) # {}
    <3>1. sent'[u] = sent[u] /\ sent'[v] = sent[v]
      BY <1>1 DEF ShapeInv
    <3>. QED BY <2>3, <3>1 DEF Inv, RetryInv
  <2>4. ASSUME NEW u \in Streams, NEW v \in Streams, u # v, sent'[u] \cap sent'[v] # {}
        PROVE  {u, v} \cap (ended' \ Clean') # {}
    <3>1. CASE u = s
      BY <2>1, <2>2, <2>4, <3>1
    <3>2. CASE v = s
      BY <2>1, <2>2, <2>4, <3>2
    <3>. QED BY <2>1, <2>3, <2>4, <3>1, <3>2
  <2>. QED BY <2>4 DEF RetryInv
<1>. QED BY <1>2, <1>3, <1>4, <1>5 DEF Inv

LEMMA EndsInv ==
  ASSUME ShapeInv, Inv, NEW s \in Streams, Ends(s) PROVE Inv'
<1>1. JobInv'
  <2>1. {} \in Jobs
    BY DEF Jobs
  <2>. QED BY <2>1 DEF Inv, Ends, JobInv
<1>2. AllOrNothing'
  <2>1. CASE Store(s, job[s])
    BY <2>1, AtomicStore DEF Inv
  <2>2. CASE UNCHANGED table
    BY <2>2 DEF Inv, AllOrNothing
  <2>. QED BY <2>1, <2>2 DEF Ends
<1>3. ASSUME NEW u \in Streams \ {s} PROVE StreamInv(u)'
  <2>1. job'[u] = job[u] /\ pc'[u] = pc[u] /\ (u \in failed' <=> u \in failed)
    BY DEF Ends, ShapeInv
  <2>2. table'[u] = table[u]
    BY Stored DEF Ends
  <2>3. UNCHANGED <<ended, sent, acked>>
    BY DEF Ends
  <2>. QED BY <2>1, <2>2, <2>3 DEF Inv, StreamInv, RowInv
<1>4. StreamInv(s)'
  <2>1. job'[s] = {} /\ pc'[s] = "idle" /\ s \notin acked /\ job[s] \subseteq sent[s]
    BY DEF Ends, ShapeInv, Inv, StreamInv
  <2>2. UNCHANGED <<ended, sent, acked>>
    BY DEF Ends
  <2>3. ASSUME NEW e \in Events PROVE RowInv(s, e)'
    <3>1. RowInv(s, e)
      BY DEF Inv, StreamInv
    <3>2. CASE Store(s, job[s])
      <4>1. table'[s][e] = table[s][e] + IF e \in job[s] THEN 1 ELSE 0
        BY <3>2, Stored
      <4>2. s \notin failed' => s \notin failed
        BY DEF Ends
      <4>. QED BY <2>1, <2>2, <3>1, <4>1, <4>2 DEF RowInv
    <3>3. CASE UNCHANGED table /\ s \in failed'
      BY <2>1, <2>2, <3>1, <3>3 DEF RowInv
    <3>. QED BY <3>2, <3>3 DEF Ends
  <2>. QED BY <2>1, <2>2, <2>3 DEF StreamInv
<1>5. RetryInv'
  BY DEF Inv, Ends, RetryInv, Clean
<1>. QED BY <1>1, <1>2, <1>3, <1>4, <1>5 DEF Inv

LEMMA InvInit == Init => Inv
<1>. SUFFICES ASSUME Init PROVE Inv
  OBVIOUS
<1>1. JobInv
  BY DEF Init, JobInv, Jobs
<1>2. AllOrNothing
  BY DEF Init, AllOrNothing, Events
<1>3. ASSUME NEW s \in Streams PROVE StreamInv(s)
  BY DEF Init, StreamInv, RowInv
<1>4. RetryInv
  BY DEF Init, RetryInv
<1>. QED BY <1>1, <1>2, <1>3, <1>4 DEF Inv

LEMMA InvNext == ShapeInv /\ Inv /\ [Next]_vars => Inv'
<1>. SUFFICES ASSUME ShapeInv, Inv, [Next]_vars PROVE Inv'
  OBVIOUS
<1>1. ASSUME NEW s \in Streams, NEW b \in Batches, Begins(s, b) PROVE Inv'
  BY <1>1, BeginsInv DEF Jobs
<1>2. ASSUME NEW s \in Streams, NEW e \in Singles, Begins(s, {e}) PROVE Inv'
  <2>1. {e} \in Jobs
    BY DEF Jobs
  <2>. QED BY <1>2, <2>1, BeginsInv
<1>. QED BY <1>1, <1>2, Steps, RestsInv, AcknowledgeInv, EndsInv

-------------------------------------------------------------------------------
LEMMA Invariant == Spec => [](ShapeInv /\ PoolInv /\ Inv)
BY ShapeInit, ShapeNext, PoolNext, InvInit, InvNext, PTL DEF Spec

\* A batch is stored as a whole or not at all, for any number of streams and calls
\* and any pool (postgresql.go:154-225).
THEOREM BatchesAtomic == Spec => []AllOrNothing
<1>1. Inv => AllOrNothing
  BY DEF Inv
<1>. QED BY <1>1, Invariant, PTL

\* Whatever fails and whenever its streams end, a client that sends again what it was
\* not told to be stored loses no event it was told of, and an event has two rows
\* only if one of their streams was cut or had reported a failure
\* (postgresql.go:112, 172).
THEOREM RetriesCounted == Spec => []RetriesAccounted
<1>1. ShapeInv /\ Inv => RetriesAccounted
  <2>. SUFFICES ASSUME ShapeInv, Inv, NEW s \in Streams, NEW e \in Events
                PROVE  /\ table[s][e] <= IF e \in sent[s] THEN 1 ELSE 0
                       /\ s \in Clean /\ e \in sent[s] => table[s][e] = 1
                       /\ \A u \in Streams \ {s} : table[s][e] > 0 /\ table[u][e] > 0
                             => {s, u} \cap (ended \ Clean) # {}
    BY DEF RetriesAccounted
  <2>1. RowInv(s, e)
    BY DEF Inv, StreamInv
  <2>2. table[s][e] <= IF e \in sent[s] THEN 1 ELSE 0
    BY <2>1 DEF RowInv
  <2>3. ASSUME s \in Clean, e \in sent[s] PROVE table[s][e] = 1
    BY <2>1, <2>3 DEF Inv, StreamInv, RowInv, Clean
  <2>4. ASSUME NEW u \in Streams \ {s}, table[s][e] > 0, table[u][e] > 0
        PROVE  {s, u} \cap (ended \ Clean) # {}
    <3>1. e \in sent[s]
      BY <2>1, <2>4 DEF RowInv
    <3>2. e \in sent[u]
      BY <2>4 DEF Inv, StreamInv, RowInv
    <3>. QED BY <3>1, <3>2 DEF Inv, RetryInv
  <2>. QED BY <2>2, <2>3, <2>4
<1>. QED BY <1>1, Invariant, PTL

\* Every variable keeps its type, and the pool its limit.  That the transactions a stream has left open
\* never keep more connections than there are rests on the pool: the connections
\* in use, those of running calls and those left, are never more than its limit
\* (postgresql.go:188-215).
THEOREM TypeCorrect == Spec => []TypeOK
<1>1. ShapeInv /\ PoolInv => TypeOK
  <2>. SUFFICES ASSUME ShapeInv, PoolInv PROVE TypeOK
    OBVIOUS
  <2>1. ASSUME NEW s \in Streams PROVE leaked[s] \in 0..MaxOpenConns
    <3>1. leaked[s] \in Nat /\ leaked[s] <= Total(leaked)
      BY TotalPart DEF ShapeInv, PoolInv
    <3>2. /\ Total(leaked) \in Nat /\ Cardinality(Busy) \in Nat
          /\ Total(leaked) + Cardinality(Busy) <= MaxOpenConns
          /\ MaxOpenConns \in Nat
      BY UsedIs, TotalNat, FS_CardinalityType, SinkAssumption DEF PoolInv
    <3>. QED BY <3>1, <3>2
  <2>2. leaked \in [Streams -> 0..MaxOpenConns]
    BY <2>1 DEF ShapeInv
  <2>. QED BY <2>2 DEF ShapeInv, PoolInv, TypeOK, Places
<1>. QED BY <1>1, Invariant, PTL
===============================================================================
