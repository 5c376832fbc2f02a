----------------------------- MODULE PostgresSink -----------------------------
(***************************************************************************)
(* The PostgreSQL sink of pkg/consumer/sinks, as examples/                 *)
(* postgresql-consumer uses it: the callback of every stream inserts into  *)
(* one table through one pool of connections.                              *)
(*                                                                         *)
(* A stream makes one call at a time, under its own context; a call that   *)
(* fails is counted by the consumer and the stream goes on (Consumer.tla). *)
(* The pool and the transactions are database/sql's: BeginTx waits for a   *)
(* connection or for the end of its context, a transaction keeps its       *)
(* connection until it is committed or rolled back, and the end of the     *)
(* context rolls back what its owner has forgotten.  The table has no      *)
(* unique key besides its serial number, so that what is sent again is     *)
(* stored again: a client sends the events of a stream again, on another   *)
(* one, when that stream has ended and it has not been told that all of    *)
(* them were stored.                                                       *)
(***************************************************************************)
EXTENDS Naturals, FiniteSets, Tallies

CONSTANTS
  Streams,        \* the streams whose callbacks use the sink
  Batches,        \* the batches that are sent, as sets of events
  Singles,        \* the events that InsertEvent is called with
  Bad,            \* the events the database refuses
  MaxOpenConns    \* config.MaxOpenConns; 0 would mean that there is no limit

Events == (UNION Batches) \cup Singles

ASSUME SinkAssumption ==
  /\ Bad \subseteq Events
  /\ MaxOpenConns \in Nat \ {0}

VARIABLES
  phase,     \* "connect", "schema", "open", "failed", "closed"
  table,     \* per stream and event: the rows its calls have committed
  ended,     \* the streams whose context has ended
  pc,        \* per stream: where its call is
  job,       \* per stream: the events of its call
  todo,      \* per stream: those that are not inserted yet
  leaked,    \* per stream: connections of transactions its calls left open
  sent,      \* per stream: the events the client has sent on it
  failed,    \* the streams that have an error to report
  acked      \* the streams whose response the client has received

clientVars == <<sent, acked>>
vars == <<phase, table, ended, pc, job, todo, leaked, failed, clientVars>>

Holding == {"prepare", "insert", "exec"}
Open(s) == phase = "open" /\ s \notin ended

Used == Total(leaked) + Cardinality({s \in Streams : pc[s] \in Holding})

\* The client knows that every event of these streams is stored.
Clean == acked \ failed

Init ==
  /\ phase = "connect"
  /\ table = [s \in Streams |-> [e \in Events |-> 0]]
  /\ ended = {}
  /\ pc = [s \in Streams |-> "idle"]
  /\ job = [s \in Streams |-> {}]
  /\ todo = [s \in Streams |-> {}]
  /\ leaked = [s \in Streams |-> 0]
  /\ sent = [s \in Streams |-> {}]
  /\ failed = {}
  /\ acked = {}

-------------------------------------------------------------------------------
(* New, Close, and the streams. *)

Become(here, there) ==
  /\ phase = here
  /\ phase' = there
  /\ UNCHANGED <<table, ended, pc, job, todo, leaked, failed, clientVars>>

Ping == Become("connect", "schema") \/ Become("connect", "failed")

InitializeSchema == Become("schema", "open") \/ Become("schema", "failed")

\* Run has returned: calls may still be in progress.
Close == Become("open", "closed")

\* It is cancelled, loses its connection, or its response is lost on the way.
StreamEnds(s) ==
  /\ s \notin ended
  /\ ended' = ended \cup {s}
  /\ UNCHANGED <<phase, table, pc, job, todo, leaked, failed, clientVars>>

\* The response is sent after the last callback and says how many of them failed
\* (AckSound of Consumer.tla); the context of the stream ends with it.
Acknowledge(s) ==
  /\ s \notin ended /\ pc[s] = "idle"
  /\ ended' = ended \cup {s}
  /\ acked' = acked \cup {s}
  /\ UNCHANGED <<phase, table, pc, job, todo, leaked, failed, sent>>

\* Mutant: the transaction was begun under context.Background.
ContextRollbackAtClose(s) ==
  /\ s \in ended /\ phase = "closed"
  /\ leaked[s] > 0
  /\ leaked' = [leaked EXCEPT ![s] = @ - 1]
  /\ UNCHANGED <<phase, table, ended, pc, job, todo, failed, clientVars>>

\* The end of the context rolls back a transaction that was left open.
ContextRollback(s) ==
  /\ s \in ended
  /\ leaked[s] > 0
  /\ leaked' = [leaked EXCEPT ![s] = @ - 1]
  /\ UNCHANGED <<phase, table, ended, pc, job, todo, failed, clientVars>>

-------------------------------------------------------------------------------
(* A call, from the callback of stream s. *)

\* The client sends each event once on a stream, and again on another one only
\* when every stream that had it has ended without telling that it was stored.  A
\* callback of such a stream may still be running (ReapedOnReturn of Consumer.tla),
\* or be about to begin.
Sends(s, events) ==
  /\ s \notin acked
  /\ events \cap sent[s] = {}
  /\ \A u \in Streams \ {s} : events \cap sent[u] # {} => u \in ended \ Clean
  /\ sent' = [sent EXCEPT ![s] = @ \cup events]
  /\ UNCHANGED acked

Call(s, there, events) ==
  /\ pc[s] = "idle" /\ phase \in {"open", "closed"}
  /\ Sends(s, events)
  /\ pc' = [pc EXCEPT ![s] = there]
  /\ job' = [job EXCEPT ![s] = events]
  /\ todo' = [todo EXCEPT ![s] = events]
  /\ UNCHANGED <<phase, table, ended, leaked, failed>>

\* An empty batch returns nil without a transaction, and changes nothing.
InsertBatch(s, b) == b # {} /\ Call(s, "begin", b)

InsertEvent(s, e) == Call(s, "acquire", {e})

Goto(s, here, there) ==
  /\ pc[s] = here
  /\ pc' = [pc EXCEPT ![s] = there]

\* The call returns; its locals are gone.
Return(s, here) ==
  /\ Goto(s, here, "idle")
  /\ job' = [job EXCEPT ![s] = {}]
  /\ todo' = [todo EXCEPT ![s] = {}]

\* A call with nothing but an error to show.
Fail(s, here) ==
  /\ Return(s, here)
  /\ failed' = failed \cup {s}
  /\ UNCHANGED <<phase, table, ended, leaked, clientVars>>

\* One more row of each of these events, from stream s.
Store(s, events) ==
  table' = [table EXCEPT ![s] = [e \in Events |-> @[e] + IF e \in events THEN 1 ELSE 0]]

\* The rows of the call become visible, and the connection is free.
Succeed(s, here) ==
  /\ Return(s, here)
  /\ Store(s, job[s])
  /\ UNCHANGED <<phase, ended, leaked, failed, clientVars>>

\* The database has stored the rows and the answer does not arrive: an error.
AnswerLost(s, here) ==
  /\ Return(s, here)
  /\ Store(s, job[s])
  /\ failed' = failed \cup {s}
  /\ UNCHANGED <<phase, ended, leaked, clientVars>>

\* Mutant: the pool has no limit.
AcquireUnlimited(s, here, there) ==
  /\ Open(s)
  /\ Goto(s, here, there)
  /\ UNCHANGED <<phase, table, ended, job, todo, leaked, failed, clientVars>>

\* A connection is free.
Acquire(s, here, there) ==
  /\ Open(s) /\ Used < MaxOpenConns
  /\ Goto(s, here, there)
  /\ UNCHANGED <<phase, table, ended, job, todo, leaked, failed, clientVars>>

\* Mutant: the wait is under context.Background.
AcquireFailsBackground(s, here) ==
  Fail(s, here) /\ (phase # "open" \/ Used < MaxOpenConns)

\* The context ends during the wait, the sink is closed, or the database is not
\* there when a connection is made.
AcquireFails(s, here) == Fail(s, here) /\ (~Open(s) \/ Used < MaxOpenConns)

BeginTx(s) == Acquire(s, "begin", "prepare") \/ AcquireFails(s, "begin")

PrepareContext(s) ==
  /\ s \notin ended
  /\ Goto(s, "prepare", "insert")
  /\ UNCHANGED <<phase, table, ended, job, todo, leaked, failed, clientVars>>

\* The deferred function sees this error, and rolls back.
PrepareFails(s) == Fail(s, "prepare")

\* Mutant: the statement is one of the pool, not of the transaction.
StmtExecOutside(s, e) ==
  /\ s \notin ended
  /\ e \in todo[s] \ Bad
  /\ Goto(s, "insert", "insert")
  /\ todo' = [todo EXCEPT ![s] = @ \ {e}]
  /\ Store(s, {e})
  /\ UNCHANGED <<phase, ended, job, leaked, failed, clientVars>>

StmtExec(s, e) ==
  /\ s \notin ended
  /\ e \in todo[s] \ Bad
  /\ Goto(s, "insert", "insert")
  /\ todo' = [todo EXCEPT ![s] = @ \ {e}]
  /\ UNCHANGED <<phase, table, ended, job, leaked, failed, clientVars>>

\* The loop has an err of its own: the deferred function sees none and does not
\* roll back, so that the transaction keeps its connection.
StmtExecFails(s) ==
  /\ todo[s] # {}
  /\ Return(s, "insert")
  /\ leaked' = [leaked EXCEPT ![s] = @ + 1]
  /\ failed' = failed \cup {s}
  /\ UNCHANGED <<phase, table, ended, clientVars>>

Commit(s) ==
  /\ s \notin ended /\ todo[s] = {}
  /\ Succeed(s, "insert") \/ AnswerLost(s, "insert")

\* Mutant: the error of Commit is not returned.
CommitFailsSilently(s) ==
  /\ todo[s] = {}
  /\ Return(s, "insert")
  /\ UNCHANGED <<phase, table, ended, leaked, failed, clientVars>>

\* Not committed; this error the deferred function sees.
CommitFails(s) == todo[s] = {} /\ Fail(s, "insert")

\* ExecContext of InsertEvent: a connection, and one statement.
TakeConn(s) == Acquire(s, "acquire", "exec") \/ AcquireFails(s, "acquire")

ExecContext(s) ==
  /\ job[s] \cap Bad = {}
  /\ (s \notin ended /\ Succeed(s, "exec")) \/ AnswerLost(s, "exec")

ExecFails(s) == Fail(s, "exec")

-------------------------------------------------------------------------------
Insert(s) ==
  \/ \E e \in Events : StmtExec(s, e)
  \/ StmtExecFails(s) \/ Commit(s) \/ CommitFails(s)

\* The payload is not a batch: the callback has an error to return, and no call.
UnmarshalFails(s, b) ==
  /\ pc[s] = "idle" /\ phase \in {"open", "closed"}
  /\ Sends(s, b)
  /\ failed' = failed \cup {s}
  /\ UNCHANGED <<phase, table, ended, pc, job, todo, leaked>>

\* OnEvent of the example; another program may call InsertEvent in its place.
Callback(s) ==
  \/ \E b \in Batches : InsertBatch(s, b) \/ UnmarshalFails(s, b)
  \/ \E e \in Singles : InsertEvent(s, e)

Next ==
  \/ Ping \/ InitializeSchema \/ Close
  \/ \E s \in Streams :
       \/ StreamEnds(s) \/ Acknowledge(s) \/ ContextRollback(s) \/ Callback(s)
       \/ BeginTx(s) \/ PrepareContext(s) \/ PrepareFails(s) \/ Insert(s)
       \/ TakeConn(s) \/ ExecContext(s) \/ ExecFails(s)

Spec == Init /\ [][Next]_vars

\* database/sql and the database answer whatever they can answer; the end of a
\* context is one of those answers.  No stream has to end.
Fairness ==
  \A s \in Streams :
    /\ WF_vars(ContextRollback(s))
    /\ WF_vars(BeginTx(s)) /\ WF_vars(TakeConn(s))
    /\ WF_vars(PrepareContext(s) \/ PrepareFails(s))
    /\ WF_vars(Insert(s))
    /\ WF_vars(ExecContext(s) \/ ExecFails(s))

FairSpec == Spec /\ Fairness

-------------------------------------------------------------------------------
(* Properties. *)

\* The pool keeps its limit: a transaction that was forgotten counts as in use.
TypeOK ==
  /\ phase \in {"connect", "schema", "open", "failed", "closed"}
  /\ ended \subseteq Streams
  /\ pc \in [Streams -> {"idle", "begin", "acquire"} \cup Holding]
  /\ job \in [Streams -> SUBSET Events]
  /\ todo \in [Streams -> SUBSET Events]
  /\ leaked \in [Streams -> 0..MaxOpenConns] /\ Used <= MaxOpenConns
  /\ table \in [Streams -> [Events -> Nat]]
  /\ sent \in [Streams -> SUBSET Events]
  /\ {failed, acked} \subseteq SUBSET Streams

\* InsertBatch stores a batch as a whole or not at all, whatever fails and however
\* calls, retries and ends of streams interleave: of events that only ever come
\* together, a stream has the same number of rows (postgresql.go:154-225).
AllOrNothing ==
  \A s \in Streams, b \in Batches :
    b \cap (Singles \cup UNION (Batches \ {b})) = {} =>
      \A e, f \in b : table[s][e] = table[s][f]

\* What a client that retries can rely on.  A stream stores each of its events at
\* most once; one that was acknowledged without a failure has stored every event;
\* and an event is there twice only if one of its two streams was cut before its
\* client had the response, or reported a failure: never for anything the client
\* had been told was stored.  (The table refuses no duplicate, so that a stream that
\* is cut after it has committed does make one, postgresql.go:112, 172.)
RetriesAccounted ==
  \A s \in Streams, e \in Events :
    /\ table[s][e] <= IF e \in sent[s] THEN 1 ELSE 0
    /\ s \in Clean /\ e \in sent[s] => table[s][e] = 1
    /\ \A u \in Streams \ {s} :
         table[s][e] > 0 /\ table[u][e] > 0 => {s, u} \cap (ended \ Clean) # {}

\* The end of a stream's context ends its call, even one that waits for a
\* connection, and gives back every connection that its failed batches kept
\* (postgresql.go:160, 188-215).
EndFrees ==
  \A s \in Streams : s \in ended ~> (pc[s] = "idle" /\ leaked[s] = 0)

\* A call waits for ever only for connections of streams that are still there, or
\* when its own stream has used up the pool with batches that failed.
WaitEnds ==
  \A s \in Streams :
    (pc[s] \in {"begin", "acquire"} /\ Streams \ {s} \subseteq ended
       /\ leaked[s] < MaxOpenConns) ~> pc[s] \notin {"begin", "acquire"}
===============================================================================
