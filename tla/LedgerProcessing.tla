--------------------------- MODULE LedgerProcessing ---------------------------
(***************************************************************************)
(* What the two contract processors make of an event that the processor of *)
(* Processor.tla hands to their handler: the handler that stellar.Run      *)
(* registers, and the EventsFromLedger of either, which read a ledger one  *)
(* transaction at a time.  The two are programs of their own; they read    *)
(* the same ledger here, in step, so that their outputs can be compared.   *)
(*                                                                         *)
(* A transaction is a member of Txs.  Its operations write to a store of   *)
(* ledger entries, and the changes of its meta follow from those writes.   *)
(***************************************************************************)
EXTENDS ContractInvocations

CONSTANTS
  Txs,      \* the transactions a ledger can have
  MaxTxs    \* bound on the transactions of the ledger

\* A transaction that invokes a host function has that operation alone, and both
\* succeed or neither; the other operations write no entry but to restore it.
\* The events of a version 3 meta are those of one operation, and host functions
\* are as old as that version.
ASSUME TransactionsAssumption ==
  /\ Txs \subseteq Transaction
  /\ \A tx \in Txs :
       /\ \A k \in DOMAIN tx.ops :
            IF Invokes(tx.ops[k])
            THEN Len(tx.ops) = 1 /\ (tx.success <=> tx.ops[k].result = "success")
            ELSE \A i \in DOMAIN tx.ops[k].writes : tx.ops[k].writes[i].restore
       /\ tx.v = 3 => Len(tx.opEvents) <= 1 /\ tx.txEvents = <<>>
       /\ tx.v = 0 => \A k \in DOMAIN tx.ops : ~Invokes(tx.ops[k])

VARIABLES
  state,         \* "waiting", "reading", or how the handler returned
  ledger,        \* the transactions read so far
  store,         \* the ledger entries, as the network has them
  written,       \* history: the writes of the ledger
  events,        \* allEvents of contract_events
  invocations,   \* events of contract_invocation
  output         \* the batches the two handlers return

vars == <<state, ledger, store, written, events, invocations, output>>

NoOutput == [events |-> <<>>, invocations |-> <<>>]

Init ==
  /\ state = "waiting"
  /\ ledger = <<>>
  /\ store = [k \in Keys |-> Nil]
  /\ written = {}
  /\ events = <<>>
  /\ invocations = <<>>
  /\ output = NoOutput

\* The change a write makes to an entry.
Change(entries, w) ==
  [key |-> w.key, data |-> w.key.entry = "contract_data",
   pre |-> IF w.restore THEN Nil ELSE entries[w.key], post |-> w.value,
   kind |-> IF w.restore THEN "restored"
            ELSE IF entries[w.key] = Nil THEN "created"
            ELSE IF w.value = Nil THEN "removed" ELSE "updated"]

\* The entries after n of the writes of an operation, and all its changes.
Written(entries, writes, n) ==
  Loop(LAMBDA at, i : [at EXCEPT ![writes[i].key] = writes[i].value], entries, n)

Changes(entries, writes) ==
  [i \in DOMAIN writes |-> Change(Written(entries, writes, i - 1), writes[i])]

-------------------------------------------------------------------------------
\* An event of another type is filtered, one that cannot be decoded is an error.
Receive(next) ==
  /\ state = "waiting"
  /\ state' = next
  /\ UNCHANGED <<ledger, store, written, events, invocations, output>>

\* The writes of the operations of a Soroban transaction, which are one.
Writes(tx) == IF tx.success /\ tx.ops # <<>> THEN tx.ops[1].writes ELSE <<>>

Restored(tx) ==
  {k \in Keys : \E i \in DOMAIN Writes(tx) : Writes(tx)[i].key = k /\ Writes(tx)[i].restore}

\* The reader counts from 1; contract_events has a counter of its own, from 0.
ReadTransaction(t) ==
  LET n  == Len(ledger) + 1
      tx == [t EXCEPT !.hash = n,
                      !.ops = [k \in DOMAIN @ |->
                        [@[k] EXCEPT !.changes = Changes(store, Writes(t))]]]
  IN  /\ state = "reading" /\ n <= MaxTxs /\ ~Panics(t)
      /\ \A k \in Restored(t) : store[k] = Nil
      /\ ledger' = Append(ledger, tx)
      /\ store' = Written(store, Writes(t), Len(Writes(t)))
      /\ written' = written \cup ToSet(Writes(t))
      /\ events' = events \o ExtractEvents(tx, n - 1)
      /\ invocations' = invocations \o ExtractInvocations(tx, n)
      /\ UNCHANGED <<state, output>>

\* The process ends: nothing recovers from a panic of the handler.
ReadPanics ==
  /\ state = "reading" /\ Len(ledger) < MaxTxs
  /\ \E t \in Txs : Panics(t)
  /\ state' = "crashed"
  /\ UNCHANGED <<ledger, store, written, events, invocations, output>>

\* What was found in the ledger so far is dropped.
ReadFails ==
  /\ state = "reading"
  /\ state' = "failed"
  /\ UNCHANGED <<ledger, store, written, events, invocations, output>>

\* Each handler returns its batch, or nil when it found nothing.
EndOfLedger ==
  /\ state = "reading"
  /\ state' = "done"
  /\ output' = [events |-> ConvertEvents(events),
                invocations |-> ConvertInvocations(invocations)]
  /\ UNCHANGED <<ledger, store, written, events, invocations>>

Next ==
  \/ \E next \in {"reading", "skipped", "failed"} : Receive(next)
  \/ \E t \in Txs : ReadTransaction(t)
  \/ ReadPanics \/ ReadFails \/ EndOfLedger

Spec == Init /\ [][Next]_vars

-------------------------------------------------------------------------------
(* Properties. *)

\* The contract events of every successful transaction, if its meta is of a version
\* that GetTransactionEvents knows, are all found, each once,
\* under the operation that emitted it, those of the transaction itself last;
\* in a transaction their indexes are 0, 1, 2 ... without gap, so that hash and
\* index name an event (contract_events.go:84-158).
Emitted(tx, evs) ==
  IF tx.success /\ Readable(tx) THEN {j \in DOMAIN evs : evs[j].type = "contract"} ELSE {}

EventsOf(n)   == {i \in DOMAIN events : events[i].hash = n}
From(n, op)   == {i \in EventsOf(n) : events[i].op = op}

EventsNumbered ==
  \A n \in DOMAIN ledger :
    /\ \A i \in EventsOf(n) :
         /\ events[i].index = Cardinality({j \in EventsOf(n) : j < i})
         /\ events[i].txIndex = n - 1
    /\ \A k \in DOMAIN ledger[n].opEvents :
         Cardinality(From(n, k - 1)) = Cardinality(Emitted(ledger[n], ledger[n].opEvents[k]))
    /\ Cardinality(From(n, Nil)) = Cardinality(Emitted(ledger[n], ledger[n].txEvents))
    /\ \A i, j \in EventsOf(n) : i < j =>
         /\ events[i].op = Nil => events[j].op = Nil
         /\ Nil \notin {events[i].op, events[j].op} => events[i].op <= events[j].op

\* The nodes of a tree, as the ways that lead to them from the root.
Paths[node \in Calls] ==
  {<<>>} \cup UNION {{<<i>> \o p : p \in Paths[node.subs[i]]} : i \in DOMAIN node.subs}

NodeAt(node, path) == Loop(LAMBDA at, i : at.subs[path[i]], node, Len(path))

\* p is walked before q.
Before(p, q) ==
  \/ IsStrictPrefix(p, q)
  \/ \E i \in DOMAIN p \cap DOMAIN q :
       p[i] < q[i] /\ \A j \in 1..(i - 1) : p[j] = q[j]

\* The trees of all entries hang from the contract that is called.
Forest(auth, contract) ==
  [to |-> contract, subs |-> [a \in DOMAIN auth |-> auth[a].root]]

\* The contract at the end of a path, and the one before it.
Callee(forest, p) == NodeAt(forest, p).to
Caller(forest, p) == NodeAt(forest, Front(p)).to

Edges(auth, contract) ==
  LET forest == Forest(auth, contract)
      nodes  == UNION {{<<a>> \o p : p \in Paths[auth[a].root]} : a \in DOMAIN auth}
  IN  {p \in nodes : /\ Blank \notin {Caller(forest, p), Callee(forest, p)}
                     /\ Caller(forest, p) # Callee(forest, p)}

\* One call for each edge, in the order of the walk.
CallsFollow(calls, auth, contract) ==
  LET forest == Forest(auth, contract)
      edges  == Edges(auth, contract)
  IN  /\ Len(calls) = Cardinality(edges)
      /\ \A p \in edges :
           LET order == Cardinality({q \in edges : Before(q, p)})
               call  == calls[order + 1]
           IN  /\ call.from = Caller(forest, p) /\ call.to = Callee(forest, p)
               /\ call.depth = Len(p) - 1 /\ call.order = order
               /\ call.authType = AuthType(auth[p[1]])

\* The calls of an invocation are the edges of its authorization trees that lead
\* from one contract to another, no more and no fewer, each with the depth of its
\* end, in the order of the trees (contract_invocation_processor.go:244-343).
CallsAreEdges ==
  \A i \in DOMAIN invocations :
    LET inv == invocations[i]
    IN  CallsFollow(inv.calls, ledger[inv.hash].ops[inv.op + 1].auth, inv.contract)

\* The numbers of a type of that many limbs, and the one that limbs stand for.
SizeOf(limbs) == Loop(LAMBDA n, l : n * Limb, 1, Len(limbs))
BitsOf(limbs) == Loop(LAMBDA n, l : n * Limb + limbs[l], 0, Len(limbs))

Exact(d, val) ==
  LET size == SizeOf(val.limbs)
      bits == BitsOf(val.limbs)
  IN  /\ d.t = IF val.t = "symbol" THEN "string" ELSE val.t
      /\ val.t = "vec" => DOMAIN d.items = DOMAIN val.items
      /\ d.t \in {"u128", "u256"} => d.value = bits
      /\ d.t \in {"i128", "i256"} =>
           /\ -size <= 2 * d.value /\ 2 * d.value < size
           /\ d.value \in {bits, bits - size}

\* What is decoded and what it is decoded from, that many levels inside two of them.
ItemPairs(pairs) ==
  UNION {{<<p[1].items[i], p[2].items[i]>> : i \in DOMAIN p[1].items} : p \in pairs}

Inside(d, val, depth) == Loop(LAMBDA pairs, n : ItemPairs(pairs), {<<d, val>>}, depth)

\* A wide integer, wherever it is in an argument and its vectors and maps, is decoded
\* to the number its bits stand for: in range, and equal to the bits modulo the size
\* of its type; no item of a vector is lost; and an argument that is not decoded does
\* not move those before it (helpers.go:33-59, 204-252, 323-393).
ArgumentsExact ==
  \A i \in DOMAIN invocations :
    LET inv  == invocations[i]
        args == ledger[inv.hash].ops[inv.op + 1].args
    IN  \A a \in DOMAIN inv.arguments, depth \in 0..MaxNesting :
          \A p \in Inside(inv.arguments[a], args[a], depth) : Exact(p[1], p[2])

\* What a client that keeps the contract data by what it is sent ends with.  Keys
\* that print alike have one name, so that a client can only tell the story of a name
\* under which one entry was written.  It is not told of an entry that was restored,
\* nor of one whose key is not decoded.
Told(k) ==
  /\ k.entry = "contract_data" /\ ~Fails(k.key)
  /\ \A w \in written :
       IF w.key = k THEN ~w.restore
       ELSE w.key.entry = "contract_data" => Name(w.key) # Name(k)

\* What has a value is <<its JSON>> here, and what has none <<>>.
Stored(value) == IF value = Nil THEN <<>> ELSE <<JsonEncode(Decode(value))>>

ReplayChanges(at, name, changes) ==
  Loop(LAMBDA now, j :
         IF changes[j].name # name THEN now
         ELSE [ok |-> /\ now.ok
                      /\ changes[j].operation = "create" <=> now.value = <<>>
                      /\ changes[j].operation # "create" => now.value = <<changes[j].old>>,
               value |-> IF changes[j].operation = "delete" THEN <<>> ELSE <<changes[j].new>>],
       at, Len(changes))

Replay(name, sent) ==
  Loop(LAMBDA at, i : ReplayChanges(at, name, sent[i].changes),
       [ok |-> TRUE, value |-> <<>>], Len(sent))

\* The state changes that are sent tell the story of the contract data: replayed
\* in order each one finds the value it says it replaces, and they end in what the
\* network's values are decoded to, for every entry that has a name of its own
\* (contract_invocation_processor.go:394-481, convert.go:80-89).
ChangesReplay ==
  state = "done" =>
    \A k \in Keys : Told(k) =>
      Replay(Name(k), output.invocations) = [ok |-> TRUE, value |-> Stored(store[k])]

\* The two processors tell the same story of a transaction: one counts from 0 and
\* the other from 1; an invocation that is successful is one of a transaction that
\* is, and conversely but for fee bumps; and a version 3 meta gives it the events
\* that contract_events finds.  Nothing is sent of a ledger that was not read to
\* its end (contract_events.go:54-77, contract_invocation_processor.go:125-147).
ProcessorsAgree ==
  /\ state # "done" => output = NoOutput
  /\ \A i \in DOMAIN output.invocations :
       LET inv == output.invocations[i]
           tx  == ledger[inv.hash]
           evs == {j \in DOMAIN output.events : output.events[j].meta.hash = inv.hash}
       IN  /\ inv.successful => tx.success
           /\ evs # {} => inv.successful \/ tx.feeBump
           /\ \A j \in evs :
                LET e == output.events[j]
                IN  /\ inv.txIndex = e.meta.txIndex + 1
                    /\ tx.v = 3 =>
                         \E d \in DOMAIN inv.diagnostics :
                           /\ inv.diagnostics[d].contract = e.contract
                           /\ Len(inv.diagnostics[d].topics) = Len(e.topics)
===============================================================================
