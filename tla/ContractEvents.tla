---------------------------- MODULE ContractEvents ----------------------------
(***************************************************************************)
(* The contract events of a transaction:                                   *)
(* pkg/stellar/processors/contract_events.                                 *)
(*                                                                         *)
(* Of a transaction it reads hash, success, opEvents, the events of each   *)
(* of its operations, and txEvents, those of the transaction itself;       *)
(* GetTransactionEvents gives them when it knows the version v of the meta *)
(* of the transaction.  0 stands for the versions that it does not know.   *)
(***************************************************************************)
EXTENDS Integers, Sequences, FiniteSets, Loops

CONSTANTS
  Nil,
  Contracts,   \* the contracts
  Limb,        \* the limbs of a wide integer are less than this: 2^64 in the code
  MaxNesting   \* bound on the depth of values and of trees of calls

\* The empty string, where there is no contract or no value.
Blank == ""

ASSUME ContractsAssumption == Nil \notin Contracts \cup Nat \cup {Blank}
ASSUME LimbAssumption      == Limb \in Nat \ {0} /\ Limb % 2 = 0
ASSUME NestingAssumption   == MaxNesting \in Nat

-------------------------------------------------------------------------------
(* Values have a type t, their limbs, one for all but wide integers, and    *)
(* items, those of a vector, or the keys and values of a map in turn.  The  *)
(* type of one that is malformed or not supported is "error".  A symbol, or *)
(* a string, is the one whose characters are the digits of a number; u32    *)
(* stands for all numbers that fit a word, and bytes for what is decoded to *)
(* a record with its type.                                                  *)
Limbs   == 0..(Limb - 1)
Scalars == {"u32", "symbol", "string", "bytes", "void", "instance", "error"}

Flat ==
  [t : Scalars, limbs : [1..1 -> Nat], items : {<<>>}]
    \cup [t : {"u128", "i128"}, limbs : [1..2 -> Limbs], items : {<<>>}]
    \cup [t : {"u256", "i256"}, limbs : [1..4 -> Limbs], items : {<<>>}]

\* Those that nest no deeper than n.
NestedValues[n \in 0..MaxNesting] ==
  IF n = 0 THEN Flat
  ELSE Flat \cup [t : {"vec", "map"}, limbs : {<<>>}, items : Seq(NestedValues[n - 1])]

Values == NestedValues[MaxNesting]

Event ==
  [type : {"contract", "system", "diagnostic"}, contract : Contracts \cup {Nil},
   topics : Seq(Values)]

-------------------------------------------------------------------------------
\* The symbol in the first topic, <<>> for "unknown".
DetectEventType(topics) ==
  IF topics # <<>> /\ topics[1].t = "symbol" THEN topics[1].limbs ELSE <<>>

ProcessContractEvent(event, tx, txIndex, eventIndex, opIndex) ==
  [hash |-> tx.hash, txIndex |-> txIndex, success |-> tx.success,
   contract |-> IF event.contract = Nil THEN Blank ELSE event.contract,
   type |-> DetectEventType(event.topics), topics |-> event.topics,
   index |-> eventIndex, op |-> opIndex]

\* Mutant: the count starts again with every operation.
ContractOnlyPerOperation(found, events, opIndex, tx, txIndex) ==
  Loop(LAMBDA out, j :
         IF events[j].type # "contract" THEN out
         ELSE Append(out, ProcessContractEvent(events[j], tx, txIndex,
                                               Len(out) - Len(found), opIndex)),
       found, Len(events))

\* To what is found, the contract events of one operation are added, with its
\* index, or those of the transaction, with Nil; the event index runs on.
ContractOnly(found, events, opIndex, tx, txIndex) ==
  Loop(LAMBDA out, j :
         IF events[j].type # "contract" THEN out
         ELSE Append(out, ProcessContractEvent(events[j], tx, txIndex, Len(out), opIndex)),
       found, Len(events))

\* The loop over the operations, and then that over the transaction's own.
OperationEvents(tx, txIndex) ==
  Loop(LAMBDA out, k : ContractOnly(out, tx.opEvents[k], k - 1, tx, txIndex),
       <<>>, Len(tx.opEvents))

\* GetTransactionEvents has no error to return.
Readable(tx) == tx.v # 0

\* extractEventsFromTransaction
ExtractEvents(tx, txIndex) ==
  IF ~tx.success \/ ~Readable(tx) THEN <<>>
  ELSE ContractOnly(OperationEvents(tx, txIndex), tx.txEvents, Nil, tx, txIndex)

\* The batch that is sent: the transaction goes to the event's meta.
ConvertEvents(events) ==
  [i \in DOMAIN events |->
     [meta |-> [hash |-> events[i].hash, txIndex |-> events[i].txIndex,
                success |-> events[i].success],
      contract |-> events[i].contract, type |-> events[i].type,
      topics |-> events[i].topics, inSuccessfulTx |-> events[i].success,
      index |-> events[i].index, op |-> events[i].op]]
===============================================================================
