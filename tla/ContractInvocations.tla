------------------------- MODULE ContractInvocations -------------------------
(***************************************************************************)
(* The contract invocations of a transaction:                              *)
(* pkg/stellar/processors/contract_invocation.                             *)
(*                                                                         *)
(* Beside what ContractEvents reads, a transaction has feeBump and ops.    *)
(* An operation has a kind ("call", "create" for another host function,    *)
(* "other"), the contract and function it calls, args, auth, the           *)
(* authorizations, and changes, those that its writes to the ledger make.  *)
(***************************************************************************)
EXTENDS ContractEvents, SequencesExt

\* The keys of ledger entries: contract data, and another kind for the rest.
LedgerKey ==
  [entry : {"contract_data", "other"}, contract : Contracts,
   durability : {"temporary", "persistent"}, key : Values]

CONSTANT Keys   \* those of the entries of the ledger

ASSUME KeysAssumption  == Keys \subseteq LedgerKey
ASSUME ValueAssumption == Nil \notin Values

\* Blank for what is no contract function.
Callers   == Contracts \cup {Blank}
AuthTypes == {"contract", "source_account"}

\* What is called, and the calls below it.
NestedCalls[n \in 0..MaxNesting] ==
  [to : Callers,
   subs : IF n = 0 THEN {<<>>} ELSE Seq(NestedCalls[n - 1])]

Calls == NestedCalls[MaxNesting]

Write == [key : Keys, value : Values \cup {Nil}, restore : BOOLEAN]

Operation ==
  [kind : {"call", "create", "other"}, contract : Contracts, function : Seq(Nat),
   args : Seq(Values), auth : Seq([credentials : {"address", "source"}, root : Calls]),
   writes : Seq(Write), changes : {<<>>}, result : {"success", "failure"}]

Transaction ==
  [hash : {0}, success : BOOLEAN, feeBump : BOOLEAN, v : {0, 3, 4},
   opEvents : Seq(Seq(Event)), txEvents : Seq(Event), ops : Seq(Operation)]

-------------------------------------------------------------------------------
(* Values: helpers.go. *)

\* Shifted and added, from the highest limb.
FromLimbs(high, limbs) ==
  IF Len(limbs) = 2 THEN high * Limb + limbs[2]
  ELSE ((high * Limb + limbs[2]) * Limb + limbs[3]) * Limb + limbs[4]

\* Mutant: the least negative number is taken for a positive one.
WideToIntOffByOne(limbs, signed) ==
  FromLimbs(IF signed /\ limbs[1] > Limb \div 2 THEN limbs[1] - Limb ELSE limbs[1], limbs)

\* uint128ToString and its likes: of a signed integer whose sign bit is set, 2^64
\* is taken from the highest limb.
WideToInt(limbs, signed) ==
  FromLimbs(IF signed /\ limbs[1] >= Limb \div 2 THEN limbs[1] - Limb ELSE limbs[1], limbs)

\* What %v prints without a type, and what is decoded to the same for all values.
Bare      == {"u32", "symbol", "string"}
Constants == {"void", "instance"}

\* The items that are shown: all of a vector, and all keys of a map; but of the
\* values whose keys print alike the last one only.  texts are those of the items.
Shown(val, texts) ==
  {i \in DOMAIN val.items : val.t = "map" /\ i % 2 = 0 =>
     \A j \in DOMAIN val.items : j % 2 = 0 /\ j > i => texts[j - 1] # texts[i - 1]}

Printed(val, texts) ==
  [form  |-> IF val.t \in Bare THEN "bare" ELSE val.t,
   limbs |-> IF val.t \in Constants THEN <<>> ELSE val.limbs,
   items |-> [i \in Shown(val, texts) |-> texts[i]]]

\* fmt.Sprintf("%v") of a value that is decoded.
Text[val \in Values] == Printed(val, [i \in DOMAIN val.items |-> Text[val.items[i]]])

Value(val) ==
  CASE val.t \in {"u128", "u256"} -> WideToInt(val.limbs, FALSE)
    [] val.t \in {"i128", "i256"} -> WideToInt(val.limbs, TRUE)
    [] val.t \in Constants \cup {"vec", "map"} -> 0
    [] OTHER -> val.limbs[1]

\* A value whose items are decoded; a symbol becomes a string.
Assemble(val, items) ==
  LET texts == [i \in DOMAIN val.items |-> Text[val.items[i]]]
  IN  [t     |-> IF val.t = "symbol" THEN "string" ELSE val.t,
       value |-> Value(val),
       items |-> [i \in Shown(val, texts) |-> items[i]]]

\* The error of an item stays inside its vector or map.
ConvertScValToJSON[val \in Values] ==
  Assemble(val, [i \in DOMAIN val.items |-> ConvertScValToJSON[val.items[i]]])

Fails(val) == ConvertScValToJSON[val].t = "error"

\* nil, which is what a void value is decoded to.
Null == [t |-> "void", value |-> 0, items |-> <<>>]

\* extractArguments stops at the first argument that is not decoded, and the
\* caller keeps what came before it.
ExtractArguments(args) ==
  LET decoded == [i \in DOMAIN args |-> ConvertScValToJSON[args[i]]]
      errors  == {i \in DOMAIN args : Fails(args[i])}
  IN  SubSeq(decoded, 1, IF errors = {} THEN Len(args) ELSE Min(errors) - 1)

\* <<>> for "unknown".
ExtractFunctionName(op) ==
  IF op.function # <<>> THEN op.function
  ELSE IF op.args # <<>> /\ op.args[1].t \in {"symbol", "string", "bytes"}
       THEN op.args[1].limbs
       ELSE <<>>

-------------------------------------------------------------------------------
(* Calls between contracts. *)

\* What processAuthorizationTree is called with.
Visit == [node : Calls, from : Callers, depth : Nat, authType : AuthTypes]

\* A node that is no contract function passes Blank on as the caller.
Below(at, i) ==
  [node |-> at.node.subs[i], from |-> at.node.to, depth |-> at.depth + 1,
   authType |-> at.authType]

OwnCall(at) ==
  IF at.from # Blank /\ at.node.to # Blank /\ at.from # at.node.to
  THEN <<[from |-> at.from, to |-> at.node.to, depth |-> at.depth,
          authType |-> at.authType, successful |-> TRUE]>>
  ELSE <<>>

\* The calls of a node and of those below it, in the order of a walk from the left.
ProcessAuthorizationTree[at \in Visit] ==
  OwnCall(at) \o FlattenSeq([i \in DOMAIN at.node.subs |-> ProcessAuthorizationTree[Below(at, i)]])

AuthType(entry) ==
  IF entry.credentials = "address" THEN "contract" ELSE "source_account"

WithOrder(call, order) ==
  [from |-> call.from, to |-> call.to, depth |-> call.depth,
   authType |-> call.authType, successful |-> call.successful, order |-> order]

\* The walk of the tree of an entry starts from the contract that is called.
Root(entry, mainContract) ==
  [node |-> entry.root, from |-> mainContract, depth |-> 0, authType |-> AuthType(entry)]

\* Mutant: every entry has an execution order of its own.
ExtractContractCallsPerEntry(op, mainContract) ==
  FlattenSeq([e \in DOMAIN op.auth |->
    LET calls == ProcessAuthorizationTree[Root(op.auth[e], mainContract)]
    IN  [i \in DOMAIN calls |-> WithOrder(calls[i], i - 1)]])

\* One execution order runs over all entries.
ExtractContractCallsFromAuth(op, mainContract) ==
  LET calls == FlattenSeq([e \in DOMAIN op.auth |->
                 ProcessAuthorizationTree[Root(op.auth[e], mainContract)]])
  IN  [i \in DOMAIN calls |-> WithOrder(calls[i], i - 1)]

-------------------------------------------------------------------------------
(* Changes of contract data. *)

\* What is left of a key: the contract, and the key as %v prints it.  How long the
\* entry lives is not told.
Name(k) == <<k.contract, Text[k.key]>>

\* The error of a value that is not decoded is dropped; where there is no value, a
\* zero ScVal is one.
Decode(value) ==
  IF value = Nil THEN Null ELSE IF Fails(value) THEN Null ELSE ConvertScValToJSON[value]

StateChange(c, operation) ==
  [name |-> Name(c.key), old |-> Decode(c.pre), new |-> Decode(c.post),
   operation |-> operation]

\* Mutant: an entry that is removed is looked for after the operation.
ProcessContractDataChangePost(c) ==
  IF Fails(c.key.key) \/ c.post = Nil THEN <<>>
  ELSE CASE c.kind = "created"                -> <<StateChange(c, "create")>>
         [] c.kind = "updated" /\ c.pre # Nil -> <<StateChange(c, "update")>>
         [] c.kind = "removed"                -> <<StateChange(c, "delete")>>
         [] OTHER                             -> <<>>

\* At most one state change; other kinds (restored), and a key that is not decoded,
\* give none.
ProcessContractDataChange(c) ==
  IF Fails(c.key.key) THEN <<>>
  ELSE CASE c.kind = "created" /\ c.post # Nil -> <<StateChange(c, "create")>>
         [] c.kind = "updated" /\ Nil \notin {c.pre, c.post} -> <<StateChange(c, "update")>>
         [] c.kind = "removed" /\ c.pre # Nil -> <<StateChange(c, "delete")>>
         [] OTHER -> <<>>

ExtractStateChanges(op) ==
  Loop(LAMBDA out, i : IF op.changes[i].data
                       THEN out \o ProcessContractDataChange(op.changes[i]) ELSE out,
       <<>>, Len(op.changes))

-------------------------------------------------------------------------------
(* Invocations. *)

\* The events of a version 3 meta, which are those of its one operation.
SorobanEvents(tx) == IF tx.v # 3 \/ tx.opEvents = <<>> THEN <<>> ELSE tx.opEvents[1]

\* Their type is not kept, and a topic that is not decoded is null.
ExtractDiagnosticEvents(tx) ==
  LET found == SorobanEvents(tx)
  IN  [i \in DOMAIN found |->
         [contract |-> found[i].contract,
          topics   |-> [j \in DOMAIN found[i].topics |-> Decode(found[i].topics[j])]]]

Invokes(op) == op.kind # "other"

\* contractIDBytes[:] of an event without a contract is a nil dereference.
Panics(tx) ==
  /\ \E k \in DOMAIN tx.ops : Invokes(tx.ops[k])
  /\ \E i \in DOMAIN SorobanEvents(tx) : SorobanEvents(tx)[i].contract = Nil

\* Mutant: an invocation is successful unless a result says otherwise.
SuccessfulByDefault(tx, op) == tx.feeBump \/ op.result = "success"

\* The results of the operations; the result of a fee bump keeps them elsewhere.
Successful(tx, op) == ~tx.feeBump /\ op.result = "success"

\* The index of a transaction counts from 1 here.
ProcessContractInvocation(tx, txIndex, op, opIndex) ==
  LET contract == IF op.kind = "call" THEN op.contract ELSE Blank
  IN  [hash |-> tx.hash, txIndex |-> txIndex, op |-> opIndex,
       contract |-> contract, successful |-> Successful(tx, op),
       function |-> IF op.kind = "call" THEN ExtractFunctionName(op) ELSE <<>>,
       arguments |-> IF op.kind = "call" THEN ExtractArguments(op.args) ELSE <<>>,
       diagnostics |-> ExtractDiagnosticEvents(tx),
       calls |-> ExtractContractCallsFromAuth(op, contract),
       changes |-> ExtractStateChanges(op)]

\* EventsFromLedger: the loop over the operations of a transaction.
ExtractInvocations(tx, txIndex) ==
  Loop(LAMBDA out, k :
         IF Invokes(tx.ops[k])
         THEN Append(out, ProcessContractInvocation(tx, txIndex, tx.ops[k], k - 1))
         ELSE out,
       <<>>, Len(tx.ops))

\* <<>> for the empty string, which nil becomes; any other value stands for its JSON.
JsonEncode(decoded) == IF decoded.t = "void" THEN <<>> ELSE <<decoded>>

\* A state change, as it is sent.
ConvertChange(c) == [c EXCEPT !.old = JsonEncode(@), !.new = JsonEncode(@)]

\* ConvertToProto: only state changes do not keep what they had.
ConvertInvocations(invocations) ==
  [i \in DOMAIN invocations |->
     [invocations[i] EXCEPT !.changes = [j \in DOMAIN @ |-> ConvertChange(@[j])]]]
===============================================================================
