-------------------------- MODULE MCLedgerProcessing --------------------------
(* Transactions of a Soroban network for TLC, one kind of interest at a time. *)
EXTENDS LedgerProcessing

Scalar(t, n) == [t |-> t, limbs |-> <<n>>, items |-> <<>>]
Wide(t, limbs) == [t |-> t, limbs |-> limbs, items |-> <<>>]
Items(t, items) == [t |-> t, limbs |-> <<>>, items |-> items]

AnEvent(type, topics) == [type |-> type, contract |-> "c1", topics |-> topics]
Transfer == AnEvent("contract", <<Scalar("symbol", 1)>>)
Untyped  == [AnEvent("contract", <<Scalar("u32", 1)>>) EXCEPT !.contract = Nil]
System   == AnEvent("system", <<>>)

Call == [kind |-> "call", contract |-> "c1", function |-> <<1>>, args |-> <<>>,
         auth |-> <<>>, writes |-> <<>>, changes |-> <<>>, result |-> "success"]

Tx == [hash |-> 0, success |-> TRUE, feeBump |-> FALSE, v |-> 4,
       opEvents |-> <<>>, txEvents |-> <<>>, ops |-> <<>>]
Calling(op) == [Tx EXCEPT !.ops = <<op>>]

\* Up to two operations that emit up to two events; events of the transaction.
EventLists == {<<>>, <<Transfer>>, <<System, Transfer>>, <<Transfer, Untyped>>}
Classic == [Call EXCEPT !.kind = "other"]
EventTxs ==
  {[Tx EXCEPT !.opEvents = <<a, b>>, !.txEvents = c, !.ops = <<Classic, Classic>>] :
     a \in EventLists, b \in EventLists, c \in {<<>>, <<Transfer>>}}
  \cup {[Tx EXCEPT !.success = FALSE, !.txEvents = <<Transfer>>, !.ops = <<Classic>>],
        [Tx EXCEPT !.v = 0, !.opEvents = <<<<Transfer>>>>, !.ops = <<Classic>>]}

\* Calls with either version of the meta, that fail, and with a fee bump.
CallTxs ==
  {[Calling(Call) EXCEPT !.v = v, !.feeBump = bump, !.opEvents = <<evs>>] :
     v \in {3, 4}, bump \in BOOLEAN, evs \in EventLists}
  \cup {[Calling([Call EXCEPT !.result = "failure"]) EXCEPT !.success = FALSE,
                 !.v = v, !.feeBump = bump] : v \in {3, 4}, bump \in BOOLEAN}

\* Authorization trees of up to four nodes, over two contracts and a node that
\* creates a contract; one entry or two.
Node(to, subs) == [to |-> to, subs |-> subs]
Leaves == {Node(to, <<>>) : to \in {"c1", "c2", ""}}
Trees  == {Node(to, subs) : to \in {"c1", "c2", ""},
             subs \in {<<l>> : l \in Leaves} \cup (Leaves \X Leaves)}
Deep   == {Node("c2", <<t, Node("c2", <<>>)>>) : t \in Trees}
Entry(root, credentials) == [root |-> root, credentials |-> credentials]
AuthTxs ==
  {Calling([Call EXCEPT !.auth = <<Entry(t, "address")>>]) : t \in Trees \cup Deep}
  \cup {Calling([Call EXCEPT !.kind = kind,
                   !.auth = <<Entry(l, "source"), Entry(t, "address")>>]) :
          kind \in {"call", "create"}, l \in Leaves, t \in Trees}

\* Arguments: all wide integers of small limbs, and values that nest.
Bad   == Scalar("error", 0)
WideTxs ==
  {Calling([Call EXCEPT !.args = <<Wide(t, l)>>]) :
     t \in {"u128", "i128"}, l \in Limbs \X Limbs}
  \cup {Calling([Call EXCEPT !.args = <<Wide(t, <<hi, 0, 1, lo>>)>>]) :
          t \in {"u256", "i256"}, hi \in Limbs, lo \in Limbs}
MapOf(k1, k2) == Items("map", <<k1, Wide("i128", <<2, 1>>), k2, Bad>>)
ArgTxs ==
  {Calling([Call EXCEPT !.function = f, !.args = args]) :
     f \in {<<>>, <<1>>},
     args \in {<<Scalar("symbol", 2), Bad, Scalar("void", 0)>>,
               <<Items("vec", <<Bad, Wide("i128", <<3, 1>>)>>), Scalar("u32", 1)>>,
               <<MapOf(Scalar("u32", 1), Scalar("symbol", 1))>>,
               <<Items("vec", <<MapOf(Scalar("u32", 1), Wide("u128", <<2, 0>>))>>)>>}}

\* Entries of contract data: under keys that print alike, of two kinds and of two
\* durabilities; of another contract; under a key that is not decoded; a contract
\* instance; and an entry that is no contract data.
Key(value) ==
  [entry |-> "contract_data", contract |-> "c1", durability |-> "persistent", key |-> value]
One      == Key(Scalar("u32", 1))
OneToo   == Key(Scalar("symbol", 1))
OneTemp  == [One EXCEPT !.durability = "temporary"]
OneThere == [One EXCEPT !.contract = "c2"]
Map      == Key(MapOf(Scalar("u32", 1), Scalar("u32", 2)))
BadKey   == Key(Bad)
Instance == Key(Scalar("instance", 0))
Code     == [One EXCEPT !.entry = "other"]
MCKeys   == {One, OneToo, OneTemp, OneThere, Map, BadKey, Instance, Code}

Writing(key, value) == [key |-> key, value |-> value, restore |-> FALSE]
SomeWrites ==
  {Writing(k, v) : k \in MCKeys, v \in {Scalar("u32", 7), Scalar("void", 0)}}
  \cup {Writing(One, v) : v \in {Scalar("symbol", 7), Bad, Map.key}}
  \cup {Writing(Instance, Scalar("instance", n)) : n \in {1, 2}}
Deletes    == {Writing(k, Nil) : k \in MCKeys}
WriteTxs ==
  {Calling([Call EXCEPT !.writes = <<w>>]) : w \in SomeWrites \cup Deletes}
  \cup {Calling([Call EXCEPT !.writes = <<Writing(One, Scalar("u32", 7)), w>>]) :
          w \in SomeWrites \cup Deletes}
  \cup {Calling([Call EXCEPT !.writes =
                   <<[Writing(k, Scalar("u32", 7)) EXCEPT !.restore = TRUE], Writing(k, Scalar("void", 0))>>]) :
          k \in {One, OneThere, Code}}

MCTxs == EventTxs \cup CallTxs \cup AuthTxs \cup WideTxs \cup ArgTxs \cup WriteTxs
===============================================================================
