------------------------------ MODULE LedgerProofs ------------------------------
(***************************************************************************)
(* Proofs about LedgerProcessing: the events of every transaction are      *)
(* numbered without gap, the two processors agree on them, the state       *)
(* changes that are sent can be replayed, arguments are exact, and the     *)
(* calls are the edges of the authorization trees.                         *)
(***************************************************************************)
EXTENDS LedgerProcessing, LoopProofs

-------------------------------------------------------------------------------
(* The contract events of one transaction. *)

\* What is found of a transaction, whatever the events are.
Found(tx, txIndex, E) ==
  {ProcessContractEvent(e, tx, txIndex, i, op) : e \in E, i \in Nat, op \in Nat \cup {Nil}}

\* What is found in the rounds of the loop over the events of an operation.
ContractOnlyRounds(f, found, evs, op, tx, txIndex, E) ==
  /\ f \in [0..Len(evs) -> Seq(Found(tx, txIndex, E))]
  /\ f[0] = found
  /\ \A j \in 1..Len(evs) :
       f[j] = IF evs[j].type # "contract" THEN f[j - 1]
              ELSE Append(f[j - 1],
                          ProcessContractEvent(evs[j], tx, txIndex, Len(f[j - 1]), op))

LEMMA ContractOnlyLoop ==
  ASSUME NEW tx, NEW txIndex, NEW E, NEW found \in Seq(Found(tx, txIndex, E)),
         NEW evs \in Seq(E), NEW op \in Nat \cup {Nil}
  PROVE  \E f : /\ ContractOnlyRounds(f, found, evs, op, tx, txIndex, E)
                /\ ContractOnly(found, evs, op, tx, txIndex) = f[Len(evs)]
<1>. DEFINE n == Len(evs)
            S == Seq(Found(tx, txIndex, E))
            Body(out, j) == IF evs[j].type # "contract" THEN out
                            ELSE Append(out, ProcessContractEvent(evs[j], tx, txIndex, Len(out), op))
            round == [j \in 1..n |-> [out \in S |-> Body(out, j)]]
            Rec(g) == g = [j \in 0..n |-> IF j = 0 THEN found ELSE Body(g[j - 1], j)]
            c == CHOOSE g : Rec(g)
<1>1. n \in Nat /\ found \in S
  OBVIOUS
<1>2. ASSUME NEW j \in 1..n, NEW out \in S PROVE Body(out, j) \in S
  <2>1. evs[j] \in E /\ Len(out) \in Nat
    OBVIOUS
  <2>2. ProcessContractEvent(evs[j], tx, txIndex, Len(out), op) \in Found(tx, txIndex, E)
    BY <2>1 DEF Found
  <2>. QED BY <2>2
<1>. HIDE DEF Body, S, n
<1>3. Rounds(round, n, S)
  BY <1>2 DEF Rounds
<1>4. \A j \in 1..n, out \in S : round[j][out] = Body(out, j)
  OBVIOUS
<1>. HIDE DEF round
<1>5. PICK f : Iterates(f, round, n, found, S)
  BY <1>1, <1>3, IteratesExist
<1>6. f \in [0..n -> S] /\ f[0] = found /\ \A j \in 1..n : f[j] = Body(f[j - 1], j)
  BY <1>1, <1>4, <1>5 DEF Iterates
<1>7. Rec(f)
  BY <1>6
<1>8. Rec(c)
  BY <1>7
<1>9. c = f
  BY <1>1, <1>6, <1>8, SameRounds
<1>10. ContractOnly(found, evs, op, tx, txIndex) = c[n]
  BY DEF ContractOnly, Loop, Body, n
<1>. QED BY <1>6, <1>9, <1>10 DEF Body, n, S, ContractOnlyRounds
ContractIn(evs) == {j \in DOMAIN evs : evs[j].type = "contract"}

LEMMA FoundFields ==
  ASSUME NEW e, NEW tx, NEW txIndex, NEW i, NEW op,
         NEW x, x = ProcessContractEvent(e, tx, txIndex, i, op)
  PROVE  /\ x.hash = tx.hash /\ x.txIndex = txIndex /\ x.success = tx.success
         /\ x.index = i /\ x.op = op /\ x.topics = e.topics
         /\ x.contract = IF e.contract = Nil THEN Blank ELSE e.contract
BY DEF ProcessContractEvent

\* One event more or less that is a contract's.
ContractUpTo(evs, m) == {q \in 1..m : evs[q].type = "contract"}

LEMMA ContractCount ==
  ASSUME NEW E, NEW evs \in Seq(E), NEW j \in 1..Len(evs)
  PROVE  Cardinality(ContractUpTo(evs, j)) =
           Cardinality(ContractUpTo(evs, j - 1)) + (IF evs[j].type = "contract" THEN 1 ELSE 0)
<1>. DEFINE before == ContractUpTo(evs, j - 1)
            after  == ContractUpTo(evs, j)
<1>1. IsFiniteSet(before) /\ Cardinality(before) \in Nat
  <2>1. IsFiniteSet(1..(j - 1)) /\ before \subseteq 1..(j - 1)
    BY FS_Interval DEF ContractUpTo
  <2>. QED BY <2>1, FS_Subset, FS_CardinalityType
<1>2. CASE evs[j].type = "contract"
  <2>1. after = before \cup {j} /\ j \notin before
    BY <1>2 DEF ContractUpTo
  <2>. HIDE DEF before, after
  <2>2. Cardinality(after) = Cardinality(before) + 1
    BY <1>1, <2>1, FS_AddElement
  <2>. QED BY <1>2, <2>2 DEF before, after
<1>3. CASE evs[j].type # "contract"
  <2>1. after = before
    BY <1>3 DEF ContractUpTo
  <2>. QED BY <1>1, <1>3, <2>1
<1>. QED BY <1>2, <1>3

\* ContractOnly keeps what was found and adds the contract events, numbered from
\* where it was.
AddsContract(all, found, evs, op, tx, txIndex, E) ==
  /\ all \in Seq(Found(tx, txIndex, E))
  /\ Cardinality(ContractIn(evs)) \in Nat
  /\ Len(all) = Len(found) + Cardinality(ContractIn(evs))
  /\ \A i \in 1..Len(found) : all[i] = found[i]
  /\ \A i \in (Len(found) + 1)..Len(all) : \E j \in ContractIn(evs) :
       all[i] = ProcessContractEvent(evs[j], tx, txIndex, i - 1, op)

LEMMA ContractOnlyAdds ==
  ASSUME NEW tx, NEW txIndex, NEW E, NEW found \in Seq(Found(tx, txIndex, E)),
         NEW evs \in Seq(E), NEW op \in Nat \cup {Nil},
         NEW all, all = ContractOnly(found, evs, op, tx, txIndex)
  PROVE  AddsContract(all, found, evs, op, tx, txIndex, E)
<1>. DEFINE n == Len(evs)
            L == Len(found)
            S == Seq(Found(tx, txIndex, E))
            Made(j, i) == ProcessContractEvent(evs[j], tx, txIndex, i, op)
<1>0. PICK f : ContractOnlyRounds(f, found, evs, op, tx, txIndex, E) /\ all = f[n]
  BY ContractOnlyLoop
<1>1. /\ f \in [0..n -> S] /\ f[0] = found
      /\ \A j \in 1..n : f[j] = IF evs[j].type # "contract" THEN f[j - 1]
                                ELSE Append(f[j - 1], Made(j, Len(f[j - 1])))
  BY <1>0 DEF ContractOnlyRounds
<1>. DEFINE P(j) == /\ Cardinality(ContractUpTo(evs, j)) \in Nat
                    /\ Len(f[j]) = L + Cardinality(ContractUpTo(evs, j))
                    /\ \A i \in 1..L : f[j][i] = found[i]
                    /\ \A i \in (L + 1)..Len(f[j]) : \E q \in ContractUpTo(evs, j) : f[j][i] = Made(q, i - 1)
            R == {j \in 0..n : P(j)}
<1>2. n \in Nat /\ L \in Nat
  OBVIOUS
<1>3. 0 \in R
  <2>1. ContractUpTo(evs, 0) = {} /\ Cardinality({}) = 0
    BY FS_EmptySet DEF ContractUpTo
  <2>2. f[0] = found /\ Len(f[0]) = L /\ L + 0 = L
    BY <1>1
  <2>3. (L + 1)..L = {}
    BY <1>2
  <2>4. P(0)
    <3>1. Cardinality(ContractUpTo(evs, 0)) = 0
      BY <2>1
    <3>2. \A i \in 1..L : f[0][i] = found[i]
      BY <2>2
    <3>3. \A i \in (L + 1)..Len(f[0]) : \E q \in ContractUpTo(evs, 0) : f[0][i] = Made(q, i - 1)
      BY <2>2, <2>3
    <3>. QED BY <2>2, <3>1, <3>2, <3>3
  <2>. HIDE DEF P
  <2>. QED BY <1>2, <2>4
<1>4. ASSUME NEW m \in 0..(n - 1), m \in R PROVE m + 1 \in R
  <2>. DEFINE j == m + 1
  <2>1. j \in 1..n /\ j - 1 = m /\ j \in 0..n
    BY <1>2
  <2>2. P(m)
    BY <1>4
  <2>3. f[m] \in S /\ Len(f[m]) \in Nat
    <3>1. m \in 0..n
      BY <1>2
    <3>2. f[m] \in S
      BY <1>1, <3>1
    <3>. QED BY <3>2
  <2>4. Cardinality(ContractUpTo(evs, j)) = Cardinality(ContractUpTo(evs, m))
                                 + (IF evs[j].type = "contract" THEN 1 ELSE 0)
    BY <2>1, ContractCount
  <2>5. \A q : q \in ContractUpTo(evs, j) <=> q \in ContractUpTo(evs, m) \/ (q = j /\ evs[j].type = "contract")
    BY <1>2 DEF ContractUpTo
  <2>. HIDE DEF j, Made, S
  <2>6. CASE evs[j].type # "contract"
    <3>1. f[j] = f[m]
      BY <1>1, <2>1, <2>6
    <3>2. P(j)
      BY <2>2, <2>4, <2>5, <2>6, <3>1
    <3>. HIDE DEF P
    <3>. QED BY <2>1, <3>2 DEF j
  <2>7. CASE evs[j].type = "contract"
    <3>1. f[j] = Append(f[m], Made(j, Len(f[m])))
      BY <1>1, <2>1, <2>7
    <3>2. /\ Len(f[j]) = Len(f[m]) + 1
          /\ \A i \in 1..Len(f[m]) : f[j][i] = f[m][i]
          /\ f[j][Len(f[m]) + 1] = Made(j, Len(f[m]))
      BY <2>3, <3>1, AppendProperties DEF S
    <3>3. Cardinality(ContractUpTo(evs, j)) \in Nat /\ Len(f[j]) = L + Cardinality(ContractUpTo(evs, j))
      BY SMTT(30), <1>2, <2>2, <2>4, <2>7, <3>2
    <3>4. \A i \in 1..L : f[j][i] = found[i]
      BY <1>2, <2>2, <3>2
    <3>5. ASSUME NEW i \in (L + 1)..Len(f[j])
          PROVE  \E q \in ContractUpTo(evs, j) : f[j][i] = Made(q, i - 1)
      <4>1. CASE i = Len(f[m]) + 1
        <5>1. i - 1 = Len(f[m])
          BY <2>3, <4>1
        <5>. QED BY <2>5, <2>7, <3>2, <4>1, <5>1
      <4>2. CASE i # Len(f[m]) + 1
        <5>1. i \in (L + 1)..Len(f[m]) /\ i \in 1..Len(f[m])
          BY <1>2, <2>3, <3>2, <4>2
        <5>. QED BY <2>2, <2>5, <3>2, <5>1
      <4>. QED BY <4>1, <4>2
    <3>6. P(j)
      BY <3>3, <3>4, <3>5
    <3>. HIDE DEF P
    <3>. QED BY <2>1, <3>6 DEF j
  <2>. QED BY <2>6, <2>7
<1>5. n \in R
  <2>. HIDE DEF n, R
  <2>1. \A i \in 0..(n - 1) : i \in R => i + 1 \in R
    BY <1>4
  <2>2. 0..n \subseteq R
    BY <1>2, <1>3, <2>1, BoundedInduction
  <2>. QED BY <1>2, <2>2
<1>6. P(n)
  BY <1>5
<1>7. ContractUpTo(evs, n) = ContractIn(evs)
  BY DEF ContractIn, ContractUpTo
<1>. QED BY <1>0, <1>1, <1>2, <1>6, <1>7 DEF AddsContract

\* What is found in the rounds of the loop over the operations.
OperationRounds(f, tx, txIndex, E) ==
  /\ f \in [0..Len(tx.opEvents) -> Seq(Found(tx, txIndex, E))]
  /\ f[0] = <<>>
  /\ \A k \in 1..Len(tx.opEvents) :
       f[k] = ContractOnly(f[k - 1], tx.opEvents[k], k - 1, tx, txIndex)

LEMMA OperationEventsLoop ==
  ASSUME NEW tx, NEW txIndex, NEW E, tx.opEvents \in Seq(Seq(E))
  PROVE  \E f : /\ OperationRounds(f, tx, txIndex, E)
                /\ OperationEvents(tx, txIndex) = f[Len(tx.opEvents)]
<1>. DEFINE n == Len(tx.opEvents)
            S == Seq(Found(tx, txIndex, E))
            Body(out, k) == ContractOnly(out, tx.opEvents[k], k - 1, tx, txIndex)
            round == [k \in 1..n |-> [out \in S |-> Body(out, k)]]
            Rec(g) == g = [k \in 0..n |-> IF k = 0 THEN <<>> ELSE Body(g[k - 1], k)]
            c == CHOOSE g : Rec(g)
<1>1. n \in Nat /\ <<>> \in S
  OBVIOUS
<1>2. ASSUME NEW k \in 1..n, NEW out \in S PROVE Body(out, k) \in S
  <2>1. tx.opEvents[k] \in Seq(E) /\ k - 1 \in Nat \cup {Nil}
    OBVIOUS
  <2>. QED BY <2>1, ContractOnlyAdds DEF AddsContract
<1>. HIDE DEF Body, S, n
<1>3. Rounds(round, n, S)
  BY <1>2 DEF Rounds
<1>4. \A k \in 1..n, out \in S : round[k][out] = Body(out, k)
  OBVIOUS
<1>. HIDE DEF round
<1>5. PICK f : Iterates(f, round, n, <<>>, S)
  BY <1>1, <1>3, IteratesExist
<1>6. f \in [0..n -> S] /\ f[0] = <<>> /\ \A k \in 1..n : f[k] = Body(f[k - 1], k)
  BY <1>1, <1>4, <1>5 DEF Iterates
<1>7. Rec(f)
  BY <1>6
<1>8. Rec(c)
  BY <1>7
<1>9. c = f
  BY <1>1, <1>6, <1>8, SameRounds
<1>10. OperationEvents(tx, txIndex) = c[n]
  BY DEF OperationEvents, Loop, Body, n
<1>. QED BY <1>6, <1>9, <1>10 DEF Body, n, S, OperationRounds

\* The events of the first k operations, in order and numbered.
InOperation(out, op) == {i \in DOMAIN out : out[i].op = op}

NumberedUpTo(out, tx, txIndex, k) ==
  /\ \A i \in DOMAIN out : \E q \in 1..k : \E j \in ContractIn(tx.opEvents[q]) :
       out[i] = ProcessContractEvent(tx.opEvents[q][j], tx, txIndex, i - 1, q - 1)
  /\ \A i, j \in DOMAIN out : i < j => out[i].op <= out[j].op
  /\ \A q \in 1..k : Cardinality(InOperation(out, q - 1)) = Cardinality(ContractIn(tx.opEvents[q]))

LEMMA OperationAdds ==
  ASSUME NEW tx, NEW txIndex, NEW E, tx.opEvents \in Seq(Seq(E)),
         NEW k \in 1..Len(tx.opEvents), NEW found \in Seq(Found(tx, txIndex, E)),
         NumberedUpTo(found, tx, txIndex, k - 1),
         NEW all, all = ContractOnly(found, tx.opEvents[k], k - 1, tx, txIndex)
  PROVE  NumberedUpTo(all, tx, txIndex, k)
<1>. DEFINE L == Len(found)
            count == Cardinality(ContractIn(tx.opEvents[k]))
<1>1. /\ all \in Seq(Found(tx, txIndex, E))
      /\ count \in Nat
      /\ Len(all) = L + count
      /\ \A i \in 1..L : all[i] = found[i]
      /\ \A i \in (L + 1)..Len(all) : \E j \in ContractIn(tx.opEvents[k]) :
           all[i] = ProcessContractEvent(tx.opEvents[k][j], tx, txIndex, i - 1, k - 1)
  <2>. DEFINE evs == tx.opEvents[k]
              op  == k - 1
  <2>1. evs \in Seq(E) /\ op \in Nat \cup {Nil} /\ all = ContractOnly(found, evs, op, tx, txIndex)
    OBVIOUS
  <2>. HIDE DEF evs, op
  <2>2. AddsContract(all, found, evs, op, tx, txIndex, E)
    BY <2>1, ContractOnlyAdds
  <2>. QED BY <2>2 DEF evs, op, AddsContract
<1>2. L \in Nat /\ DOMAIN found = 1..L /\ DOMAIN all = 1..Len(all) /\ Len(all) \in Nat
  BY <1>1
<1>3. \A i \in (L + 1)..Len(all) : all[i].op = k - 1
  BY SMTT(30), <1>1, FoundFields
<1>4. ASSUME NEW i \in 1..L PROVE all[i].op = found[i].op /\ found[i].op \in 0..(k - 2)
  <2>1. PICK q \in 1..(k - 1) : \E j \in ContractIn(tx.opEvents[q]) :
          found[i] = ProcessContractEvent(tx.opEvents[q][j], tx, txIndex, i - 1, q - 1)
    BY <1>2 DEF NumberedUpTo
  <2>2. found[i].op = q - 1
    BY <2>1, FoundFields
  <2>3. all[i] = found[i]
    BY <1>1
  <2>4. q - 1 \in 0..(k - 2)
    OBVIOUS
  <2>. QED BY <2>2, <2>3, <2>4
<1>5. ASSUME NEW i \in DOMAIN all
      PROVE  \E q \in 1..k : \E j \in ContractIn(tx.opEvents[q]) :
               all[i] = ProcessContractEvent(tx.opEvents[q][j], tx, txIndex, i - 1, q - 1)
  <2>1. CASE i \in 1..L
    <3>1. PICK q \in 1..(k - 1) : \E j \in ContractIn(tx.opEvents[q]) :
            found[i] = ProcessContractEvent(tx.opEvents[q][j], tx, txIndex, i - 1, q - 1)
      BY <1>2, <2>1 DEF NumberedUpTo
    <3>2. q \in 1..k /\ all[i] = found[i]
      BY <1>1, <2>1
    <3>. QED BY <3>1, <3>2
  <2>2. CASE i \in (L + 1)..Len(all)
    <3>1. k \in 1..k
      OBVIOUS
    <3>. QED BY <1>1, <2>2, <3>1
  <2>. QED BY <1>2, <2>1, <2>2
<1>6. ASSUME NEW i \in DOMAIN all, NEW j \in DOMAIN all, i < j
      PROVE  all[i].op <= all[j].op
  <2>1. CASE j \in 1..L
    <3>1. i \in 1..L
      BY <1>2, <1>6, <2>1
    <3>2. found[i].op <= found[j].op
      BY <1>2, <1>6, <2>1, <3>1 DEF NumberedUpTo
    <3>. QED BY <1>4, <2>1, <3>1, <3>2
  <2>2. CASE j \in (L + 1)..Len(all)
    <3>1. all[j].op = k - 1
      BY <1>3, <2>2
    <3>2. CASE i \in 1..L
      <4>1. all[i].op \in 0..(k - 2)
        BY <1>4, <3>2
      <4>. QED BY <3>1, <4>1
    <3>3. CASE i \in (L + 1)..Len(all)
      BY <1>3, <3>1, <3>3
    <3>. QED BY <1>2, <3>2, <3>3
  <2>. QED BY <1>2, <2>1, <2>2
<1>7. ASSUME NEW q \in 1..k
      PROVE  Cardinality(InOperation(all, q - 1)) = Cardinality(ContractIn(tx.opEvents[q]))
  <2>1. CASE q = k
    <3>1. ASSUME NEW i \in 1..L PROVE all[i].op # k - 1
      <4>1. all[i].op \in 0..(k - 2)
        BY <1>4
      <4>. QED BY <4>1
    <3>2. InOperation(all, k - 1) = (L + 1)..Len(all)
      BY <1>2, <1>3, <3>1 DEF InOperation
    <3>3. Cardinality((L + 1)..Len(all)) = count
      <4>1. L + 1 \in Int /\ Len(all) \in Int /\ count \in Nat /\ Len(all) = L + count
        BY <1>1, <1>2
      <4>. HIDE DEF L, count
      <4>2. Cardinality((L + 1)..Len(all)) = IF L + 1 > Len(all) THEN 0 ELSE Len(all) - (L + 1) + 1
        BY <4>1, FS_Interval
      <4>. QED BY <1>2, <4>1, <4>2
    <3>. QED BY <2>1, <3>2, <3>3
  <2>2. CASE q # k
    <3>1. InOperation(all, q - 1) = InOperation(found, q - 1)
      <4>1. \A i \in 1..L : all[i].op = found[i].op
        BY <1>4
      <4>2. \A i \in (L + 1)..Len(all) : all[i].op # q - 1
        BY <1>3, <2>2
      <4>3. L <= Len(all)
        BY <1>1, <1>2
      <4>. QED BY SMTT(30), <1>2, <4>1, <4>2, <4>3 DEF InOperation
    <3>2. q \in 1..(k - 1)
      BY <2>2
    <3>. QED BY <3>1, <3>2 DEF NumberedUpTo
  <2>. QED BY <2>1, <2>2
<1>. HIDE DEF L, count
<1>. QED BY <1>5, <1>6, <1>7 DEF NumberedUpTo

LEMMA OperationEventsNumbered ==
  ASSUME NEW tx, NEW txIndex, NEW E, tx.opEvents \in Seq(Seq(E))
  PROVE  /\ OperationEvents(tx, txIndex) \in Seq(Found(tx, txIndex, E))
         /\ NumberedUpTo(OperationEvents(tx, txIndex), tx, txIndex, Len(tx.opEvents))
<1>. DEFINE n == Len(tx.opEvents)
            S == Seq(Found(tx, txIndex, E))
<1>1. PICK f : OperationRounds(f, tx, txIndex, E) /\ OperationEvents(tx, txIndex) = f[n]
  BY OperationEventsLoop
<1>2. /\ f \in [0..n -> S] /\ f[0] = <<>>
      /\ \A k \in 1..n : f[k] = ContractOnly(f[k - 1], tx.opEvents[k], k - 1, tx, txIndex)
  BY <1>1 DEF OperationRounds
<1>. DEFINE R == {k \in 0..n : NumberedUpTo(f[k], tx, txIndex, k)}
<1>3. n \in Nat
  OBVIOUS
<1>4. 0 \in R
  <2>1. NumberedUpTo(<<>>, tx, txIndex, 0)
    BY DEF NumberedUpTo
  <2>. QED BY <1>2, <1>3, <2>1
<1>5. ASSUME NEW m \in 0..(n - 1), m \in R PROVE m + 1 \in R
  <2>. DEFINE k == m + 1
  <2>1. k \in 1..n /\ k - 1 = m /\ k \in 0..n /\ m \in 0..n
    BY <1>3
  <2>2. f[m] \in S
    BY <1>2, <2>1
  <2>3. f[k] = ContractOnly(f[m], tx.opEvents[k], k - 1, tx, txIndex)
    BY <1>2, <2>1
  <2>4. NumberedUpTo(f[m], tx, txIndex, k - 1)
    BY <1>5, <2>1
  <2>. HIDE DEF k
  <2>5. NumberedUpTo(f[k], tx, txIndex, k)
    BY <2>1, <2>2, <2>3, <2>4, OperationAdds
  <2>. QED BY <2>1, <2>5 DEF k
<1>6. n \in R
  <2>. HIDE DEF n, R
  <2>1. \A i \in 0..(n - 1) : i \in R => i + 1 \in R
    BY <1>5
  <2>2. 0..n \subseteq R
    BY <1>3, <1>4, <2>1, BoundedInduction
  <2>. QED BY <1>3, <2>2
<1>7. n \in 0..n
  BY <1>3
<1>. QED BY <1>1, <1>2, <1>6, <1>7

\* What extractEventsFromTransaction returns: the events of the operations and
\* then those of the transaction, numbered.
EventOf(x, tx, txIndex, index) ==
  /\ tx.success
  /\ \/ \E q \in DOMAIN tx.opEvents : \E j \in ContractIn(tx.opEvents[q]) :
          x = ProcessContractEvent(tx.opEvents[q][j], tx, txIndex, index, q - 1)
     \/ \E j \in ContractIn(tx.txEvents) :
          x = ProcessContractEvent(tx.txEvents[j], tx, txIndex, index, Nil)

InOrder(all) ==
  \A i, j \in DOMAIN all : i < j =>
    /\ all[i].op = Nil => all[j].op = Nil
    /\ Nil \notin {all[i].op, all[j].op} => all[i].op <= all[j].op

TransactionNumbered(all, tx, txIndex) ==
  /\ \A i \in DOMAIN all : EventOf(all[i], tx, txIndex, i - 1)
  /\ InOrder(all)
  /\ \A q \in DOMAIN tx.opEvents :
       Cardinality(InOperation(all, q - 1)) = Cardinality(Emitted(tx, tx.opEvents[q]))
  /\ Cardinality(InOperation(all, Nil)) = Cardinality(Emitted(tx, tx.txEvents))

LEMMA ExtractEventsNumbered ==
  ASSUME NEW tx, NEW txIndex, NEW E, tx.opEvents \in Seq(Seq(E)), tx.txEvents \in Seq(E),
         tx.success \in BOOLEAN, NEW all, all = ExtractEvents(tx, txIndex)
  PROVE  /\ all \in Seq(Found(tx, txIndex, E))
         /\ TransactionNumbered(all, tx, txIndex)
<1>1. CASE ~tx.success \/ ~Readable(tx)
  <2>1. all = <<>> /\ \A op : InOperation(all, op) = {}
    BY <1>1 DEF ExtractEvents, InOperation
  <2>2. \A evs : Emitted(tx, evs) = {}
    BY <1>1 DEF Emitted
  <2>3. all \in Seq(Found(tx, txIndex, E)) /\ DOMAIN all = {}
    BY <2>1
  <2>4. \A q \in DOMAIN tx.opEvents :
          Cardinality(InOperation(all, q - 1)) = Cardinality(Emitted(tx, tx.opEvents[q]))
    BY <2>1, <2>2, Zenon
  <2>5. Cardinality(InOperation(all, Nil)) = Cardinality(Emitted(tx, tx.txEvents))
    BY <2>1, <2>2, Zenon
  <2>. QED BY <2>3, <2>4, <2>5 DEF TransactionNumbered, InOrder
<1>2. CASE tx.success /\ Readable(tx)
  <2>. DEFINE found == OperationEvents(tx, txIndex)
              L == Len(found)
              count == Cardinality(ContractIn(tx.txEvents))
              n == Len(tx.opEvents)
  <2>1. found \in Seq(Found(tx, txIndex, E)) /\ NumberedUpTo(found, tx, txIndex, n)
    BY OperationEventsNumbered
  <2>2. all = ContractOnly(found, tx.txEvents, Nil, tx, txIndex)
    BY <1>2 DEF ExtractEvents
  <2>. HIDE DEF found
  <2>3. AddsContract(all, found, tx.txEvents, Nil, tx, txIndex, E)
    BY <2>1, <2>2, ContractOnlyAdds
  <2>4. /\ all \in Seq(Found(tx, txIndex, E)) /\ count \in Nat /\ Len(all) = L + count
        /\ \A i \in 1..L : all[i] = found[i]
        /\ \A i \in (L + 1)..Len(all) : \E j \in ContractIn(tx.txEvents) :
             all[i] = ProcessContractEvent(tx.txEvents[j], tx, txIndex, i - 1, Nil)
    BY <2>3 DEF AddsContract
  <2>5. L \in Nat /\ DOMAIN found = 1..L /\ DOMAIN all = 1..Len(all) /\ Len(all) \in Nat
    BY <2>1, <2>4
  <2>6. \A evs : Emitted(tx, evs) = ContractIn(evs)
    BY <1>2 DEF Emitted, ContractIn
  <2>7. \A i \in (L + 1)..Len(all) : all[i].op = Nil
    BY <2>4, FoundFields
  <2>8. ASSUME NEW i \in 1..L
        PROVE  /\ all[i] = found[i]
               /\ \E q \in 1..n : \E j \in ContractIn(tx.opEvents[q]) :
                    all[i] = ProcessContractEvent(tx.opEvents[q][j], tx, txIndex, i - 1, q - 1)
    <3>1. all[i] = found[i]
      BY <2>4
    <3>2. i \in DOMAIN found
      BY <2>5
    <3>3. PICK q \in 1..n : \E j \in ContractIn(tx.opEvents[q]) :
            found[i] = ProcessContractEvent(tx.opEvents[q][j], tx, txIndex, i - 1, q - 1)
      <4>. HIDE DEF n
      <4>. QED BY <2>1, <3>2 DEF NumberedUpTo
    <3>. QED BY <3>1, <3>3
  <2>9. ASSUME NEW i \in 1..L PROVE found[i].op \in Nat /\ all[i].op = found[i].op
    <3>1. PICK q \in 1..n : \E j \in ContractIn(tx.opEvents[q]) :
            all[i] = ProcessContractEvent(tx.opEvents[q][j], tx, txIndex, i - 1, q - 1)
      BY <2>8
    <3>2. all[i].op = q - 1
      BY <3>1, FoundFields
    <3>. QED BY <2>8, <3>2
  <2>10. Nil \notin Nat
    BY ContractsAssumption
  <2>11. ASSUME NEW i \in DOMAIN all PROVE EventOf(all[i], tx, txIndex, i - 1)
    <3>1. CASE i \in 1..L
      <4>1. 1..n = DOMAIN tx.opEvents
        OBVIOUS
      <4>. QED BY <1>2, <2>8, <3>1, <4>1 DEF EventOf
    <3>2. CASE i \in (L + 1)..Len(all)
      BY <1>2, <2>4, <3>2 DEF EventOf
    <3>. QED BY <2>5, <3>1, <3>2
  <2>12. ASSUME NEW i \in DOMAIN all, NEW j \in DOMAIN all, i < j
         PROVE  /\ all[i].op = Nil => all[j].op = Nil
                /\ Nil \notin {all[i].op, all[j].op} => all[i].op <= all[j].op
    <3>1. CASE j \in 1..L
      <4>1. i \in 1..L
        BY <2>5, <2>12, <3>1
      <4>2. found[i].op <= found[j].op
        BY <2>1, <2>5, <2>12, <3>1, <4>1 DEF NumberedUpTo
      <4>3. all[i].op # Nil
        BY <2>9, <2>10, <4>1
      <4>. QED BY <2>9, <3>1, <4>1, <4>2, <4>3
    <3>2. CASE j \in (L + 1)..Len(all)
      BY <2>7, <3>2
    <3>. QED BY <2>5, <3>1, <3>2
  <2>13. ASSUME NEW q \in DOMAIN tx.opEvents
         PROVE  Cardinality(InOperation(all, q - 1)) = Cardinality(Emitted(tx, tx.opEvents[q]))
    <3>1. q \in 1..n /\ q - 1 \in Nat
      OBVIOUS
    <3>2. InOperation(all, q - 1) = InOperation(found, q - 1)
      <4>1. \A i \in 1..L : all[i].op = found[i].op
        BY <2>9
      <4>2. \A i \in (L + 1)..Len(all) : all[i].op # q - 1
        BY <2>7, <2>10, <3>1
      <4>3. L <= Len(all)
        BY <2>4, <2>5
      <4>. QED BY SMTT(30), <2>5, <4>1, <4>2, <4>3 DEF InOperation
    <3>. QED BY <2>1, <2>6, <3>1, <3>2 DEF NumberedUpTo
  <2>14. Cardinality(InOperation(all, Nil)) = Cardinality(Emitted(tx, tx.txEvents))
    <3>1. \A i \in 1..L : all[i].op # Nil
      BY <2>9, <2>10
    <3>2. InOperation(all, Nil) = (L + 1)..Len(all)
      BY <2>5, <2>7, <3>1 DEF InOperation
    <3>3. L + 1 \in Int /\ Len(all) \in Int /\ count \in Nat /\ Len(all) = L + count
      BY <2>4, <2>5
    <3>4. Cardinality((L + 1)..Len(all)) = count
      <4>. HIDE DEF L, count
      <4>1. Cardinality((L + 1)..Len(all)) = IF L + 1 > Len(all) THEN 0 ELSE Len(all) - (L + 1) + 1
        BY <3>3, FS_Interval
      <4>. QED BY <2>5, <3>3, <4>1
    <3>. QED BY <2>6, <3>2, <3>4
  <2>. HIDE DEF L, count, n
  <2>. QED BY <2>4, <2>11, <2>12, <2>13, <2>14 DEF TransactionNumbered, InOrder
<1>. QED BY <1>1, <1>2

-------------------------------------------------------------------------------
(* The events of all transactions. *)

InTx(evs, n)         == {i \in DOMAIN evs : evs[i].hash = n}
InTxFrom(evs, n, op) == {i \in InTx(evs, n) : evs[i].op = op}

\* EventsNumbered, of one transaction.
NumberedIn(evs, n, tx) ==
  /\ \A i \in InTx(evs, n) :
       /\ evs[i].index = Cardinality({j \in InTx(evs, n) : j < i})
       /\ evs[i].txIndex = n - 1
  /\ \A k \in DOMAIN tx.opEvents :
       Cardinality(InTxFrom(evs, n, k - 1)) = Cardinality(Emitted(tx, tx.opEvents[k]))
  /\ Cardinality(InTxFrom(evs, n, Nil)) = Cardinality(Emitted(tx, tx.txEvents))
  /\ \A i, j \in InTx(evs, n) : i < j =>
       /\ evs[i].op = Nil => evs[j].op = Nil
       /\ Nil \notin {evs[i].op, evs[j].op} => evs[i].op <= evs[j].op

\* The events of another transaction change nothing.
LEMMA StillNumbered ==
  ASSUME NEW evs, NEW new, Sequence(evs), Sequence(new), NEW n, NEW tx,
         NumberedIn(evs, n, tx), \A i \in DOMAIN new : new[i].hash # n
  PROVE  NumberedIn(evs \o new, n, tx)
<1>. DEFINE all == evs \o new
<1>1. /\ Len(evs) \in Nat /\ Len(new) \in Nat
      /\ DOMAIN evs = 1..Len(evs) /\ DOMAIN new = 1..Len(new)
      /\ DOMAIN all = 1..(Len(evs) + Len(new))
      /\ \A i \in 1..Len(evs) : all[i] = evs[i]
      /\ \A i \in (Len(evs) + 1)..(Len(evs) + Len(new)) : all[i] = new[i - Len(evs)]
  BY SequenceConcat
<1>. HIDE DEF all
<1>2. ASSUME NEW i \in DOMAIN all, i \notin DOMAIN evs PROVE all[i].hash # n
  <2>1. i \in (Len(evs) + 1)..(Len(evs) + Len(new)) /\ i - Len(evs) \in DOMAIN new
    BY <1>1, <1>2
  <2>. QED BY <1>1, <2>1
<1>3. InTx(all, n) = InTx(evs, n)
  BY <1>1, <1>2 DEF InTx
<1>4. \A i \in InTx(evs, n) : all[i] = evs[i]
  BY <1>1 DEF InTx
<1>5. \A op : InTxFrom(all, n, op) = InTxFrom(evs, n, op)
  BY <1>3, <1>4 DEF InTxFrom
<1>6. NumberedIn(all, n, tx)
  BY <1>3, <1>4, <1>5, Zenon DEF NumberedIn
<1>. QED BY <1>6 DEF all

\* The events of a transaction that is read, after those of others.
LEMMA NewlyNumbered ==
  ASSUME NEW evs, NEW new, Sequence(evs), Sequence(new), NEW n \in Nat, NEW tx, tx.hash = n,
         TransactionNumbered(new, tx, n - 1), \A i \in DOMAIN evs : evs[i].hash # n
  PROVE  NumberedIn(evs \o new, n, tx)
<1>. DEFINE all == evs \o new
            d   == Len(evs)
            m   == Len(new)
<1>1. /\ d \in Nat /\ m \in Nat
      /\ DOMAIN evs = 1..d /\ DOMAIN new = 1..m /\ DOMAIN all = 1..(d + m)
      /\ \A i \in 1..d : all[i] = evs[i]
      /\ \A i \in (d + 1)..(d + m) : all[i] = new[i - d]
  BY SequenceConcat
<1>2. ASSUME NEW i \in 1..m
      PROVE  /\ new[i].hash = n /\ new[i].index = i - 1 /\ new[i].txIndex = n - 1
             /\ all[d + i] = new[i]
  <2>1. EventOf(new[i], tx, n - 1, i - 1)
    BY <1>1 DEF TransactionNumbered
  <2>2. \E e, op : new[i] = ProcessContractEvent(e, tx, n - 1, i - 1, op)
    BY <2>1, Zenon DEF EventOf
  <2>3. d + i \in (d + 1)..(d + m) /\ (d + i) - d = i
    BY <1>1
  <2>4. new[i].hash = n /\ new[i].index = i - 1 /\ new[i].txIndex = n - 1
    BY <2>2, FoundFields
  <2>. QED BY <1>1, <2>3, <2>4
<1>. HIDE DEF all, d, m
<1>3. ASSUME NEW i \in InTx(all, n) PROVE i - d \in 1..m /\ i = d + (i - d)
  <2>1. i \in 1..(d + m) /\ all[i].hash = n
    BY <1>1 DEF InTx
  <2>2. i \notin 1..d
    BY <1>1, <2>1
  <2>. QED BY <1>1, <2>1, <2>2
<1>4. \A a \in 1..m : d + a \in InTx(all, n)
  BY <1>1, <1>2 DEF InTx
<1>5. ASSUME NEW i \in InTx(all, n)
      PROVE  /\ all[i].index = Cardinality({j \in InTx(all, n) : j < i})
             /\ all[i].txIndex = n - 1
  <2>. DEFINE a == i - d
              before == {j \in InTx(all, n) : j < i}
  <2>1. a \in 1..m /\ i = d + a
    BY <1>3
  <2>. HIDE DEF a
  <2>2. before = (d + 1)..(d + a - 1)
    <3>1. ASSUME NEW j \in before PROVE j \in (d + 1)..(d + a - 1)
      <4>1. j - d \in 1..m /\ j = d + (j - d) /\ j < i
        BY <1>3
      <4>. QED BY <1>1, <2>1, <4>1
    <3>2. ASSUME NEW j \in (d + 1)..(d + a - 1) PROVE j \in before
      <4>1. j - d \in 1..m /\ j = d + (j - d) /\ j < i
        BY <1>1, <2>1
      <4>. QED BY <1>4, <4>1
    <3>. QED BY <3>1, <3>2
  <2>3. Cardinality((d + 1)..(d + a - 1)) = a - 1
    <3>1. d + 1 \in Int /\ d + a - 1 \in Int
      BY <1>1, <2>1
    <3>2. Cardinality((d + 1)..(d + a - 1)) =
            IF d + 1 > d + a - 1 THEN 0 ELSE (d + a - 1) - (d + 1) + 1
      BY <3>1, FS_Interval
    <3>. QED BY <1>1, <2>1, <3>2
  <2>4. all[i].index = a - 1 /\ all[i].txIndex = n - 1
    BY <1>2, <2>1
  <2>. QED BY <2>2, <2>3, <2>4
<1>6. ASSUME NEW op PROVE Cardinality(InTxFrom(all, n, op)) = Cardinality(InOperation(new, op))
  <2>. DEFINE A == InOperation(new, op)
              B == InTxFrom(all, n, op)
  <2>1. A \subseteq 1..m
    BY <1>1 DEF InOperation
  <2>2. ASSUME NEW i, i \in B PROVE \E a \in A : i = d + a
    <3>1. i \in InTx(all, n) /\ all[i].op = op
      BY <2>2 DEF InTxFrom
    <3>2. i - d \in 1..m /\ i = d + (i - d)
      BY <1>3, <3>1
    <3>3. new[i - d].op = op
      BY <1>2, <3>1, <3>2
    <3>. QED BY <1>1, <3>2, <3>3 DEF InOperation
  <2>3. ASSUME NEW a \in A PROVE d + a \in B
    <3>1. a \in 1..m /\ new[a].op = op
      BY <1>1 DEF InOperation
    <3>. QED BY <1>2, <1>4, <3>1 DEF InTxFrom
  <2>. HIDE DEF A, B
  <2>4. \A i : i \in B <=> \E a \in A : i = d + a
    BY <2>2, <2>3
  <2>5. Cardinality(B) = Cardinality(A)
    BY <1>1, <2>1, <2>4, ShiftedCardinality
  <2>. QED BY <2>5 DEF A, B
<1>7. ASSUME NEW i \in InTx(all, n), NEW j \in InTx(all, n), i < j
      PROVE  /\ all[i].op = Nil => all[j].op = Nil
             /\ Nil \notin {all[i].op, all[j].op} => all[i].op <= all[j].op
  <2>1. /\ i - d \in 1..m /\ j - d \in 1..m /\ i = d + (i - d) /\ j = d + (j - d)
    BY <1>3
  <2>2. i - d < j - d
    BY <1>1, <1>7, <2>1
  <2>3. all[i] = new[i - d] /\ all[j] = new[j - d]
    BY <1>2, <2>1
  <2>4. InOrder(new)
    BY DEF TransactionNumbered
  <2>. QED BY <1>1, <2>1, <2>2, <2>3, <2>4 DEF InOrder
<1>8. NumberedIn(all, n, tx)
  BY <1>5, <1>6, <1>7 DEF NumberedIn, TransactionNumbered
<1>. QED BY <1>8 DEF all

-------------------------------------------------------------------------------
(* A transaction that is read is one of Txs, with its own hash and with the *)
(* changes its writes make.                                                *)
AsRead(t, n, c) ==
  [t EXCEPT !.hash = n, !.ops = [k \in DOMAIN @ |-> [@[k] EXCEPT !.changes = c]]]

ReadOf(tx, t, n) ==
  /\ t \in Txs /\ ~Panics(t)
  /\ tx.hash = n /\ tx.success = t.success /\ tx.feeBump = t.feeBump /\ tx.v = t.v
  /\ tx.opEvents = t.opEvents /\ tx.txEvents = t.txEvents
  /\ Sequence(tx.ops) /\ Len(tx.ops) = Len(t.ops) /\ DOMAIN tx.ops = DOMAIN t.ops
  /\ \A k \in DOMAIN t.ops :
       /\ tx.ops[k].kind = t.ops[k].kind /\ tx.ops[k].contract = t.ops[k].contract
       /\ tx.ops[k].function = t.ops[k].function /\ tx.ops[k].args = t.ops[k].args
       /\ tx.ops[k].auth = t.ops[k].auth /\ tx.ops[k].writes = t.ops[k].writes
       /\ tx.ops[k].result = t.ops[k].result

LEMMA TxsTyped ==
  ASSUME NEW t \in Txs
  PROVE  /\ t.success \in BOOLEAN /\ t.feeBump \in BOOLEAN
         /\ t.opEvents \in Seq(Seq(Event)) /\ t.txEvents \in Seq(Event)
         /\ t.ops \in Seq(Operation)
         /\ t \in [hash : {0}, success : BOOLEAN, feeBump : BOOLEAN, v : {0, 3, 4},
                    opEvents : Seq(Seq(Event)), txEvents : Seq(Event), ops : Seq(Operation)]
<1>1. t \in Transaction
  BY TransactionsAssumption
<1>2. t \in [hash : {0}, success : BOOLEAN, feeBump : BOOLEAN, v : {0, 3, 4},
             opEvents : Seq(Seq(Event)), txEvents : Seq(Event), ops : Seq(Operation)]
  BY <1>1 DEF Transaction
<1>. QED BY <1>2

LEMMA AsReadOf ==
  ASSUME NEW t \in Txs, ~Panics(t), NEW n, NEW c
  PROVE  ReadOf(AsRead(t, n, c), t, n)
<1>. DEFINE tx == AsRead(t, n, c)
            changed == [k \in DOMAIN t.ops |-> [t.ops[k] EXCEPT !.changes = c]]
<1>1. t \in [hash : {0}, success : BOOLEAN, feeBump : BOOLEAN, v : {0, 3, 4},
             opEvents : Seq(Seq(Event)), txEvents : Seq(Event), ops : Seq(Operation)]
  BY TxsTyped
<1>2. tx = [[t EXCEPT !.hash = n] EXCEPT !.ops = changed]
  BY <1>1 DEF AsRead
<1>3. /\ tx.hash = n /\ tx.success = t.success /\ tx.feeBump = t.feeBump /\ tx.v = t.v
      /\ tx.opEvents = t.opEvents /\ tx.txEvents = t.txEvents /\ tx.ops = changed
  <2>. HIDE DEF tx, changed
  <2>. QED BY <1>1, <1>2
<1>4. DOMAIN changed = DOMAIN t.ops /\ Sequence(changed) /\ Len(changed) = Len(t.ops)
  <2>1. changed = [k \in DOMAIN t.ops |-> changed[k]]
    OBVIOUS
  <2>. HIDE DEF changed
  <2>. QED BY <1>1, <2>1, SequenceLike
<1>5. ASSUME NEW k \in DOMAIN t.ops
      PROVE  /\ changed[k].kind = t.ops[k].kind /\ changed[k].contract = t.ops[k].contract
             /\ changed[k].function = t.ops[k].function /\ changed[k].args = t.ops[k].args
             /\ changed[k].auth = t.ops[k].auth /\ changed[k].writes = t.ops[k].writes
             /\ changed[k].result = t.ops[k].result
  <2>1. t.ops[k] \in Operation
    BY <1>1
  <2>2. changed[k] = [t.ops[k] EXCEPT !.changes = c]
    OBVIOUS
  <2>. HIDE DEF changed
  <2>. QED BY <2>1, <2>2 DEF Operation
<1>. HIDE DEF tx, changed
<1>6. ReadOf(tx, t, n)
  BY <1>3, <1>4, <1>5 DEF ReadOf
<1>. QED BY <1>6 DEF tx

LedgerRead ==
  /\ Sequence(ledger)
  /\ \A n \in DOMAIN ledger : \E t \in Txs : ReadOf(ledger[n], t, n)

EventsRead ==
  /\ Sequence(events)
  /\ \A i \in DOMAIN events :
       /\ events[i].hash \in DOMAIN ledger
       /\ EventOf(events[i], ledger[events[i].hash], events[i].hash - 1, events[i].index)

EventsInv == LedgerRead /\ EventsRead /\ EventsNumbered

\* EventsNumbered is about each transaction alone.
LEMMA NumberedEach ==
  EventsNumbered <=> \A n \in DOMAIN ledger : NumberedIn(events, n, ledger[n])
BY DEF EventsNumbered, EventsOf, From, NumberedIn, InTx, InTxFrom

LEMMA NumberedEachNext ==
  EventsNumbered' <=> \A n \in DOMAIN ledger' : NumberedIn(events', n, ledger'[n])
BY DEF EventsNumbered, EventsOf, From, NumberedIn, InTx, InTxFrom

\* What one more transaction is, in the ledger and to the two processors.
LEMMA ReadStep ==
  ASSUME LedgerRead, NEW t \in Txs, ReadTransaction(t)
  PROVE  \E tx :
           /\ ReadOf(tx, t, Len(ledger) + 1)
           /\ \A k \in DOMAIN tx.ops : tx.ops[k].changes = Changes(store, Writes(t))
           /\ ledger' = Append(ledger, tx)
           /\ events' = events \o ExtractEvents(tx, Len(ledger))
           /\ invocations' = invocations \o ExtractInvocations(tx, Len(ledger) + 1)
<1>. DEFINE n  == Len(ledger) + 1
            c  == Changes(store, Writes(t))
            tx == AsRead(t, n, c)
<1>1. /\ ~Panics(t)
      /\ ledger' = Append(ledger, tx)
      /\ events' = events \o ExtractEvents(tx, n - 1)
      /\ invocations' = invocations \o ExtractInvocations(tx, n)
  BY DEF ReadTransaction, AsRead
<1>2. ReadOf(tx, t, n)
  BY <1>1, AsReadOf
<1>3. ASSUME NEW k \in DOMAIN tx.ops PROVE tx.ops[k].changes = c
  <2>1. tx.ops = [j \in DOMAIN t.ops |-> [t.ops[j] EXCEPT !.changes = c]]
    <3>1. t \in [hash : {0}, success : BOOLEAN, feeBump : BOOLEAN, v : {0, 3, 4},
                 opEvents : Seq(Seq(Event)), txEvents : Seq(Event), ops : Seq(Operation)]
      BY TxsTyped
    <3>. HIDE DEF c, n
    <3>. QED BY <3>1 DEF AsRead
  <2>2. k \in DOMAIN t.ops /\ t.ops[k] \in Operation
    BY <2>1, TxsTyped
  <2>. HIDE DEF c, n, tx
  <2>. QED BY <2>1, <2>2 DEF Operation
<1>4. n - 1 = Len(ledger)
  BY DEF LedgerRead, Sequence
<1>. HIDE DEF tx, c, n
<1>5. \A k \in DOMAIN tx.ops : tx.ops[k].changes = c
  BY <1>3
<1>6. events' = events \o ExtractEvents(tx, Len(ledger))
  BY <1>1, <1>4
<1>7. /\ ReadOf(tx, t, Len(ledger) + 1)
      /\ ledger' = Append(ledger, tx)
      /\ invocations' = invocations \o ExtractInvocations(tx, Len(ledger) + 1)
  BY <1>1, <1>2 DEF n
<1>. QED BY <1>5, <1>6, <1>7 DEF c

LedgerGrows(longer, tx) ==
  /\ Sequence(longer) /\ Len(ledger) \in Nat
  /\ DOMAIN ledger = 1..Len(ledger) /\ DOMAIN longer = 1..(Len(ledger) + 1)
  /\ \A n \in DOMAIN ledger : longer[n] = ledger[n]
  /\ longer[Len(ledger) + 1] = tx
  /\ \A n \in DOMAIN longer : \E u \in Txs : ReadOf(longer[n], u, n)

LEMMA LedgerReadNext ==
  ASSUME LedgerRead, NEW t \in Txs, NEW tx, ReadOf(tx, t, Len(ledger) + 1),
         NEW longer, longer = Append(ledger, tx)
  PROVE  LedgerGrows(longer, tx)
<1>1. /\ Sequence(longer) /\ Len(ledger) \in Nat
      /\ DOMAIN ledger = 1..Len(ledger) /\ DOMAIN longer = 1..(Len(ledger) + 1)
      /\ \A n \in 1..Len(ledger) : longer[n] = ledger[n]
      /\ longer[Len(ledger) + 1] = tx
  BY SequenceAppend DEF LedgerRead
<1>2. ASSUME NEW n \in DOMAIN longer PROVE \E u \in Txs : ReadOf(longer[n], u, n)
  <2>1. CASE n \in DOMAIN ledger
    <3>1. longer[n] = ledger[n] /\ \E u \in Txs : ReadOf(ledger[n], u, n)
      BY <1>1, <2>1 DEF LedgerRead
    <3>. QED BY <3>1
  <2>2. CASE n = Len(ledger) + 1
    BY <1>1, <2>2
  <2>. QED BY <1>1, <2>1, <2>2
<1>. QED BY <1>1, <1>2 DEF LedgerGrows

\* What is found of a transaction that is read.
LEMMA EventsOfRead ==
  ASSUME NEW t \in Txs, NEW tx, NEW n \in Nat, ReadOf(tx, t, n),
         NEW new, new = ExtractEvents(tx, n - 1)
  PROVE  /\ Sequence(new) /\ TransactionNumbered(new, tx, n - 1)
         /\ \A i \in DOMAIN new : new[i].hash = n /\ EventOf(new[i], tx, n - 1, new[i].index)
<1>1. /\ tx.opEvents \in Seq(Seq(Event)) /\ tx.txEvents \in Seq(Event)
      /\ tx.success \in BOOLEAN /\ tx.hash = n
  BY TxsTyped DEF ReadOf
<1>2. new \in Seq(Found(tx, n - 1, Event)) /\ TransactionNumbered(new, tx, n - 1)
  BY <1>1, ExtractEventsNumbered
<1>3. Sequence(new)
  BY <1>2, SequenceOf
<1>4. ASSUME NEW i \in DOMAIN new
      PROVE  new[i].hash = n /\ EventOf(new[i], tx, n - 1, new[i].index)
  <2>1. EventOf(new[i], tx, n - 1, i - 1)
    BY <1>2 DEF TransactionNumbered
  <2>2. \E e, op : new[i] = ProcessContractEvent(e, tx, n - 1, i - 1, op)
    BY <2>1, Zenon DEF EventOf
  <2>3. new[i].hash = n /\ new[i].index = i - 1
    BY <1>1, <2>2, FoundFields
  <2>. QED BY <2>1, <2>3
<1>. QED BY <1>2, <1>3, <1>4

LEMMA EventsInit == Init => EventsInv
<1>. SUFFICES ASSUME Init PROVE EventsInv
  OBVIOUS
<1>1. ledger = <<>> /\ events = <<>>
  BY DEF Init
<1>2. Sequence(<<>>) /\ DOMAIN <<>> = {}
  BY DEF Sequence
<1>3. LedgerRead /\ EventsRead
  BY <1>1, <1>2 DEF LedgerRead, EventsRead
<1>4. EventsNumbered
  BY <1>1, <1>2, NumberedEach
<1>. QED BY <1>3, <1>4 DEF EventsInv

LEMMA EventsRemain ==
  ASSUME EventsInv, ledger' = ledger, events' = events
  PROVE  EventsInv'
BY SMTT(30) DEF EventsInv, LedgerRead, EventsRead, EventsNumbered, EventsOf, From

LEMMA EventsReadStep ==
  ASSUME EventsInv, NEW t \in Txs, ReadTransaction(t)
  PROVE  EventsInv'
<1>. DEFINE n == Len(ledger) + 1
<1>1. LedgerRead /\ EventsRead /\ EventsNumbered
  BY DEF EventsInv
<1>2. PICK tx : /\ ReadOf(tx, t, n)
                /\ ledger' = Append(ledger, tx)
                /\ events' = events \o ExtractEvents(tx, Len(ledger))
  BY <1>1, ReadStep
<1>. DEFINE new == ExtractEvents(tx, Len(ledger))
<1>3. /\ Sequence(ledger') /\ Len(ledger) \in Nat
      /\ DOMAIN ledger = 1..Len(ledger) /\ DOMAIN ledger' = 1..n
      /\ \A i \in DOMAIN ledger : ledger'[i] = ledger[i]
      /\ ledger'[n] = tx
      /\ \A i \in DOMAIN ledger' : \E u \in Txs : ReadOf(ledger'[i], u, i)
  <2>1. LedgerGrows(ledger', tx)
    BY <1>1, <1>2, LedgerReadNext
  <2>. QED BY <2>1 DEF LedgerGrows
<1>4. LedgerRead'
  BY <1>3 DEF LedgerRead
<1>5. n \in Nat /\ n - 1 = Len(ledger) /\ n \notin DOMAIN ledger
  BY <1>3
<1>. HIDE DEF n
<1>6. /\ Sequence(new) /\ TransactionNumbered(new, tx, n - 1)
      /\ \A i \in DOMAIN new : new[i].hash = n /\ EventOf(new[i], tx, n - 1, new[i].index)
  BY <1>2, <1>5, EventsOfRead
<1>. HIDE DEF new
<1>7. Sequence(events) /\ events' = events \o new
  BY <1>1, <1>2 DEF EventsRead, new
<1>8. /\ Sequence(events') /\ Len(events) \in Nat /\ Len(new) \in Nat
      /\ DOMAIN events = 1..Len(events) /\ DOMAIN new = 1..Len(new)
      /\ DOMAIN events' = 1..(Len(events) + Len(new))
      /\ \A i \in 1..Len(events) : events'[i] = events[i]
      /\ \A i \in (Len(events) + 1)..(Len(events) + Len(new)) : events'[i] = new[i - Len(events)]
  BY <1>6, <1>7, SequenceConcat
<1>9. ASSUME NEW i \in DOMAIN events'
      PROVE  /\ events'[i].hash \in DOMAIN ledger'
             /\ EventOf(events'[i], ledger'[events'[i].hash], events'[i].hash - 1, events'[i].index)
  <2>1. CASE i \in DOMAIN events
    <3>1. /\ events'[i] = events[i] /\ events[i].hash \in DOMAIN ledger
          /\ EventOf(events[i], ledger[events[i].hash], events[i].hash - 1, events[i].index)
      BY <1>1, <1>8, <2>1 DEF EventsRead
    <3>2. ledger'[events[i].hash] = ledger[events[i].hash] /\ events[i].hash \in DOMAIN ledger'
      BY <1>3, <3>1 DEF n
    <3>. QED BY <3>1, <3>2
  <2>2. CASE i \notin DOMAIN events
    <3>1. i \in (Len(events) + 1)..(Len(events) + Len(new)) /\ i - Len(events) \in DOMAIN new
      BY <1>8, <2>2
    <3>2. events'[i] = new[i - Len(events)]
      BY <1>8, <3>1
    <3>3. n \in DOMAIN ledger'
      BY <1>3, <1>5
    <3>. QED BY <1>3, <1>6, <3>1, <3>2, <3>3
  <2>. QED BY <2>1, <2>2
<1>10. EventsRead'
  BY <1>8, <1>9 DEF EventsRead
<1>11. ASSUME NEW i \in DOMAIN ledger' PROVE NumberedIn(events', i, ledger'[i])
  <2>1. CASE i \in DOMAIN ledger
    <3>1. NumberedIn(events, i, ledger[i]) /\ ledger'[i] = ledger[i]
      BY <1>1, <1>3, <2>1, NumberedEach
    <3>2. \A j \in DOMAIN new : new[j].hash # i
      BY <1>5, <1>6, <2>1
    <3>. QED BY <1>6, <1>7, <3>1, <3>2, StillNumbered
  <2>2. CASE i \notin DOMAIN ledger
    <3>1. i = n
      BY <1>3, <2>2 DEF n
    <3>2. \A j \in DOMAIN events : events[j].hash # n
      BY <1>1, <1>5 DEF EventsRead
    <3>3. tx.hash = n
      BY <1>2 DEF ReadOf
    <3>. QED BY <1>3, <1>5, <1>6, <1>7, <3>1, <3>2, <3>3, NewlyNumbered
  <2>. QED BY <2>1, <2>2
<1>12. EventsNumbered'
  BY <1>11, NumberedEachNext
<1>. QED BY <1>4, <1>10, <1>12 DEF EventsInv

LEMMA EventsStep == EventsInv /\ [Next]_vars => EventsInv'
<1>. SUFFICES ASSUME EventsInv, [Next]_vars PROVE EventsInv'
  OBVIOUS
<1>1. ASSUME NEW next \in {"reading", "skipped", "failed"}, Receive(next) PROVE EventsInv'
  BY <1>1, EventsRemain DEF Receive
<1>2. ASSUME NEW t \in Txs, ReadTransaction(t) PROVE EventsInv'
  BY <1>2, EventsReadStep
<1>3. CASE ReadPanics
  BY <1>3, EventsRemain DEF ReadPanics
<1>4. CASE ReadFails
  BY <1>4, EventsRemain DEF ReadFails
<1>5. CASE EndOfLedger
  BY <1>5, EventsRemain DEF EndOfLedger
<1>6. CASE UNCHANGED vars
  BY <1>6, EventsRemain DEF vars
<1>. QED BY <1>1, <1>2, <1>3, <1>4, <1>5, <1>6 DEF Next

THEOREM EventsInvariant == Spec => []EventsInv
BY EventsInit, EventsStep, PTL DEF Spec

\* The contract events of every transaction that is read are all found, each once,
\* in order, and numbered without gap (contract_events.go:84-158).
THEOREM EventsNumberedTheorem == Spec => []EventsNumbered
<1>1. EventsInv => EventsNumbered
  BY DEF EventsInv
<1>. QED BY <1>1, EventsInvariant, PTL

-------------------------------------------------------------------------------
(* The invocations of one transaction. *)

FoundInvocations(tx, n) ==
  {ProcessContractInvocation(tx, n, tx.ops[k], k - 1) : k \in {j \in DOMAIN tx.ops : Invokes(tx.ops[j])}}

InvocationRounds(f, tx, n) ==
  /\ f \in [0..Len(tx.ops) -> Seq(FoundInvocations(tx, n))]
  /\ f[0] = <<>>
  /\ \A k \in 1..Len(tx.ops) :
       f[k] = IF Invokes(tx.ops[k])
              THEN Append(f[k - 1], ProcessContractInvocation(tx, n, tx.ops[k], k - 1))
              ELSE f[k - 1]

LEMMA ExtractInvocationsLoop ==
  ASSUME NEW tx, NEW n, Sequence(tx.ops)
  PROVE  \E f : InvocationRounds(f, tx, n) /\ ExtractInvocations(tx, n) = f[Len(tx.ops)]
<1>. DEFINE m == Len(tx.ops)
            S == Seq(FoundInvocations(tx, n))
            Body(out, k) ==
              IF Invokes(tx.ops[k])
              THEN Append(out, ProcessContractInvocation(tx, n, tx.ops[k], k - 1))
              ELSE out
            round == [k \in 1..m |-> [out \in S |-> Body(out, k)]]
            Rec(g) == g = [k \in 0..m |-> IF k = 0 THEN <<>> ELSE Body(g[k - 1], k)]
            c == CHOOSE g : Rec(g)
<1>1. m \in Nat /\ <<>> \in S /\ DOMAIN tx.ops = 1..m
  BY DEF Sequence
<1>2. ASSUME NEW k \in 1..m, NEW out \in S PROVE Body(out, k) \in S
  <2>1. CASE Invokes(tx.ops[k])
    <3>1. ProcessContractInvocation(tx, n, tx.ops[k], k - 1) \in FoundInvocations(tx, n)
      BY <1>1, <2>1 DEF FoundInvocations
    <3>. QED BY <2>1, <3>1
  <2>2. CASE ~Invokes(tx.ops[k])
    BY <2>2
  <2>. QED BY <2>1, <2>2
<1>. HIDE DEF Body, S, m
<1>3. Rounds(round, m, S)
  BY <1>2 DEF Rounds
<1>4. \A k \in 1..m, out \in S : round[k][out] = Body(out, k)
  OBVIOUS
<1>. HIDE DEF round
<1>5. PICK f : Iterates(f, round, m, <<>>, S)
  BY <1>1, <1>3, IteratesExist
<1>6. f \in [0..m -> S] /\ f[0] = <<>> /\ \A k \in 1..m : f[k] = Body(f[k - 1], k)
  BY <1>1, <1>4, <1>5 DEF Iterates
<1>7. Rec(f)
  BY <1>6
<1>8. Rec(c)
  BY <1>7
<1>9. c = f
  BY <1>1, <1>6, <1>8, SameRounds
<1>10. ExtractInvocations(tx, n) = c[m]
  BY DEF ExtractInvocations, Loop, Body, m
<1>11. InvocationRounds(f, tx, n)
  BY <1>6 DEF Body, m, S, InvocationRounds
<1>12. ExtractInvocations(tx, n) = f[m]
  BY <1>1, <1>9, <1>10
<1>. QED BY <1>11, <1>12 DEF m

\* A transaction that is read has an invocation when its one operation is one.
LEMMA InvocationsOfRead ==
  ASSUME NEW t \in Txs, NEW tx, NEW n, ReadOf(tx, t, n),
         NEW new, new = ExtractInvocations(tx, n)
  PROVE  \/ /\ \A k \in DOMAIN tx.ops : ~Invokes(tx.ops[k])
            /\ new = <<>>
         \/ /\ DOMAIN tx.ops = {1} /\ Invokes(tx.ops[1])
            /\ tx.success <=> tx.ops[1].result = "success"
            /\ new = <<ProcessContractInvocation(tx, n, tx.ops[1], 0)>>
<1>. DEFINE m == Len(t.ops)
<1>1. /\ t.ops \in Seq(Operation) /\ m \in Nat /\ DOMAIN t.ops = 1..m
      /\ DOMAIN tx.ops = DOMAIN t.ops /\ tx.success = t.success
      /\ Sequence(tx.ops) /\ Len(tx.ops) = m
      /\ \A k \in DOMAIN t.ops : /\ tx.ops[k].kind = t.ops[k].kind
                                 /\ tx.ops[k].result = t.ops[k].result
  BY TxsTyped DEF ReadOf
<1>2. \A k \in DOMAIN t.ops : Invokes(tx.ops[k]) <=> Invokes(t.ops[k])
  BY <1>1 DEF Invokes
<1>3. \A k \in DOMAIN t.ops : Invokes(t.ops[k]) =>
        m = 1 /\ (t.success <=> t.ops[k].result = "success")
  BY TransactionsAssumption
<1>4. PICK f : InvocationRounds(f, tx, n) /\ new = f[m]
  BY <1>1, ExtractInvocationsLoop
<1>5. /\ f \in [0..m -> Seq(FoundInvocations(tx, n))]
      /\ f[0] = <<>>
      /\ \A k \in 1..m :
           f[k] = IF Invokes(tx.ops[k])
                  THEN Append(f[k - 1], ProcessContractInvocation(tx, n, tx.ops[k], k - 1))
                  ELSE f[k - 1]
  BY <1>1, <1>4 DEF InvocationRounds
<1>6. CASE \A k \in DOMAIN tx.ops : ~Invokes(tx.ops[k])
  <2>1. FoundInvocations(tx, n) = {}
    BY <1>6 DEF FoundInvocations
  <2>2. new \in Seq({})
    BY <1>1, <1>4, <1>5, <2>1
  <2>3. new = <<>>
    BY <2>2
  <2>. QED BY <1>6, <2>3
<1>7. CASE \E k \in DOMAIN tx.ops : Invokes(tx.ops[k])
  <2>1. m = 1
    BY <1>1, <1>2, <1>3, <1>7
  <2>2. 1 \in DOMAIN t.ops /\ DOMAIN tx.ops = {1}
    BY <1>1, <2>1
  <2>3. Invokes(tx.ops[1])
    BY <1>7, <2>2
  <2>4. tx.success <=> tx.ops[1].result = "success"
    BY <1>1, <1>2, <1>3, <2>2, <2>3
  <2>5. 1 \in 1..m /\ 1 - 1 = 0
    BY <2>1
  <2>6. f[1] = Append(<<>>, ProcessContractInvocation(tx, n, tx.ops[1], 0))
    <3>. HIDE DEF m
    <3>1. f[1] = Append(f[1 - 1], ProcessContractInvocation(tx, n, tx.ops[1], 1 - 1))
      BY <1>5, <2>3, <2>5
    <3>. QED BY <1>5, <2>5, <3>1
  <2>7. new = <<ProcessContractInvocation(tx, n, tx.ops[1], 0)>>
    BY <1>4, <2>1, <2>6
  <2>. QED BY <2>2, <2>3, <2>4, <2>7
<1>. QED BY <1>6, <1>7

\* What ProcessContractInvocation makes, and what is sent of it.
SentChanges(changes) == [j \in DOMAIN changes |-> ConvertChange(changes[j])]

InvocationFields(inv, tx, n, changes) ==
  /\ inv.hash = tx.hash /\ inv.txIndex = n /\ inv.op = 0
  /\ inv.successful = Successful(tx, tx.ops[1])
  /\ inv.diagnostics = ExtractDiagnosticEvents(tx)
  /\ inv.changes = changes

LEMMA InvocationMade ==
  ASSUME NEW tx, NEW n, NEW inv, inv = ProcessContractInvocation(tx, n, tx.ops[1], 0)
  PROVE  InvocationFields(inv, tx, n, ExtractStateChanges(tx.ops[1]))
BY DEF ProcessContractInvocation, InvocationFields

LEMMA InvocationSent ==
  ASSUME NEW tx, NEW n, NEW invs, NEW i \in DOMAIN invs,
         invs[i] = ProcessContractInvocation(tx, n, tx.ops[1], 0)
  PROVE  InvocationFields(ConvertInvocations(invs)[i], tx, n,
                          SentChanges(ExtractStateChanges(tx.ops[1])))
<1>. DEFINE changes == ExtractStateChanges(tx.ops[1])
            inv     == invs[i]
            sent    == ConvertInvocations(invs)[i]
<1>1. sent = [inv EXCEPT !.changes = SentChanges(inv.changes)]
  BY DEF ConvertInvocations, SentChanges
<1>2. InvocationFields(inv, tx, n, changes)
  BY InvocationMade
<1>3. DOMAIN inv = {"hash", "txIndex", "op", "contract", "successful", "function", "arguments",
                    "diagnostics", "calls", "changes"}
  BY DEF ProcessContractInvocation
<1>. HIDE DEF sent, inv, changes
<1>4. InvocationFields(sent, tx, n, SentChanges(changes))
  BY <1>1, <1>2, <1>3 DEF InvocationFields
<1>. QED BY <1>4 DEF sent, changes

-------------------------------------------------------------------------------
(* The two processors agree on a transaction. *)

InvocationOf(inv, tx, n) ==
  /\ DOMAIN tx.ops = {1} /\ Invokes(tx.ops[1])
  /\ tx.success <=> tx.ops[1].result = "success"
  /\ inv = ProcessContractInvocation(tx, n, tx.ops[1], 0)

LEMMA SuccessAgrees ==
  ASSUME NEW t \in Txs, NEW tx, NEW n, ReadOf(tx, t, n),
         tx.success <=> tx.ops[1].result = "success"
  PROVE  /\ Successful(tx, tx.ops[1]) => tx.success
         /\ tx.success => Successful(tx, tx.ops[1]) \/ tx.feeBump
BY DEF Successful

\* An event that is found in a version 3 meta is one of the invocation's, with a
\* contract, since the handler did not panic.
LEMMA DiagnosticsAgree ==
  ASSUME NEW t \in Txs, NEW tx, NEW n, ReadOf(tx, t, n),
         DOMAIN tx.ops = {1}, Invokes(tx.ops[1]), tx.v = 3,
         NEW x, NEW m, NEW index, EventOf(x, tx, m, index)
  PROVE  \E d \in DOMAIN ExtractDiagnosticEvents(tx) :
           /\ ExtractDiagnosticEvents(tx)[d].contract = x.contract
           /\ Len(ExtractDiagnosticEvents(tx)[d].topics) = Len(x.topics)
<1>. DEFINE diagnostics == ExtractDiagnosticEvents(tx)
            found == SorobanEvents(tx)
<1>1. /\ t.opEvents = tx.opEvents /\ t.txEvents = tx.txEvents /\ t.v = 3
      /\ DOMAIN t.ops = {1} /\ t.ops[1].kind = tx.ops[1].kind /\ ~Panics(t)
  BY DEF ReadOf
<1>2. Len(t.opEvents) <= 1 /\ t.txEvents = <<>> /\ t.opEvents \in Seq(Seq(Event))
  BY <1>1, TransactionsAssumption, TxsTyped
<1>3. ContractIn(tx.txEvents) = {}
  BY <1>1, <1>2 DEF ContractIn
<1>4. PICK q \in DOMAIN tx.opEvents : \E j \in ContractIn(tx.opEvents[q]) :
        x = ProcessContractEvent(tx.opEvents[q][j], tx, m, index, q - 1)
  BY <1>3 DEF EventOf
<1>5. q = 1 /\ tx.opEvents # <<>>
  BY <1>1, <1>2, <1>4
<1>6. found = tx.opEvents[1] /\ SorobanEvents(t) = found
  BY <1>1, <1>5 DEF SorobanEvents
<1>7. PICK j \in DOMAIN found : x = ProcessContractEvent(found[j], tx, m, index, q - 1)
  BY <1>4, <1>5, <1>6 DEF ContractIn
<1>8. found[j].contract # Nil
  <2>1. Invokes(t.ops[1])
    BY <1>1 DEF Invokes
  <2>. HIDE DEF found
  <2>. QED BY <1>1, <1>6, <1>7, <2>1 DEF Panics
<1>9. found[j] \in Event
  <2>1. found \in Seq(Event)
    BY <1>1, <1>2, <1>4, <1>5, <1>6
  <2>. HIDE DEF found
  <2>. QED BY <1>7, <2>1
<1>10. x.contract = found[j].contract /\ x.topics = found[j].topics
  <2>. HIDE DEF found
  <2>. QED BY <1>7, <1>8, FoundFields
<1>11. found[j].topics \in Seq(Values)
  <2>. HIDE DEF found
  <2>. QED BY <1>9 DEF Event
<1>. DEFINE Topic(v) == Decode(v)
<1>12. /\ j \in DOMAIN diagnostics
       /\ diagnostics[j].contract = found[j].contract
       /\ diagnostics[j].topics = [i \in DOMAIN found[j].topics |-> Topic(found[j].topics[i])]
  <2>. HIDE DEF Topic
  <2>. QED BY <1>7 DEF ExtractDiagnosticEvents, Topic
<1>13. Len(diagnostics[j].topics) = Len(found[j].topics)
  <2>. HIDE DEF Topic, diagnostics, found
  <2>1. \A i \in DOMAIN found[j].topics : diagnostics[j].topics[i] = Topic(found[j].topics[i])
    BY <1>12
  <2>2. diagnostics[j].topics = [i \in DOMAIN found[j].topics |-> diagnostics[j].topics[i]]
    BY <1>12, <2>1
  <2>. QED BY <1>11, <2>2, SequenceLike
<1>. HIDE DEF Topic, diagnostics, found
<1>14. diagnostics[j].contract = x.contract /\ Len(diagnostics[j].topics) = Len(x.topics)
  BY <1>10, <1>12, <1>13
<1>. QED BY <1>12, <1>14 DEF diagnostics

InvocationsRead ==
  /\ Sequence(invocations)
  /\ \A i \in DOMAIN invocations :
       \E n \in DOMAIN ledger : InvocationOf(invocations[i], ledger[n], n)

\* What the handlers return, and nothing before the end of the ledger.
Sent ==
  /\ state # "done" => output = NoOutput
  /\ state = "done" => output = [events |-> ConvertEvents(events),
                                invocations |-> ConvertInvocations(invocations)]

AgreeInv == EventsInv /\ InvocationsRead /\ Sent

LEMMA AgreeInit == Init => AgreeInv
<1>. SUFFICES ASSUME Init PROVE AgreeInv
  OBVIOUS
<1>1. invocations = <<>> /\ state = "waiting" /\ output = NoOutput
  BY DEF Init
<1>2. Sequence(<<>>) /\ DOMAIN <<>> = {}
  BY DEF Sequence
<1>3. InvocationsRead /\ Sent
  BY <1>1, <1>2 DEF InvocationsRead, Sent
<1>. QED BY <1>3, EventsInit DEF AgreeInv

LEMMA InvocationsRemain ==
  ASSUME InvocationsRead, ledger' = ledger, invocations' = invocations
  PROVE  InvocationsRead'
BY DEF InvocationsRead

LEMMA InvocationsReadStep ==
  ASSUME LedgerRead, InvocationsRead, NEW t \in Txs, ReadTransaction(t)
  PROVE  InvocationsRead'
<1>. DEFINE n == Len(ledger) + 1
<1>1. PICK tx : /\ ReadOf(tx, t, n)
                /\ ledger' = Append(ledger, tx)
                /\ invocations' = invocations \o ExtractInvocations(tx, n)
  BY ReadStep
<1>2. /\ Len(ledger) \in Nat
      /\ DOMAIN ledger = 1..Len(ledger) /\ DOMAIN ledger' = 1..n
      /\ \A i \in DOMAIN ledger : ledger'[i] = ledger[i]
      /\ ledger'[n] = tx
  <2>1. LedgerGrows(ledger', tx)
    BY <1>1, LedgerReadNext
  <2>. QED BY <2>1 DEF LedgerGrows
<1>3. n \in DOMAIN ledger' /\ DOMAIN ledger \subseteq DOMAIN ledger'
  BY <1>2
<1>. HIDE DEF n
<1>. DEFINE new == ExtractInvocations(tx, n)
<1>4. \/ new = <<>>
      \/ \E inv : InvocationOf(inv, tx, n) /\ new = <<inv>>
  BY <1>1, InvocationsOfRead DEF InvocationOf
<1>. HIDE DEF new
<1>5. Sequence(new) /\ \A i \in DOMAIN new : InvocationOf(new[i], tx, n)
  <2>1. CASE new = <<>>
    BY <2>1 DEF Sequence
  <2>2. ASSUME NEW inv, InvocationOf(inv, tx, n), new = <<inv>> PROVE <1>5!1
    <3>1. new \in Seq({inv}) /\ DOMAIN new = {1} /\ new[1] = inv
      BY <2>2
    <3>. QED BY <2>2, <3>1, SequenceOf
  <2>. QED BY <1>4, <2>1, <2>2
<1>6. Sequence(invocations) /\ invocations' = invocations \o new
  BY <1>1 DEF InvocationsRead, new
<1>7. /\ Sequence(invocations') /\ Len(invocations) \in Nat /\ Len(new) \in Nat
      /\ DOMAIN invocations = 1..Len(invocations) /\ DOMAIN new = 1..Len(new)
      /\ DOMAIN invocations' = 1..(Len(invocations) + Len(new))
      /\ \A i \in 1..Len(invocations) : invocations'[i] = invocations[i]
      /\ \A i \in (Len(invocations) + 1)..(Len(invocations) + Len(new)) :
           invocations'[i] = new[i - Len(invocations)]
  BY <1>5, <1>6, SequenceConcat
<1>8. ASSUME NEW i \in DOMAIN invocations'
      PROVE  \E k \in DOMAIN ledger' : InvocationOf(invocations'[i], ledger'[k], k)
  <2>1. CASE i \in DOMAIN invocations
    <3>1. PICK k \in DOMAIN ledger : InvocationOf(invocations[i], ledger[k], k)
      BY <2>1 DEF InvocationsRead
    <3>. QED BY <1>2, <1>3, <1>7, <2>1, <3>1
  <2>2. CASE i \notin DOMAIN invocations
    <3>1. i \in (Len(invocations) + 1)..(Len(invocations) + Len(new))
          /\ i - Len(invocations) \in DOMAIN new
      BY <1>7, <2>2
    <3>. QED BY <1>2, <1>3, <1>5, <1>7, <3>1
  <2>. QED BY <2>1, <2>2
<1>. QED BY <1>7, <1>8 DEF InvocationsRead

LEMMA AgreeStep == AgreeInv /\ [Next]_vars => AgreeInv'
<1>. SUFFICES ASSUME AgreeInv, [Next]_vars PROVE AgreeInv'
  OBVIOUS
<1>1. EventsInv'
  BY EventsStep DEF AgreeInv
<1>2. InvocationsRead /\ LedgerRead /\ Sent
  BY DEF AgreeInv, EventsInv
<1>3. ASSUME NEW next \in {"reading", "skipped", "failed"}, Receive(next)
      PROVE  InvocationsRead' /\ Sent'
  <2>1. InvocationsRead'
    BY <1>2, <1>3, InvocationsRemain DEF Receive
  <2>2. state # "done" /\ state' # "done" /\ output' = output
    BY <1>3 DEF Receive
  <2>. QED BY <1>2, <2>1, <2>2 DEF Sent
<1>4. ASSUME NEW t \in Txs, ReadTransaction(t) PROVE InvocationsRead' /\ Sent'
  <2>1. InvocationsRead'
    BY <1>2, <1>4, InvocationsReadStep
  <2>2. state # "done" /\ state' = state /\ output' = output
    BY <1>4 DEF ReadTransaction
  <2>. QED BY <1>2, <2>1, <2>2 DEF Sent
<1>5. ASSUME ReadPanics \/ ReadFails PROVE InvocationsRead' /\ Sent'
  <2>1. InvocationsRead'
    BY <1>2, <1>5, InvocationsRemain DEF ReadPanics, ReadFails
  <2>2. state # "done" /\ state' # "done" /\ output' = output
    BY <1>5 DEF ReadPanics, ReadFails
  <2>. QED BY <1>2, <2>1, <2>2 DEF Sent
<1>6. ASSUME EndOfLedger PROVE InvocationsRead' /\ Sent'
  <2>1. InvocationsRead'
    BY <1>2, <1>6, InvocationsRemain DEF EndOfLedger
  <2>2. /\ state' = "done" /\ events' = events /\ invocations' = invocations
        /\ output' = [events |-> ConvertEvents(events),
                      invocations |-> ConvertInvocations(invocations)]
    BY <1>6 DEF EndOfLedger
  <2>. QED BY <2>1, <2>2 DEF Sent
<1>7. ASSUME UNCHANGED vars PROVE InvocationsRead' /\ Sent'
  <2>1. InvocationsRead'
    BY <1>2, <1>7, InvocationsRemain DEF vars
  <2>. QED BY <1>2, <1>7, <2>1 DEF vars, Sent
<1>8. InvocationsRead' /\ Sent'
  BY <1>3, <1>4, <1>5, <1>6, <1>7 DEF Next
<1>. QED BY <1>1, <1>8 DEF AgreeInv

THEOREM AgreeInvariant == Spec => []AgreeInv
BY AgreeInit, AgreeStep, PTL DEF Spec

\* ProcessorsAgree, of an invocation and an event that are sent.
LEMMA OneAgrees ==
  ASSUME NEW t \in Txs, NEW n \in Nat, NEW tx, ReadOf(tx, t, n),
         NEW inv, InvocationOf(inv, tx, n), NEW sent, NEW changes,
         InvocationFields(sent, tx, n, changes),
         NEW x, x.hash = n, EventOf(x, tx, n - 1, x.index)
  PROVE  /\ sent.successful \/ tx.feeBump
         /\ sent.txIndex = x.txIndex + 1
         /\ tx.v = 3 => \E d \in DOMAIN sent.diagnostics :
              /\ sent.diagnostics[d].contract = x.contract
              /\ Len(sent.diagnostics[d].topics) = Len(x.topics)
<1>1. tx.success /\ \E e, op : x = ProcessContractEvent(e, tx, n - 1, x.index, op)
  BY Zenon DEF EventOf
<1>2. x.txIndex = n - 1
  BY <1>1, FoundFields
<1>3. sent.successful \/ tx.feeBump
  BY <1>1, SuccessAgrees DEF InvocationOf, InvocationFields
<1>4. sent.txIndex = x.txIndex + 1
  BY <1>2 DEF InvocationFields
<1>5. ASSUME tx.v = 3
      PROVE  \E d \in DOMAIN sent.diagnostics :
               /\ sent.diagnostics[d].contract = x.contract
               /\ Len(sent.diagnostics[d].topics) = Len(x.topics)
  BY <1>5, DiagnosticsAgree DEF InvocationOf, InvocationFields
<1>. QED BY <1>3, <1>4, <1>5

LEMMA EventSent ==
  ASSUME NEW evs, NEW j \in DOMAIN evs, NEW e, e = ConvertEvents(evs)[j]
  PROVE  /\ e.meta.hash = evs[j].hash /\ e.meta.txIndex = evs[j].txIndex
         /\ e.contract = evs[j].contract /\ e.topics = evs[j].topics
BY DEF ConvertEvents

\* The two processors tell the same story of a transaction, and nothing is sent of
\* a ledger that was not read to its end (contract_events.go:54-77,
\* contract_invocation_processor.go:125-147).
THEOREM ProcessorsAgreeTheorem == Spec => []ProcessorsAgree
<1>1. AgreeInv => ProcessorsAgree
  <2>. SUFFICES ASSUME AgreeInv PROVE ProcessorsAgree
    OBVIOUS
  <2>. DEFINE sent == output.invocations
              told == output.events
  <2>1. LedgerRead /\ EventsRead /\ InvocationsRead /\ Sent
    BY DEF AgreeInv, EventsInv
  <2>2. CASE state # "done"
    <3>1. output = NoOutput /\ DOMAIN output.invocations = {}
      BY <2>1, <2>2 DEF Sent, NoOutput
    <3>. QED BY <3>1 DEF ProcessorsAgree
  <2>3. CASE state = "done"
    <3>1. sent = ConvertInvocations(invocations) /\ told = ConvertEvents(events)
      BY <2>1, <2>3 DEF Sent
    <3>2. DOMAIN sent = DOMAIN invocations /\ DOMAIN told = DOMAIN events
      BY <3>1 DEF ConvertInvocations, ConvertEvents
    <3>. HIDE DEF sent, told
    <3>3. ASSUME NEW i \in DOMAIN sent
          PROVE  LET inv == sent[i]
                     tx  == ledger[inv.hash]
                     evs == {j \in DOMAIN told : told[j].meta.hash = inv.hash}
                 IN  /\ inv.successful => tx.success
                     /\ evs # {} => inv.successful \/ tx.feeBump
                     /\ \A j \in evs :
                          LET e == told[j]
                          IN  /\ inv.txIndex = e.meta.txIndex + 1
                              /\ tx.v = 3 =>
                                   \E d \in DOMAIN inv.diagnostics :
                                     /\ inv.diagnostics[d].contract = e.contract
                                     /\ Len(inv.diagnostics[d].topics) = Len(e.topics)
      <4>1. PICK n \in DOMAIN ledger : InvocationOf(invocations[i], ledger[n], n)
        BY <2>1, <3>2, <3>3 DEF InvocationsRead
      <4>2. PICK t \in Txs : ReadOf(ledger[n], t, n)
        BY <2>1 DEF LedgerRead
      <4>3. n \in Nat
        BY <2>1 DEF LedgerRead, Sequence
      <4>. DEFINE tx == ledger[n]
                  changes == SentChanges(ExtractStateChanges(tx.ops[1]))
      <4>4. InvocationFields(sent[i], tx, n, changes)
        BY <3>1, <3>2, <4>1, InvocationSent DEF InvocationOf
      <4>. HIDE DEF changes
      <4>5. sent[i].hash = n
        BY <4>2, <4>4 DEF InvocationFields, ReadOf
      <4>6. sent[i].successful => tx.success
        BY <4>1, <4>2, <4>4, SuccessAgrees DEF InvocationFields, InvocationOf
      <4>7. ASSUME NEW j \in DOMAIN told, told[j].meta.hash = n
            PROVE  /\ sent[i].successful \/ tx.feeBump
                   /\ sent[i].txIndex = told[j].meta.txIndex + 1
                   /\ tx.v = 3 =>
                        \E d \in DOMAIN sent[i].diagnostics :
                          /\ sent[i].diagnostics[d].contract = told[j].contract
                          /\ Len(sent[i].diagnostics[d].topics) = Len(told[j].topics)
        <5>1. /\ told[j].meta.hash = events[j].hash /\ told[j].meta.txIndex = events[j].txIndex
              /\ told[j].contract = events[j].contract /\ told[j].topics = events[j].topics
          BY <3>1, <3>2, EventSent
        <5>2. events[j].hash = n /\ EventOf(events[j], tx, n - 1, events[j].index)
          BY <2>1, <3>2, <4>7, <5>1 DEF EventsRead
        <5>. QED BY <4>1, <4>2, <4>3, <4>4, <5>1, <5>2, OneAgrees
      <4>. QED BY <4>5, <4>6, <4>7
    <3>. QED BY <2>3, <3>3 DEF ProcessorsAgree, sent, told
  <2>. QED BY <2>2, <2>3
<1>. QED BY <1>1, AgreeInvariant, PTL

-------------------------------------------------------------------------------
(* The entries of the ledger. *)

Entries == [Keys -> Values \cup {Nil}]

WrittenRounds(f, entries, writes, n) ==
  /\ f \in [0..n -> Entries]
  /\ f[0] = entries
  /\ \A i \in 1..n : f[i] = [f[i - 1] EXCEPT ![writes[i].key] = writes[i].value]

LEMMA WrittenLoop ==
  ASSUME NEW entries \in Entries, NEW writes \in Seq(Write), NEW n \in 0..Len(writes)
  PROVE  \E f : /\ WrittenRounds(f, entries, writes, n)
                /\ Written(entries, writes, n) = f[n]
<1>. DEFINE S == Entries
            Body(at, i) == [at EXCEPT ![writes[i].key] = writes[i].value]
            round == [i \in 1..n |-> [at \in S |-> Body(at, i)]]
            Rec(g) == g = [i \in 0..n |-> IF i = 0 THEN entries ELSE Body(g[i - 1], i)]
            c == CHOOSE g : Rec(g)
<1>1. n \in Nat /\ entries \in S
  OBVIOUS
<1>2. ASSUME NEW i \in 1..n, NEW at \in S PROVE Body(at, i) \in S
  <2>1. writes[i] \in Write
    OBVIOUS
  <2>. QED BY <2>1 DEF Entries, Write
<1>. HIDE DEF Body, S
<1>3. Rounds(round, n, S)
  BY <1>2 DEF Rounds
<1>4. \A i \in 1..n, at \in S : round[i][at] = Body(at, i)
  OBVIOUS
<1>. HIDE DEF round
<1>5. PICK f : Iterates(f, round, n, entries, S)
  BY <1>1, <1>3, IteratesExist
<1>6. f \in [0..n -> S] /\ f[0] = entries /\ \A i \in 1..n : f[i] = Body(f[i - 1], i)
  BY <1>1, <1>4, <1>5 DEF Iterates
<1>7. Rec(f)
  BY <1>6
<1>8. Rec(c)
  BY <1>7
<1>9. c = f
  BY <1>1, <1>6, <1>8, SameRounds
<1>10. Written(entries, writes, n) = c[n]
  BY DEF Written, Loop, Body
<1>11. WrittenRounds(f, entries, writes, n)
  BY <1>6 DEF Body, S, WrittenRounds
<1>12. Written(entries, writes, n) = f[n]
  BY <1>1, <1>9, <1>10
<1>. QED BY <1>11, <1>12

\* Write after write.
LEMMA WrittenSteps ==
  ASSUME NEW entries \in Entries, NEW writes \in Seq(Write)
  PROVE  /\ Written(entries, writes, 0) = entries
         /\ \A n \in 0..Len(writes) : Written(entries, writes, n) \in Entries
         /\ \A n \in 1..Len(writes) :
              Written(entries, writes, n) =
                [Written(entries, writes, n - 1) EXCEPT ![writes[n].key] = writes[n].value]
<1>1. Len(writes) \in Nat
  OBVIOUS
<1>2. ASSUME NEW n \in 0..Len(writes) PROVE Written(entries, writes, n) \in Entries
  BY SMTT(30), WrittenLoop DEF WrittenRounds
<1>3. Written(entries, writes, 0) = entries
  <2>1. 0 \in 0..Len(writes)
    BY <1>1
  <2>. QED BY <2>1, WrittenLoop DEF WrittenRounds
<1>4. ASSUME NEW n \in 1..Len(writes)
      PROVE  Written(entries, writes, n) =
               [Written(entries, writes, n - 1) EXCEPT ![writes[n].key] = writes[n].value]
  <2>1. n \in 0..Len(writes) /\ n - 1 \in 0..Len(writes)
    BY <1>1
  <2>2. PICK f : /\ WrittenRounds(f, entries, writes, n)
                 /\ Written(entries, writes, n) = f[n]
    BY <2>1, WrittenLoop
  <2>3. PICK g : /\ WrittenRounds(g, entries, writes, n - 1)
                 /\ Written(entries, writes, n - 1) = g[n - 1]
    BY <2>1, WrittenLoop
  <2>4. n - 1 \in Nat /\ n - 1 \in 0..(n - 1) /\ n \in 1..n
    BY <1>1
  <2>5. f[0] = g[0] /\ \A i \in 1..(n - 1) : f[i - 1] = g[i - 1] => f[i] = g[i]
    <3>1. \A i \in 1..n : f[i] = [f[i - 1] EXCEPT ![writes[i].key] = writes[i].value]
      BY <2>2 DEF WrittenRounds
    <3>2. \A i \in 1..(n - 1) : g[i] = [g[i - 1] EXCEPT ![writes[i].key] = writes[i].value]
      BY <2>3 DEF WrittenRounds
    <3>3. ASSUME NEW i \in 1..(n - 1), f[i - 1] = g[i - 1] PROVE f[i] = g[i]
      <4>1. i \in 1..n
        BY <1>1
      <4>. QED BY <3>1, <3>2, <3>3, <4>1
    <3>. QED BY <2>2, <2>3, <3>3 DEF WrittenRounds
  <2>6. f[n - 1] = g[n - 1]
    BY ZenonT(30), <2>4, <2>5, SameRounds
  <2>. QED BY ZenonT(30), <2>2, <2>3, <2>4, <2>6 DEF WrittenRounds
<1>. QED BY <1>2, <1>3, <1>4

\* What is not written stays.
LEMMA WrittenElsewhere ==
  ASSUME NEW entries \in Entries, NEW writes \in Seq(Write), NEW k \in Keys,
         \A i \in 1..Len(writes) : writes[i].key # k
  PROVE  Written(entries, writes, Len(writes))[k] = entries[k]
<1>. DEFINE n == Len(writes)
            R == {i \in 0..n : Written(entries, writes, i)[k] = entries[k]}
<1>1. n \in Nat
  OBVIOUS
<1>2. 0 \in R
  BY <1>1, WrittenSteps
<1>3. ASSUME NEW i \in 0..(n - 1), i \in R PROVE i + 1 \in R
  <2>1. i + 1 \in 1..n /\ i + 1 - 1 = i /\ i + 1 \in 0..n /\ i \in 0..n
    BY <1>1
  <2>2. /\ Written(entries, writes, i + 1) =
             [Written(entries, writes, i) EXCEPT ![writes[i + 1].key] = writes[i + 1].value]
        /\ Written(entries, writes, i) \in Entries
    BY <2>1, WrittenSteps
  <2>3. Written(entries, writes, i)[k] = entries[k]
    BY <1>3
  <2>4. writes[i + 1].key # k
    BY <2>1
  <2>5. Written(entries, writes, i + 1)[k] = entries[k]
    <3>. DEFINE before == Written(entries, writes, i)
                w == writes[i + 1]
    <3>1. before \in Entries /\ before[k] = entries[k] /\ w.key # k
      BY <2>2, <2>3, <2>4
    <3>2. Written(entries, writes, i + 1) = [before EXCEPT ![w.key] = w.value]
      BY <2>2
    <3>. HIDE DEF before, w
    <3>. QED BY <3>1, <3>2 DEF Entries
  <2>. QED BY <2>1, <2>5
<1>4. n \in R
  <2>. HIDE DEF n, R
  <2>1. \A i \in 0..(n - 1) : i \in R => i + 1 \in R
    BY <1>3
  <2>2. 0..n \subseteq R
    BY <1>1, <1>2, <2>1, BoundedInduction
  <2>. QED BY <1>1, <2>2
<1>. QED BY <1>4

-------------------------------------------------------------------------------
(* The state changes of one operation. *)

\* What is decoded of a value, or of none.
Decodings == {Decode(v) : v \in Values \cup {Nil}}

LedgerChange ==
  [key : Keys, data : BOOLEAN, pre : Values \cup {Nil}, post : Values \cup {Nil},
   kind : {"created", "updated", "removed", "restored"}]

StateChanges ==
  [name : {Name(k) : k \in Keys}, old : Decodings, new : Decodings,
   operation : {"create", "update", "delete"}]

KindOf(entries, w) ==
  IF w.restore THEN "restored"
  ELSE IF entries[w.key] = Nil THEN "created"
  ELSE IF w.value = Nil THEN "removed" ELSE "updated"

LEMMA KindCases ==
  ASSUME NEW entries, NEW w, NEW kind, kind = KindOf(entries, w)
  PROVE  /\ w.restore => kind = "restored"
         /\ ~w.restore /\ entries[w.key] = Nil => kind = "created"
         /\ ~w.restore /\ entries[w.key] # Nil /\ w.value = Nil => kind = "removed"
         /\ ~w.restore /\ entries[w.key] # Nil /\ w.value # Nil => kind = "updated"
BY DEF KindOf

LEMMA ChangeMade ==
  ASSUME NEW entries \in Entries, NEW w \in Write, NEW c, c = Change(entries, w)
  PROVE  /\ c \in LedgerChange
         /\ c.key = w.key /\ (c.data <=> w.key.entry = "contract_data") /\ c.post = w.value
         /\ c.pre = IF w.restore THEN Nil ELSE entries[w.key]
         /\ c.kind = KindOf(entries, w)
<1>. DEFINE data == w.key.entry = "contract_data"
            pre  == IF w.restore THEN Nil ELSE entries[w.key]
            kind == KindOf(entries, w)
<1>1. c = [key |-> w.key, data |-> data, pre |-> pre, post |-> w.value, kind |-> kind]
  BY Zenon DEF Change, KindOf
<1>2. data \in BOOLEAN
  BY Zenon
<1>3. pre \in Values \cup {Nil} /\ w.key \in Keys /\ w.value \in Values \cup {Nil}
  BY DEF Entries, Write
<1>4. kind \in {"created", "updated", "removed", "restored"}
  BY KindCases
<1>. HIDE DEF data, pre, kind
<1>5. c \in LedgerChange
  BY <1>1, <1>2, <1>3, <1>4 DEF LedgerChange
<1>6. c.key = w.key /\ c.data = data /\ c.post = w.value /\ c.pre = pre /\ c.kind = kind
  BY <1>1
<1>. QED BY <1>5, <1>6 DEF data, pre, kind

LEMMA DataChangeCases ==
  ASSUME NEW c, NEW made, made = ProcessContractDataChange(c)
  PROVE  \/ Fails(c.key.key) /\ made = <<>>
         \/ c.kind = "created" /\ c.post # Nil /\ made = <<StateChange(c, "create")>>
         \/ c.kind = "updated" /\ Nil \notin {c.pre, c.post} /\ made = <<StateChange(c, "update")>>
         \/ c.kind = "removed" /\ c.pre # Nil /\ made = <<StateChange(c, "delete")>>
         \/ /\ ~Fails(c.key.key) /\ made = <<>>
            /\ ~(c.kind = "created" /\ c.post # Nil)
            /\ ~(c.kind = "updated" /\ Nil \notin {c.pre, c.post})
            /\ ~(c.kind = "removed" /\ c.pre # Nil)
<1>. DEFINE Made(operation) == <<StateChange(c, operation)>>
            Create == c.kind = "created" /\ c.post # Nil
            Update == c.kind = "updated" /\ Nil \notin {c.pre, c.post}
            Delete == c.kind = "removed" /\ c.pre # Nil
<1>1. made = IF Fails(c.key.key) THEN <<>>
             ELSE CASE Create -> Made("create") [] Update -> Made("update")
                    [] Delete -> Made("delete") [] OTHER -> <<>>
  BY Zenon DEF ProcessContractDataChange
<1>2. ~(Create /\ Update) /\ ~(Create /\ Delete) /\ ~(Update /\ Delete)
  OBVIOUS
<1>. HIDE DEF Made, Create, Update, Delete
<1>3. \/ Fails(c.key.key) /\ made = <<>>
      \/ ~Fails(c.key.key) /\ Create /\ made = Made("create")
      \/ ~Fails(c.key.key) /\ Update /\ made = Made("update")
      \/ ~Fails(c.key.key) /\ Delete /\ made = Made("delete")
      \/ ~Fails(c.key.key) /\ ~Create /\ ~Update /\ ~Delete /\ made = <<>>
  BY <1>1, <1>2, Zenon
<1>. QED BY <1>3 DEF Made, Create, Update, Delete

LEMMA DataChangeTyped ==
  ASSUME NEW c \in LedgerChange
  PROVE  /\ ProcessContractDataChange(c) \in Seq(StateChanges)
         /\ \/ ProcessContractDataChange(c) = <<>>
            \/ \E x \in StateChanges : x.name = Name(c.key) /\ ProcessContractDataChange(c) = <<x>>
<1>. DEFINE made == ProcessContractDataChange(c)
<1>1. \/ made = <<>>
      \/ \E operation \in {"create", "update", "delete"} : made = <<StateChange(c, operation)>>
  BY DataChangeCases
<1>2. \A operation \in {"create", "update", "delete"} :
        StateChange(c, operation) \in StateChanges /\ StateChange(c, operation).name = Name(c.key)
  BY DEF StateChange, LedgerChange, StateChanges, Decodings
<1>. HIDE DEF made
<1>3. made = <<>> \/ \E x \in StateChanges : x.name = Name(c.key) /\ made = <<x>>
  BY <1>1, <1>2
<1>4. made \in Seq(StateChanges)
  <2>1. CASE made = <<>>
    BY <2>1
  <2>2. ASSUME NEW x \in StateChanges, made = <<x>> PROVE made \in Seq(StateChanges)
    BY <2>2
  <2>. QED BY <1>3, <2>1, <2>2
<1>. QED BY <1>3, <1>4 DEF made

LEMMA DataChangeName ==
  ASSUME NEW c, NEW x, ProcessContractDataChange(c) = <<x>>
  PROVE  x.name = Name(c.key)
<1>1. PICK operation : <<x>> = <<StateChange(c, operation)>>
  BY DataChangeCases
<1>. QED BY <1>1 DEF StateChange

StateChangeRounds(f, changes) ==
  /\ f \in [0..Len(changes) -> Seq(StateChanges)]
  /\ f[0] = <<>>
  /\ \A i \in 1..Len(changes) :
       f[i] = IF changes[i].data THEN f[i - 1] \o ProcessContractDataChange(changes[i])
              ELSE f[i - 1]

LEMMA ExtractStateChangesLoop ==
  ASSUME NEW op, op.changes \in Seq(LedgerChange)
  PROVE  \E f : /\ StateChangeRounds(f, op.changes)
                /\ ExtractStateChanges(op) = f[Len(op.changes)]
<1>. DEFINE changes == op.changes
            n == Len(changes)
            S == Seq(StateChanges)
            Body(out, i) == IF changes[i].data
                            THEN out \o ProcessContractDataChange(changes[i]) ELSE out
            round == [i \in 1..n |-> [out \in S |-> Body(out, i)]]
            Rec(g) == g = [i \in 0..n |-> IF i = 0 THEN <<>> ELSE Body(g[i - 1], i)]
            c == CHOOSE g : Rec(g)
<1>1. n \in Nat /\ <<>> \in S
  OBVIOUS
<1>2. ASSUME NEW i \in 1..n, NEW out \in S PROVE Body(out, i) \in S
  <2>1. changes[i] \in LedgerChange
    OBVIOUS
  <2>2. ProcessContractDataChange(changes[i]) \in S
    <3>. HIDE DEF changes, S
    <3>1. ProcessContractDataChange(changes[i]) \in Seq(StateChanges)
      BY <2>1, DataChangeTyped
    <3>. QED BY <3>1 DEF S
  <2>3. out \o ProcessContractDataChange(changes[i]) \in S
    BY <2>2, ConcatProperties
  <2>. HIDE DEF changes, S
  <2>. QED BY <2>3
<1>. HIDE DEF Body, S, n
<1>3. Rounds(round, n, S)
  BY <1>2 DEF Rounds
<1>4. \A i \in 1..n, out \in S : round[i][out] = Body(out, i)
  OBVIOUS
<1>. HIDE DEF round
<1>5. PICK f : Iterates(f, round, n, <<>>, S)
  BY <1>1, <1>3, IteratesExist
<1>6. f \in [0..n -> S] /\ f[0] = <<>> /\ \A i \in 1..n : f[i] = Body(f[i - 1], i)
  BY <1>1, <1>4, <1>5 DEF Iterates
<1>7. Rec(f)
  BY <1>6
<1>8. Rec(c)
  BY <1>7
<1>9. c = f
  BY <1>1, <1>6, <1>8, SameRounds
<1>10. ExtractStateChanges(op) = c[n]
  BY DEF ExtractStateChanges, Loop, Body, n
<1>11. StateChangeRounds(f, op.changes)
  BY <1>6 DEF Body, n, S, StateChangeRounds
<1>12. ExtractStateChanges(op) = f[n]
  BY <1>1, <1>9, <1>10
<1>. QED BY <1>11, <1>12 DEF n

-------------------------------------------------------------------------------
(* The replay of what is sent. *)

SentChange ==
  [name : {Name(k) : k \in Keys}, old : {JsonEncode(d) : d \in Decodings},
   new : {JsonEncode(d) : d \in Decodings}, operation : {"create", "update", "delete"}]

Accounts ==
  [ok : BOOLEAN, value : {<<>>} \cup {<<JsonEncode(d)>> : d \in Decodings}]

\* One change of the story of a key.
ReplayOne(now, name, change) ==
  IF change.name # name THEN now
  ELSE [ok |-> /\ now.ok
               /\ change.operation = "create" <=> now.value = <<>>
               /\ change.operation # "create" => now.value = <<change.old>>,
        value |-> IF change.operation = "delete" THEN <<>> ELSE <<change.new>>]

LEMMA ReplayOneTyped ==
  ASSUME NEW now \in Accounts, NEW name, NEW change \in SentChange
  PROVE  ReplayOne(now, name, change) \in Accounts
<1>. DEFINE ok == /\ now.ok
                  /\ change.operation = "create" <=> now.value = <<>>
                  /\ change.operation # "create" => now.value = <<change.old>>
            value == IF change.operation = "delete" THEN <<>> ELSE <<change.new>>
<1>1. ok \in BOOLEAN
  BY Zenon
<1>2. value \in {<<>>} \cup {<<JsonEncode(d)>> : d \in Decodings}
  BY DEF SentChange
<1>3. ReplayOne(now, name, change) = IF change.name # name THEN now ELSE [ok |-> ok, value |-> value]
  BY Zenon DEF ReplayOne
<1>. HIDE DEF ok, value
<1>. QED BY <1>1, <1>2, <1>3 DEF Accounts

ReplayRounds(f, at, name, changes) ==
  /\ f \in [0..Len(changes) -> Accounts]
  /\ f[0] = at
  /\ \A j \in 1..Len(changes) : f[j] = ReplayOne(f[j - 1], name, changes[j])

LEMMA ReplayChangesLoop ==
  ASSUME NEW at \in Accounts, NEW name, NEW changes \in Seq(SentChange)
  PROVE  \E f : /\ ReplayRounds(f, at, name, changes)
                /\ ReplayChanges(at, name, changes) = f[Len(changes)]
<1>. DEFINE n == Len(changes)
            S == Accounts
            Body(now, j) == ReplayOne(now, name, changes[j])
            round == [j \in 1..n |-> [now \in S |-> Body(now, j)]]
            Rec(g) == g = [j \in 0..n |-> IF j = 0 THEN at ELSE Body(g[j - 1], j)]
            c == CHOOSE g : Rec(g)
<1>1. n \in Nat /\ at \in S
  OBVIOUS
<1>2. ASSUME NEW j \in 1..n, NEW now \in S PROVE Body(now, j) \in S
  <2>1. changes[j] \in SentChange
    OBVIOUS
  <2>. QED BY <2>1, ReplayOneTyped
<1>. HIDE DEF Body, S, n
<1>3. Rounds(round, n, S)
  BY <1>2 DEF Rounds
<1>4. \A j \in 1..n, now \in S : round[j][now] = Body(now, j)
  OBVIOUS
<1>. HIDE DEF round
<1>5. PICK f : Iterates(f, round, n, at, S)
  BY <1>1, <1>3, IteratesExist
<1>6. f \in [0..n -> S] /\ f[0] = at /\ \A j \in 1..n : f[j] = Body(f[j - 1], j)
  BY <1>1, <1>4, <1>5 DEF Iterates
<1>7. Rec(f)
  BY <1>6
<1>8. Rec(c)
  BY <1>7
<1>9. c = f
  BY <1>1, <1>6, <1>8, SameRounds
<1>10. ReplayChanges(at, name, changes) = c[n]
  BY Zenon DEF ReplayChanges, ReplayOne, Loop, Body, n
<1>11. ReplayRounds(f, at, name, changes)
  BY <1>6 DEF Body, n, S, ReplayRounds
<1>12. ReplayChanges(at, name, changes) = f[n]
  BY <1>1, <1>9, <1>10
<1>. QED BY <1>11, <1>12 DEF n

LEMMA ReplayNothing ==
  ASSUME NEW at \in Accounts, NEW name
  PROVE  ReplayChanges(at, name, <<>>) = at
<1>. DEFINE none == <<>>
<1>1. none \in Seq(SentChange) /\ Len(none) = 0
  OBVIOUS
<1>. HIDE DEF none
<1>2. PICK f : ReplayRounds(f, at, name, none) /\ ReplayChanges(at, name, none) = f[Len(none)]
  BY <1>1, ReplayChangesLoop
<1>. QED BY <1>1, <1>2 DEF ReplayRounds, none

\* A change after others.
LEMMA ReplayAppend ==
  ASSUME NEW at \in Accounts, NEW name, NEW changes \in Seq(SentChange), NEW x \in SentChange
  PROVE  /\ ReplayChanges(at, name, changes) \in Accounts
         /\ ReplayChanges(at, name, Append(changes, x)) =
              ReplayOne(ReplayChanges(at, name, changes), name, x)
<1>. DEFINE n == Len(changes)
            more == Append(changes, x)
<1>2. /\ more \in Seq(SentChange) /\ n \in Nat /\ Len(more) = n + 1
      /\ \A j \in 1..n : more[j] = changes[j]
      /\ more[n + 1] = x
  BY AppendProperties
<1>. HIDE DEF more
<1>3. PICK f : /\ ReplayRounds(f, at, name, changes)
               /\ ReplayChanges(at, name, changes) = f[n]
  BY ReplayChangesLoop
<1>4. PICK g : /\ ReplayRounds(g, at, name, more)
               /\ ReplayChanges(at, name, more) = g[n + 1]
  BY <1>2, ReplayChangesLoop
<1>5. f \in [0..n -> Accounts] /\ f[0] = at
      /\ \A j \in 1..n : f[j] = ReplayOne(f[j - 1], name, changes[j])
  BY <1>3 DEF ReplayRounds
<1>6. g[0] = at /\ \A j \in 1..(n + 1) : g[j] = ReplayOne(g[j - 1], name, more[j])
  BY <1>2, <1>4 DEF ReplayRounds
<1>. HIDE DEF n
<1>7. n \in 0..n /\ n + 1 \in 1..(n + 1) /\ (n + 1) - 1 = n /\ 1..n \subseteq 1..(n + 1)
  BY <1>2
<1>8. f[0] = g[0] /\ SameSteps(f, g, n)
  BY <1>2, <1>5, <1>6, <1>7 DEF SameSteps
<1>9. f[n] = g[n]
  BY <1>2, <1>8, SameEnd
<1>10. g[n + 1] = ReplayOne(g[n], name, x)
  BY <1>2, <1>6, <1>7
<1>. QED BY <1>3, <1>4, <1>5, <1>7, <1>9, <1>10 DEF more

LEMMA ChangeSent ==
  ASSUME NEW x \in StateChanges, NEW sent, sent = ConvertChange(x)
  PROVE  /\ sent \in SentChange
         /\ sent.name = x.name /\ sent.operation = x.operation
         /\ sent.old = JsonEncode(x.old) /\ sent.new = JsonEncode(x.new)
<1>. DEFINE old == JsonEncode(x.old)
            new == JsonEncode(x.new)
<1>1. sent = [[x EXCEPT !.old = old] EXCEPT !.new = new]
  BY DEF ConvertChange, StateChanges
<1>2. /\ old \in {JsonEncode(d) : d \in Decodings}
      /\ new \in {JsonEncode(d) : d \in Decodings}
  BY DEF StateChanges
<1>. HIDE DEF old, new
<1>3. sent = [name |-> x.name, old |-> old, new |-> new, operation |-> x.operation]
  BY <1>1 DEF StateChanges
<1>4. x.name \in {Name(k) : k \in Keys} /\ x.operation \in {"create", "update", "delete"}
  BY DEF StateChanges
<1>5. sent \in SentChange
  BY <1>2, <1>3, <1>4 DEF SentChange
<1>. QED BY <1>3, <1>5 DEF old, new

LEMMA ChangesSent ==
  ASSUME NEW s \in Seq(StateChanges)
  PROVE  /\ SentChanges(s) \in Seq(SentChange)
         /\ SentChanges(<<>>) = <<>>
         /\ \A x \in StateChanges : SentChanges(s \o <<x>>) = Append(SentChanges(s), ConvertChange(x))
<1>1. Len(s) \in Nat /\ DOMAIN s = 1..Len(s)
  OBVIOUS
<1>2. SentChanges(s) = [i \in 1..Len(s) |-> ConvertChange(s[i])]
  BY <1>1 DEF SentChanges
<1>3. \A i \in 1..Len(s) : ConvertChange(s[i]) \in SentChange
  BY ChangeSent
<1>4. SentChanges(s) \in Seq(SentChange) /\ Len(SentChanges(s)) = Len(s)
  BY <1>1, <1>2, <1>3
<1>5. SentChanges(<<>>) = <<>>
  BY DEF SentChanges
<1>6. ASSUME NEW x \in StateChanges
      PROVE  SentChanges(s \o <<x>>) = Append(SentChanges(s), ConvertChange(x))
  <2>. DEFINE n == Len(s)
              more == s \o <<x>>
              sent == Append(SentChanges(s), ConvertChange(x))
  <2>1. /\ more \in Seq(StateChanges) /\ Len(more) = n + 1 /\ DOMAIN more = 1..(n + 1)
        /\ \A i \in 1..n : more[i] = s[i]
        /\ more[n + 1] = x
    OBVIOUS
  <2>2. ConvertChange(x) \in SentChange
    BY ChangeSent
  <2>3. /\ sent \in Seq(SentChange) /\ Len(sent) = n + 1
        /\ \A i \in 1..n : sent[i] = SentChanges(s)[i]
        /\ sent[n + 1] = ConvertChange(x)
    BY <1>4, <2>2, AppendProperties
  <2>4. SentChanges(more) = [i \in 1..(n + 1) |-> ConvertChange(more[i])]
    BY <2>1 DEF SentChanges
  <2>5. sent = [i \in 1..(n + 1) |-> sent[i]]
    <3>. HIDE DEF sent, n
    <3>. QED BY <2>3
  <2>6. \A i \in 1..(n + 1) : sent[i] = ConvertChange(more[i])
    BY <1>1, <1>2, <2>1, <2>3
  <2>. HIDE DEF more, sent
  <2>7. SentChanges(more) = sent
    BY <2>4, <2>5, <2>6
  <2>. QED BY <2>7 DEF more, sent
<1>. QED BY <1>4, <1>5, <1>6

\* The write is of k itself, or of an entry that is not taken for it.
TellsApart(w, k) ==
  /\ k.entry = "contract_data" /\ ~Fails(k.key)
  /\ IF w.key = k THEN ~w.restore
     ELSE w.key.entry = "contract_data" => Name(w.key) # Name(k)

\* The state change of c, if there is one, takes the story of k on from now.
TakesOn(c, k, now, before, after) ==
  /\ ~c.data \/ ProcessContractDataChange(c) = <<>> => Stored(after[k]) = Stored(before[k])
  /\ \A x \in StateChanges : c.data /\ ProcessContractDataChange(c) = <<x>> =>
       ReplayOne(now, Name(k), ConvertChange(x)) = [ok |-> TRUE, value |-> Stored(after[k])]

\* What a write does to an entry is what the change that is sent of it tells.
LEMMA StoryStep ==
  ASSUME NEW entries \in Entries, NEW w \in Write, NEW c, c = Change(entries, w),
         NEW k \in Keys, TellsApart(w, k),
         NEW now, now = [ok |-> TRUE, value |-> Stored(entries[k])],
         NEW after, after = [entries EXCEPT ![w.key] = w.value]
  PROVE  TakesOn(c, k, now, entries, after)
<1>. DEFINE made == ProcessContractDataChange(c)
<1>1. /\ c \in LedgerChange
      /\ c.key = w.key /\ (c.data <=> w.key.entry = "contract_data") /\ c.post = w.value
      /\ c.pre = IF w.restore THEN Nil ELSE entries[w.key]
      /\ c.kind = KindOf(entries, w)
  BY ChangeMade
<1>2. CASE w.key # k
  <2>1. after[k] = entries[k]
    BY <1>2 DEF Entries
  <2>2. ASSUME NEW x \in StateChanges, c.data, made = <<x>>
        PROVE  ReplayOne(now, Name(k), ConvertChange(x)) = [ok |-> TRUE, value |-> Stored(after[k])]
    <3>1. x.name = Name(w.key)
      BY <1>1, <2>2, DataChangeName
    <3>2. ConvertChange(x).name # Name(k)
      BY <1>1, <1>2, <2>2, <3>1, ChangeSent DEF TellsApart
    <3>. QED BY <2>1, <3>2 DEF ReplayOne
  <2>. QED BY <2>1, <2>2 DEF TakesOn
<1>3. CASE w.key = k
  <2>1. c.data /\ ~w.restore /\ ~Fails(c.key.key) /\ c.pre = entries[k] /\ c.post = w.value
    BY <1>1, <1>3 DEF TellsApart
  <2>2. after[k] = w.value
    BY <1>3 DEF Entries
  <2>3. \/ entries[k] = Nil /\ c.kind = "created"
        \/ entries[k] # Nil /\ w.value = Nil /\ c.kind = "removed"
        \/ entries[k] # Nil /\ w.value # Nil /\ c.kind = "updated"
    BY <1>1, <1>3, <2>1, KindCases
  <2>4. \/ entries[k] = Nil /\ w.value # Nil /\ made = <<StateChange(c, "create")>>
        \/ entries[k] = Nil /\ w.value = Nil /\ made = <<>>
        \/ entries[k] # Nil /\ w.value = Nil /\ made = <<StateChange(c, "delete")>>
        \/ entries[k] # Nil /\ w.value # Nil /\ made = <<StateChange(c, "update")>>
    BY <2>1, <2>3, DataChangeCases
  <2>5. made = <<>> => Stored(after[k]) = Stored(entries[k])
    BY <2>2, <2>4
  <2>6. ASSUME NEW x \in StateChanges, made = <<x>>
        PROVE  ReplayOne(now, Name(k), ConvertChange(x)) = [ok |-> TRUE, value |-> Stored(after[k])]
    <3>. DEFINE sent == ConvertChange(x)
    <3>1. /\ sent.name = x.name /\ sent.operation = x.operation
          /\ sent.old = JsonEncode(x.old) /\ sent.new = JsonEncode(x.new)
      BY ChangeSent
    <3>. HIDE DEF sent, made
    <3>2. /\ x.name = Name(k) /\ x.old = Decode(entries[k]) /\ x.new = Decode(w.value)
          /\ \/ entries[k] = Nil /\ w.value # Nil /\ x.operation = "create"
             \/ entries[k] # Nil /\ w.value = Nil /\ x.operation = "delete"
             \/ entries[k] # Nil /\ w.value # Nil /\ x.operation = "update"
      BY <1>1, <1>3, <2>1, <2>4, <2>6 DEF StateChange
    <3>3. now.ok /\ now.value = Stored(entries[k])
      OBVIOUS
    <3>4. ReplayOne(now, Name(k), sent) =
            [ok |-> /\ now.ok
                    /\ sent.operation = "create" <=> now.value = <<>>
                    /\ sent.operation # "create" => now.value = <<sent.old>>,
             value |-> IF sent.operation = "delete" THEN <<>> ELSE <<sent.new>>]
      BY <3>1, <3>2 DEF ReplayOne
    <3>5. (/\ now.ok
           /\ sent.operation = "create" <=> now.value = <<>>
           /\ sent.operation # "create" => now.value = <<sent.old>>) = TRUE
      BY <3>1, <3>2, <3>3 DEF Stored
    <3>6. (IF sent.operation = "delete" THEN <<>> ELSE <<sent.new>>) = Stored(after[k])
      BY <2>2, <3>1, <3>2 DEF Stored
    <3>. QED BY <3>4, <3>5, <3>6 DEF sent
  <2>. QED BY <2>5, <2>6, <2>1 DEF TakesOn
<1>. QED BY <1>2, <1>3

LEMMA ChangesTyped ==
  ASSUME NEW entries \in Entries, NEW writes \in Seq(Write)
  PROVE  /\ Changes(entries, writes) \in Seq(LedgerChange)
         /\ Len(Changes(entries, writes)) = Len(writes)
         /\ \A i \in 1..Len(writes) :
              Changes(entries, writes)[i] = Change(Written(entries, writes, i - 1), writes[i])
<1>. DEFINE n == Len(writes)
            made == Changes(entries, writes)
<1>1. n \in Nat /\ DOMAIN writes = 1..n
  OBVIOUS
<1>2. made = [i \in 1..n |-> Change(Written(entries, writes, i - 1), writes[i])]
  BY <1>1 DEF Changes
<1>3. ASSUME NEW i \in 1..n PROVE Change(Written(entries, writes, i - 1), writes[i]) \in LedgerChange
  <2>1. i - 1 \in 0..n /\ writes[i] \in Write
    BY <1>1
  <2>2. Written(entries, writes, i - 1) \in Entries
    BY <2>1, WrittenSteps
  <2>. QED BY <2>1, <2>2, ChangeMade
<1>. HIDE DEF made, n
<1>4. made \in [1..n -> LedgerChange]
  BY <1>2, <1>3
<1>5. made \in Seq(LedgerChange) /\ Len(made) = n
  BY <1>1, <1>4
<1>. QED BY <1>2, <1>5 DEF made, n

LEMMA Story ==
  ASSUME NEW entries \in Entries, NEW writes \in Seq(Write),
         NEW op, op.changes = Changes(entries, writes),
         NEW k \in Keys, \A i \in 1..Len(writes) : TellsApart(writes[i], k),
         NEW at, at = [ok |-> TRUE, value |-> Stored(entries[k])]
  PROVE  ReplayChanges(at, Name(k), SentChanges(ExtractStateChanges(op))) =
           [ok |-> TRUE, value |-> Stored(Written(entries, writes, Len(writes))[k])]
<1>. DEFINE n == Len(writes)
            W(i) == Written(entries, writes, i)
            changes == op.changes
<1>1. /\ n \in Nat
      /\ changes \in Seq(LedgerChange) /\ Len(changes) = n
      /\ \A i \in 1..n : changes[i] = Change(W(i - 1), writes[i])
  BY ChangesTyped
<1>2. /\ W(0) = entries
      /\ \A i \in 0..n : W(i) \in Entries
      /\ \A i \in 1..n : W(i) = [W(i - 1) EXCEPT ![writes[i].key] = writes[i].value]
  BY WrittenSteps
<1>. HIDE DEF n, changes
<1>3. PICK f : StateChangeRounds(f, changes) /\ ExtractStateChanges(op) = f[n]
  BY <1>1, ExtractStateChangesLoop DEF changes
<1>4. /\ f \in [0..n -> Seq(StateChanges)]
      /\ f[0] = <<>>
      /\ \A i \in 1..n : f[i] = IF changes[i].data
                              THEN f[i - 1] \o ProcessContractDataChange(changes[i])
                              ELSE f[i - 1]
  BY <1>1, <1>3 DEF StateChangeRounds
<1>5. at \in Accounts
  <2>1. Decode(entries[k]) \in Decodings
    BY DEF Entries, Decodings
  <2>2. Stored(entries[k]) \in {<<>>} \cup {<<JsonEncode(d)>> : d \in Decodings}
    BY <2>1 DEF Stored
  <2>. QED BY <2>2 DEF Accounts
<1>. DEFINE Tells(i) == ReplayChanges(at, Name(k), SentChanges(f[i])) = [ok |-> TRUE, value |-> Stored(W(i)[k])]
            R == {i \in 0..n : Tells(i)}
<1>6. 0 \in R
  <2>1. <<>> \in Seq(StateChanges) /\ 0 \in 0..n
    BY <1>1
  <2>2. SentChanges(f[0]) = <<>>
    BY <1>4, <2>1, ChangesSent
  <2>3. ReplayChanges(at, Name(k), <<>>) = at
    BY <1>5, ReplayNothing
  <2>4. Tells(0)
    BY <1>2, <2>2, <2>3
  <2>. HIDE DEF Tells
  <2>. QED BY <2>1, <2>4
<1>7. ASSUME NEW m \in 0..(n - 1), m \in R PROVE m + 1 \in R
  <2>. DEFINE i == m + 1
              w == writes[i]
              c == changes[i]
  <2>1. i \in 1..n /\ i - 1 = m /\ i \in 0..n /\ m \in 0..n
    BY <1>1
  <2>2. f[m] \in Seq(StateChanges) /\ Tells(m)
    BY <1>4, <1>7, <2>1
  <2>3. f[i] = IF c.data THEN f[m] \o ProcessContractDataChange(c) ELSE f[m]
    BY <1>4, <2>1
  <2>4. W(m) \in Entries /\ W(i) = [W(m) EXCEPT ![w.key] = w.value] /\ c = Change(W(m), w)
    BY <1>1, <1>2, <2>1
  <2>5. w \in Write /\ TellsApart(w, k)
    BY <2>1 DEF n
  <2>. DEFINE now == [ok |-> TRUE, value |-> Stored(W(m)[k])]
  <2>6. /\ ~c.data \/ ProcessContractDataChange(c) = <<>> => Stored(W(i)[k]) = Stored(W(m)[k])
        /\ \A x \in StateChanges : c.data /\ ProcessContractDataChange(c) = <<x>> =>
             ReplayOne(now, Name(k), ConvertChange(x)) = [ok |-> TRUE, value |-> Stored(W(i)[k])]
    <3>. DEFINE before == W(m)
                after == W(i)
    <3>1. before \in Entries /\ after = [before EXCEPT ![w.key] = w.value] /\ c = Change(before, w)
      BY <2>4
    <3>2. now = [ok |-> TRUE, value |-> Stored(before[k])]
      OBVIOUS
    <3>. HIDE DEF before, after, now, w, c
    <3>3. TakesOn(c, k, now, before, after)
      BY <2>5, <3>1, <3>2, StoryStep
    <3>. QED BY <3>3 DEF before, after, TakesOn
  <2>7. c \in LedgerChange
    BY <2>4, <2>5, ChangeMade
  <2>. HIDE DEF i, w, c, W
  <2>8. ASSUME f[i] = f[m], Stored(W(i)[k]) = Stored(W(m)[k]) PROVE Tells(i)
    BY <2>2, <2>8
  <2>9. ASSUME NEW x \in StateChanges, c.data, ProcessContractDataChange(c) = <<x>>, f[i] = f[m] \o <<x>>
        PROVE  Tells(i)
    <3>1. SentChanges(f[i]) = Append(SentChanges(f[m]), ConvertChange(x))
          /\ SentChanges(f[m]) \in Seq(SentChange)
      BY <2>2, <2>9, ChangesSent
    <3>2. ConvertChange(x) \in SentChange
      BY ChangeSent
    <3>3. ReplayChanges(at, Name(k), SentChanges(f[i])) =
            ReplayOne(ReplayChanges(at, Name(k), SentChanges(f[m])), Name(k), ConvertChange(x))
      BY <1>5, <3>1, <3>2, ReplayAppend
    <3>. QED BY <2>2, <2>6, <2>9, <3>3
  <2>10. Tells(i)
    <3>1. CASE ~c.data
      BY <2>3, <2>6, <2>8, <3>1
    <3>2. CASE c.data /\ ProcessContractDataChange(c) = <<>>
      <4>1. f[m] \o <<>> = f[m]
        BY <2>2
      <4>. QED BY <2>3, <2>6, <2>8, <3>2, <4>1
    <3>3. CASE c.data /\ \E x \in StateChanges : ProcessContractDataChange(c) = <<x>>
      BY <2>3, <2>9, <3>3
    <3>. QED BY <2>7, <3>1, <3>2, <3>3, DataChangeTyped
  <2>. HIDE DEF Tells
  <2>. QED BY <2>1, <2>10 DEF i
<1>8. n \in R
  <2>. HIDE DEF R
  <2>1. \A i \in 0..(n - 1) : i \in R => i + 1 \in R
    BY <1>7
  <2>2. 0..n \subseteq R
    BY <1>1, <1>6, <2>1, BoundedInduction
  <2>. QED BY <1>1, <2>2
<1>. QED BY <1>3, <1>8 DEF n

LEMMA ReplayTyped ==
  ASSUME NEW at \in Accounts, NEW name, NEW changes \in Seq(SentChange)
  PROVE  ReplayChanges(at, name, changes) \in Accounts
<1>1. PICK f : /\ ReplayRounds(f, at, name, changes)
               /\ ReplayChanges(at, name, changes) = f[Len(changes)]
  BY ReplayChangesLoop
<1>2. Len(changes) \in 0..Len(changes)
  OBVIOUS
<1>. QED BY <1>1, <1>2 DEF ReplayRounds

\* The story of all invocations.
Unwritten == [ok |-> TRUE, value |-> <<>>]

TypedStories(sent) ==
  /\ Len(sent) \in Nat
  /\ \A i \in 1..Len(sent) : sent[i].changes \in Seq(SentChange)

StoryRounds(f, name, sent) ==
  /\ f \in [0..Len(sent) -> Accounts]
  /\ f[0] = Unwritten
  /\ \A i \in 1..Len(sent) : f[i] = ReplayChanges(f[i - 1], name, sent[i].changes)

LEMMA ReplayLoop ==
  ASSUME NEW name, NEW sent, TypedStories(sent)
  PROVE  \E f : StoryRounds(f, name, sent) /\ Replay(name, sent) = f[Len(sent)]
<1>. DEFINE n == Len(sent)
            S == Accounts
            Body(at, i) == ReplayChanges(at, name, sent[i].changes)
            round == [i \in 1..n |-> [at \in S |-> Body(at, i)]]
            Rec(g) == g = [i \in 0..n |-> IF i = 0 THEN Unwritten ELSE Body(g[i - 1], i)]
            c == CHOOSE g : Rec(g)
<1>1. n \in Nat /\ Unwritten \in S
  BY DEF TypedStories, Accounts, Unwritten
<1>2. ASSUME NEW i \in 1..n, NEW at \in S PROVE Body(at, i) \in S
  <2>1. sent[i].changes \in Seq(SentChange)
    BY DEF TypedStories
  <2>. QED BY <2>1, ReplayTyped
<1>. HIDE DEF Body, S, n
<1>3. Rounds(round, n, S)
  BY <1>2 DEF Rounds
<1>4. \A i \in 1..n, at \in S : round[i][at] = Body(at, i)
  OBVIOUS
<1>. HIDE DEF round
<1>5. PICK f : Iterates(f, round, n, Unwritten, S)
  BY <1>1, <1>3, IteratesExist
<1>6. f \in [0..n -> S] /\ f[0] = Unwritten /\ \A i \in 1..n : f[i] = Body(f[i - 1], i)
  BY <1>1, <1>4, <1>5 DEF Iterates
<1>7. Rec(f)
  BY <1>6
<1>8. Rec(c)
  BY <1>7
<1>9. c = f
  BY <1>1, <1>6, <1>8, SameRounds
<1>10. Replay(name, sent) = c[n]
  BY DEF Replay, Loop, Body, n, Unwritten
<1>11. StoryRounds(f, name, sent)
  BY <1>6 DEF Body, n, S, StoryRounds
<1>12. Replay(name, sent) = f[n]
  BY <1>1, <1>9, <1>10
<1>. QED BY <1>11, <1>12 DEF n

LEMMA ReplayOfNone ==
  ASSUME NEW name
  PROVE  Replay(name, <<>>) = Unwritten
<1>. DEFINE none == <<>>
<1>1. TypedStories(none) /\ Len(none) = 0
  BY DEF TypedStories
<1>. HIDE DEF none
<1>2. PICK f : StoryRounds(f, name, none) /\ Replay(name, none) = f[Len(none)]
  BY <1>1, ReplayLoop
<1>. QED BY <1>1, <1>2 DEF StoryRounds, none

\* One more invocation goes on from where the others ended.
LEMMA ReplayMore ==
  ASSUME NEW name, NEW sent, NEW more, TypedStories(sent), TypedStories(more),
         Len(more) = Len(sent) + 1,
         \A i \in 1..Len(sent) : more[i].changes = sent[i].changes
  PROVE  Replay(name, more) = ReplayChanges(Replay(name, sent), name, more[Len(more)].changes)
<1>. DEFINE n == Len(sent)
<1>1. n \in Nat
  BY DEF TypedStories
<1>2. PICK f : StoryRounds(f, name, sent) /\ Replay(name, sent) = f[n]
  BY ReplayLoop
<1>3. PICK g : StoryRounds(g, name, more) /\ Replay(name, more) = g[n + 1]
  BY ReplayLoop
<1>4. f[0] = Unwritten /\ \A i \in 1..n : f[i] = ReplayChanges(f[i - 1], name, sent[i].changes)
  BY <1>2 DEF StoryRounds
<1>5. g[0] = Unwritten /\ \A i \in 1..(n + 1) : g[i] = ReplayChanges(g[i - 1], name, more[i].changes)
  BY <1>3 DEF StoryRounds
<1>6. \A i \in 1..n : more[i].changes = sent[i].changes
  OBVIOUS
<1>. HIDE DEF n
<1>7. n \in 0..n /\ n + 1 \in 1..(n + 1) /\ (n + 1) - 1 = n /\ 1..n \subseteq 1..(n + 1)
  BY <1>1
<1>8. f[0] = g[0]
  BY <1>4, <1>5
<1>9. SameSteps(f, g, n)
  BY <1>4, <1>5, <1>6, <1>7 DEF SameSteps
<1>10. f[n] = g[n]
  BY <1>1, <1>8, <1>9, SameEnd
<1>11. g[n + 1] = ReplayChanges(g[n], name, more[n + 1].changes)
  BY <1>5, <1>7
<1>. QED BY <1>2, <1>3, <1>10, <1>11 DEF n

-------------------------------------------------------------------------------
(* What is sent replays to what the network has. *)

StoryInv ==
  /\ store \in Entries
  /\ \A i \in DOMAIN invocations : invocations[i].changes \in Seq(StateChanges)
  /\ \A k \in Keys : Told(k) => Replay(Name(k), ConvertInvocations(invocations)) =
                                  [ok |-> TRUE, value |-> Stored(store[k])]

ReplayInv == AgreeInv /\ StoryInv

LEMMA ReplayInit == Init => ReplayInv
<1>. SUFFICES ASSUME Init PROVE ReplayInv
  OBVIOUS
<1>1. invocations = <<>> /\ store = [k \in Keys |-> Nil]
  BY DEF Init
<1>2. store \in Entries
  BY <1>1 DEF Entries
<1>3. ConvertInvocations(<<>>) = <<>> /\ DOMAIN <<>> = {}
  BY DEF ConvertInvocations
<1>4. ASSUME NEW k \in Keys
      PROVE  Replay(Name(k), ConvertInvocations(invocations)) = [ok |-> TRUE, value |-> Stored(store[k])]
  <2>1. store[k] = Nil
    BY <1>1
  <2>2. Stored(store[k]) = <<>>
    BY <2>1 DEF Stored
  <2>3. Replay(Name(k), <<>>) = Unwritten
    BY ReplayOfNone
  <2>. QED BY <1>1, <1>3, <2>2, <2>3 DEF Unwritten
<1>. QED BY <1>1, <1>2, <1>3, <1>4, AgreeInit DEF ReplayInv, StoryInv

LEMMA StoryRemains ==
  ASSUME StoryInv, store' = store, written' = written, invocations' = invocations
  PROVE  StoryInv'
<1>1. store' \in Entries
  BY DEF StoryInv
<1>2. \A i \in DOMAIN invocations' : invocations'[i].changes \in Seq(StateChanges)
  BY DEF StoryInv
<1>3. \A k \in Keys : Told(k)' = Told(k)
  BY DEF Told
<1>4. \A k \in Keys : Told(k) => Replay(Name(k), ConvertInvocations(invocations')) =
                           [ok |-> TRUE, value |-> Stored(store'[k])]
  BY DEF StoryInv
<1>. QED BY <1>1, <1>2, <1>3, <1>4 DEF StoryInv

\* The changes of each invocation, as they are sent.
LEMMA StoriesSent ==
  ASSUME NEW invs, Sequence(invs), NEW txs,
         \A i \in DOMAIN invs : \E n : InvocationOf(invs[i], txs[n], n),
         \A i \in DOMAIN invs : invs[i].changes \in Seq(StateChanges)
  PROVE  /\ TypedStories(ConvertInvocations(invs))
         /\ Len(ConvertInvocations(invs)) = Len(invs)
         /\ \A i \in DOMAIN invs :
              ConvertInvocations(invs)[i].changes = SentChanges(invs[i].changes)
<1>. DEFINE sent == ConvertInvocations(invs)
<1>1. Len(invs) \in Nat /\ DOMAIN invs = 1..Len(invs)
  BY DEF Sequence
<1>2. DOMAIN sent = DOMAIN invs /\ sent = [i \in DOMAIN invs |-> sent[i]]
  BY DEF ConvertInvocations
<1>3. Len(sent) = Len(invs)
  <2>1. invs \in Seq(ToSet(invs))
    BY DEF Sequence
  <2>. HIDE DEF sent
  <2>. QED BY <1>2, <2>1, SequenceLike
<1>4. ASSUME NEW i \in DOMAIN invs PROVE sent[i].changes = SentChanges(invs[i].changes)
  <2>1. PICK n : InvocationOf(invs[i], txs[n], n)
    OBVIOUS
  <2>. DEFINE tx == txs[n]
              changes == ExtractStateChanges(tx.ops[1])
  <2>2. invs[i] = ProcessContractInvocation(tx, n, tx.ops[1], 0)
    BY <2>1 DEF InvocationOf
  <2>. HIDE DEF tx
  <2>3. InvocationFields(sent[i], tx, n, SentChanges(changes))
    BY <2>2, InvocationSent
  <2>4. InvocationFields(invs[i], tx, n, changes)
    BY <2>2, InvocationMade
  <2>. HIDE DEF changes, sent
  <2>. QED BY <2>3, <2>4 DEF InvocationFields
<1>. HIDE DEF sent
<1>5. \A i \in 1..Len(sent) : sent[i].changes \in Seq(SentChange)
  BY <1>1, <1>3, <1>4, ChangesSent
<1>6. TypedStories(sent)
  BY <1>1, <1>3, <1>5 DEF TypedStories
<1>. QED BY <1>3, <1>4, <1>6 DEF sent

\* The writes of a transaction: only one that invokes writes, but for what it restores.
LEMMA WritesOfRead ==
  ASSUME NEW t \in Txs
  PROVE  /\ Writes(t) \in Seq(Write)
         /\ (\A k \in DOMAIN t.ops : ~Invokes(t.ops[k])) =>
              \A i \in 1..Len(Writes(t)) : Writes(t)[i].restore
<1>1. CASE ~t.success \/ t.ops = <<>>
  <2>1. Writes(t) = <<>>
    BY <1>1 DEF Writes
  <2>2. Len(Writes(t)) = 0 /\ Writes(t) \in Seq(Write)
    BY <2>1
  <2>3. \A i : i \notin 1..Len(Writes(t))
    BY <2>2
  <2>. QED BY <2>2, <2>3
<1>2. CASE t.success /\ t.ops # <<>>
  <2>. DEFINE writes == t.ops[1].writes
  <2>1. t.ops \in Seq(Operation) /\ 1 \in DOMAIN t.ops /\ t.ops[1] \in Operation
    <3>1. t.ops \in Seq(Operation)
      BY TxsTyped
    <3>. QED BY <1>2, <3>1
  <2>2. writes \in Seq(Write)
    BY <2>1 DEF Operation
  <2>3. Writes(t) = writes
    BY <1>2 DEF Writes
  <2>4. (\A k \in DOMAIN t.ops : ~Invokes(t.ops[k])) => \A i \in DOMAIN writes : writes[i].restore
    BY <2>1, TransactionsAssumption
  <2>5. DOMAIN writes = 1..Len(writes)
    <3>. HIDE DEF writes
    <3>. QED BY <2>2
  <2>. HIDE DEF writes
  <2>. QED BY <2>2, <2>3, <2>4, <2>5
<1>. QED BY <1>1, <1>2

LEMMA StoryReadStep ==
  ASSUME ReplayInv, NEW t \in Txs, ReadTransaction(t)
  PROVE  StoryInv'
<1>. DEFINE n      == Len(ledger) + 1
            writes == Writes(t)
<1>1. LedgerRead /\ InvocationsRead /\ StoryInv /\ store \in Entries
  BY DEF ReplayInv, AgreeInv, EventsInv, StoryInv
<1>2. PICK tx : /\ ReadOf(tx, t, n)
                /\ \A k \in DOMAIN tx.ops : tx.ops[k].changes = Changes(store, writes)
                /\ invocations' = invocations \o ExtractInvocations(tx, n)
  BY <1>1, ReadStep
<1>3. store' = Written(store, writes, Len(writes)) /\ written' = written \cup ToSet(writes)
  BY DEF ReadTransaction
<1>4. /\ writes \in Seq(Write)
      /\ (\A k \in DOMAIN t.ops : ~Invokes(t.ops[k])) => \A i \in 1..Len(writes) : writes[i].restore
  BY WritesOfRead
<1>5. store' \in Entries
  <2>1. Len(writes) \in 0..Len(writes)
    BY <1>4
  <2>. HIDE DEF writes
  <2>. QED BY <1>1, <1>3, <1>4, <2>1, WrittenSteps
<1>6. InvocationsRead'
  BY <1>1, InvocationsReadStep
<1>7. ASSUME NEW k \in Keys, Told(k)'
      PROVE  Told(k) /\ \A i \in 1..Len(writes) : TellsApart(writes[i], k)
  <2>1. \A i \in 1..Len(writes) : writes[i] \in ToSet(writes)
    <3>. HIDE DEF writes
    <3>. QED BY <1>4 DEF ToSet
  <2>. HIDE DEF writes
  <2>2. /\ k.entry = "contract_data" /\ ~Fails(k.key)
        /\ \A w \in written \cup ToSet(writes) :
             IF w.key = k THEN ~w.restore
             ELSE w.key.entry = "contract_data" => Name(w.key) # Name(k)
    BY <1>3, <1>7 DEF Told
  <2>3. Told(k)
    BY <2>2 DEF Told
  <2>. QED BY <2>1, <2>2, <2>3 DEF TellsApart
<1>. DEFINE new == ExtractInvocations(tx, n)
<1>9. \/ (\A k \in DOMAIN tx.ops : ~Invokes(tx.ops[k])) /\ new = <<>>
      \/ /\ DOMAIN tx.ops = {1} /\ Invokes(tx.ops[1])
         /\ new = <<ProcessContractInvocation(tx, n, tx.ops[1], 0)>>
  <2>. HIDE DEF n
  <2>. QED BY <1>2, InvocationsOfRead
<1>. HIDE DEF n, writes, new
<1>10. ASSUME \A k \in DOMAIN tx.ops : ~Invokes(tx.ops[k]), new = <<>> PROVE StoryInv'
  <2>1. invocations' = invocations
    BY <1>1, <1>2, <1>10 DEF InvocationsRead, Sequence, new
  <2>2. \A k \in DOMAIN t.ops : ~Invokes(t.ops[k])
    BY <1>2, <1>10 DEF ReadOf, Invokes
  <2>3. ASSUME NEW k \in Keys, Told(k)' PROVE store'[k] = store[k]
    <3>1. \A i \in 1..Len(writes) : writes[i].key # k
      BY <1>4, <1>7, <2>2, <2>3 DEF TellsApart
    <3>. QED BY <1>1, <1>3, <1>4, <3>1, WrittenElsewhere
  <2>4. \A i \in DOMAIN invocations' : invocations'[i].changes \in Seq(StateChanges)
    BY <1>1, <2>1 DEF StoryInv
  <2>5. \A k \in Keys : Told(k)' => Replay(Name(k), ConvertInvocations(invocations')) =
                                     [ok |-> TRUE, value |-> Stored(store'[k])]
    BY <1>1, <1>7, <2>1, <2>3 DEF StoryInv
  <2>. QED BY <1>5, <2>4, <2>5 DEF StoryInv
<1>11. ASSUME DOMAIN tx.ops = {1}, new = <<ProcessContractInvocation(tx, n, tx.ops[1], 0)>>
       PROVE  StoryInv'
  <2>. DEFINE op  == tx.ops[1]
              inv == ProcessContractInvocation(tx, n, op, 0)
              m   == Len(invocations)
              changes == ExtractStateChanges(op)
  <2>1. inv.changes = changes
    BY InvocationMade DEF InvocationFields
  <2>2. op.changes = Changes(store, writes)
    BY <1>2, <1>11
  <2>3. changes \in Seq(StateChanges)
    <3>1. op.changes \in Seq(LedgerChange)
      BY <1>1, <1>4, <2>2, ChangesTyped
    <3>2. PICK f : StateChangeRounds(f, op.changes) /\ changes = f[Len(op.changes)]
      BY <3>1, ExtractStateChangesLoop
    <3>3. Len(op.changes) \in 0..Len(op.changes)
      BY <3>1
    <3>. HIDE DEF op, changes
    <3>. QED BY <3>2, <3>3 DEF StateChangeRounds
  <2>. HIDE DEF inv, changes, op
  <2>4. /\ Sequence(invocations) /\ invocations' = Append(invocations, inv)
    <3>1. Sequence(invocations)
      BY <1>1 DEF InvocationsRead
    <3>2. new = <<inv>>
      BY <1>11 DEF inv, op
    <3>. QED BY <1>2, <3>1, <3>2 DEF Sequence, new
  <2>5. /\ Sequence(invocations') /\ m \in Nat /\ Len(invocations') = m + 1
        /\ DOMAIN invocations = 1..m /\ DOMAIN invocations' = 1..(m + 1)
        /\ \A i \in 1..m : invocations'[i] = invocations[i]
        /\ invocations'[m + 1] = inv
    BY <2>4, SequenceAppend
  <2>6. \A i \in DOMAIN invocations' : invocations'[i].changes \in Seq(StateChanges)
    BY <1>1, <2>1, <2>3, <2>5 DEF StoryInv
  <2>. DEFINE sent == ConvertInvocations(invocations)
              more == ConvertInvocations(invocations')
  <2>7. /\ TypedStories(sent) /\ Len(sent) = m
        /\ \A i \in 1..m : sent[i].changes = SentChanges(invocations[i].changes)
    <3>1. \A i \in DOMAIN invocations : \E j : InvocationOf(invocations[i], ledger[j], j)
      BY <1>1 DEF InvocationsRead
    <3>2. \A i \in DOMAIN invocations : invocations[i].changes \in Seq(StateChanges)
      BY <1>1 DEF StoryInv
    <3>. QED BY <2>4, <2>5, <3>1, <3>2, StoriesSent
  <2>8. /\ TypedStories(more) /\ Len(more) = m + 1
        /\ \A i \in 1..(m + 1) : more[i].changes = SentChanges(invocations'[i].changes)
    <3>. DEFINE invs == invocations'
                txs  == ledger'
    <3>1. \A i \in DOMAIN invs : \E j : InvocationOf(invs[i], txs[j], j)
      BY <1>6 DEF InvocationsRead
    <3>2. Sequence(invs) /\ \A i \in DOMAIN invs : invs[i].changes \in Seq(StateChanges)
      BY <2>5, <2>6
    <3>3. Len(invs) = m + 1 /\ DOMAIN invs = 1..(m + 1)
      BY <2>5
    <3>. HIDE DEF invs, txs, m
    <3>4. /\ TypedStories(ConvertInvocations(invs)) /\ Len(ConvertInvocations(invs)) = Len(invs)
          /\ \A i \in DOMAIN invs :
               ConvertInvocations(invs)[i].changes = SentChanges(invs[i].changes)
      BY <3>1, <3>2, StoriesSent
    <3>. QED BY <3>3, <3>4 DEF invs
  <2>. HIDE DEF sent, more, m
  <2>9. ASSUME NEW k \in Keys, Told(k)'
        PROVE  Replay(Name(k), more) = [ok |-> TRUE, value |-> Stored(store'[k])]
    <3>1. Replay(Name(k), sent) = [ok |-> TRUE, value |-> Stored(store[k])]
      BY <1>1, <1>7, <2>9 DEF StoryInv, sent
    <3>2. Replay(Name(k), more) = ReplayChanges(Replay(Name(k), sent), Name(k), more[m + 1].changes)
      <4>1. \A i \in 1..m : more[i].changes = sent[i].changes
        BY <2>5, <2>7, <2>8
      <4>2. Len(more) = Len(sent) + 1 /\ Len(more) = m + 1
        BY <2>7, <2>8
      <4>. QED BY <2>7, <2>8, <4>1, <4>2, ReplayMore
    <3>3. more[m + 1].changes = SentChanges(changes)
      BY <2>1, <2>5, <2>8
    <3>4. \A i \in 1..Len(writes) : TellsApart(writes[i], k)
      BY <1>7, <2>9
    <3>5. ReplayChanges([ok |-> TRUE, value |-> Stored(store[k])], Name(k), SentChanges(changes)) =
            [ok |-> TRUE, value |-> Stored(Written(store, writes, Len(writes))[k])]
      BY ZenonT(30), <1>1, <1>4, <2>2, <3>4, Story DEF changes
    <3>. QED BY <1>3, <3>1, <3>2, <3>3, <3>5
  <2>. QED BY <1>5, <2>6, <2>9 DEF StoryInv, more
<1>. QED BY <1>9, <1>10, <1>11

LEMMA ReplayStep == ReplayInv /\ [Next]_vars => ReplayInv'
<1>. SUFFICES ASSUME ReplayInv, [Next]_vars PROVE ReplayInv'
  OBVIOUS
<1>1. AgreeInv' /\ StoryInv
  BY AgreeStep DEF ReplayInv
<1>2. ASSUME NEW next \in {"reading", "skipped", "failed"}, Receive(next) PROVE StoryInv'
  BY <1>1, <1>2, StoryRemains DEF Receive
<1>3. ASSUME NEW t \in Txs, ReadTransaction(t) PROVE StoryInv'
  BY <1>3, StoryReadStep
<1>4. ASSUME ReadPanics PROVE StoryInv'
  BY <1>1, <1>4, StoryRemains DEF ReadPanics
<1>5. ASSUME ReadFails PROVE StoryInv'
  BY <1>1, <1>5, StoryRemains DEF ReadFails
<1>6. ASSUME EndOfLedger PROVE StoryInv'
  BY <1>1, <1>6, StoryRemains DEF EndOfLedger
<1>7. ASSUME UNCHANGED vars PROVE StoryInv'
  BY <1>1, <1>7, StoryRemains DEF vars
<1>8. StoryInv'
  BY <1>2, <1>3, <1>4, <1>5, <1>6, <1>7 DEF Next
<1>. QED BY <1>1, <1>8 DEF ReplayInv

THEOREM ReplayInvariant == Spec => []ReplayInv
BY ReplayInit, ReplayStep, PTL DEF Spec

\* The state changes that are sent of a ledger tell the story of its contract data:
\* each finds the value it says it replaces, and they end in what the values that the
\* network has are decoded to, for every entry with a name of its own (contract_invocation_processor.go:394-481, convert.go:80-89).
THEOREM ChangesReplayTheorem == Spec => []ChangesReplay
<1>1. ReplayInv => ChangesReplay
  <2>. SUFFICES ASSUME ReplayInv, state = "done",
                       NEW k \in Keys, Told(k)
                PROVE  Replay(Name(k), output.invocations) = [ok |-> TRUE, value |-> Stored(store[k])]
    BY DEF ChangesReplay
  <2>1. Sent /\ StoryInv
    BY DEF ReplayInv, AgreeInv
  <2>2. output.invocations = ConvertInvocations(invocations)
    BY <2>1 DEF Sent
  <2>. QED BY <2>1, <2>2 DEF StoryInv
<1>. QED BY <1>1, ReplayInvariant, PTL

-------------------------------------------------------------------------------
(* Values, and what they are decoded to. *)

NestIn(S) == Flat \cup [t : {"vec", "map"}, limbs : {<<>>}, items : Seq(S)]

LevelsOf(f, n) ==
  f = [m \in 0..n |-> IF m = 0 THEN Flat ELSE NestIn(f[m - 1])]

LEMMA LevelsExist ==
  ASSUME NEW n \in Nat
  PROVE  \E f : LevelsOf(f, n)
<1>. DEFINE R == {m \in 0..n : \E f : LevelsOf(f, m)}
<1>1. 0 \in R
  <2>. DEFINE f == [m \in 0..0 |-> Flat]
  <2>1. LevelsOf(f, 0)
    BY DEF LevelsOf
  <2>. QED BY <2>1
<1>2. ASSUME NEW m \in 0..(n - 1), m \in R PROVE m + 1 \in R
  <2>1. PICK f : LevelsOf(f, m)
    BY <1>2
  <2>. DEFINE g == [k \in 0..(m + 1) |-> IF k = m + 1 THEN NestIn(f[m]) ELSE f[k]]
              h == [k \in 0..(m + 1) |-> IF k = 0 THEN Flat ELSE NestIn(g[k - 1])]
  <2>2. \A k \in 0..m : f[k] = IF k = 0 THEN Flat ELSE NestIn(f[k - 1])
    BY <2>1 DEF LevelsOf
  <2>3. ASSUME NEW k \in 0..(m + 1) PROVE g[k] = h[k]
    <3>1. CASE k = 0
      BY <2>2, <3>1
    <3>2. CASE k = m + 1
      BY <3>2
    <3>3. CASE k \in 1..m
      BY <2>2, <3>3
    <3>. QED BY <3>1, <3>2, <3>3
  <2>4. g = h
    BY <2>3
  <2>5. LevelsOf(g, m + 1)
    BY <2>4 DEF LevelsOf
  <2>. HIDE DEF g
  <2>. QED BY <2>5
<1>. HIDE DEF R
<1>3. n \in R
  BY <1>1, <1>2, BoundedInduction
<1>. QED BY <1>3 DEF R

LEMMA Levels ==
  /\ NestedValues[0] = Flat
  /\ \A n \in 1..MaxNesting : NestedValues[n] = NestIn(NestedValues[n - 1])
<1>. DEFINE Rec(f) == f = [n \in 0..MaxNesting |->
                       IF n = 0 THEN Flat
                       ELSE Flat \cup [t : {"vec", "map"}, limbs : {<<>>}, items : Seq(f[n - 1])]]
            c == CHOOSE f : Rec(f)
<1>1. MaxNesting \in Nat
  BY NestingAssumption
<1>2. PICK f : LevelsOf(f, MaxNesting)
  BY <1>1, LevelsExist
<1>3. Rec(f)
  BY <1>2 DEF LevelsOf, NestIn
<1>4. Rec(c)
  BY <1>3
<1>5. NestedValues = c
  BY DEF NestedValues
<1>6. \A n \in 0..MaxNesting : c[n] = IF n = 0 THEN Flat ELSE NestIn(c[n - 1])
  BY <1>4 DEF NestIn
<1>. HIDE DEF c
<1>. QED BY <1>1, <1>5, <1>6

\* A value is flat, or nests values of the level below.
LEMMA LevelOf ==
  ASSUME NEW n \in 0..MaxNesting, NEW val \in NestedValues[n]
  PROVE  \/ val \in Flat
         \/ /\ n # 0 /\ val.t \in {"vec", "map"}
            /\ \A i \in DOMAIN val.items : val.items[i] \in NestedValues[n - 1]
<1>1. CASE n = 0
  BY <1>1, Levels
<1>2. CASE n # 0
  <2>1. val \in NestIn(NestedValues[n - 1])
    BY <1>2, Levels
  <2>2. ASSUME val \notin Flat
        PROVE  val.t \in {"vec", "map"} /\ val.items \in Seq(NestedValues[n - 1])
    BY <2>1, <2>2 DEF NestIn
  <2>. QED BY <1>2, <2>2
<1>. QED BY <1>1, <1>2

LEMMA LevelsGrow ==
  ASSUME NEW n \in 0..(MaxNesting - 1)
  PROVE  NestedValues[n] \subseteq NestedValues[n + 1]
<1>. DEFINE R == {m \in Nat : m < MaxNesting => NestedValues[m] \subseteq NestedValues[m + 1]}
<1>1. MaxNesting \in Nat
  BY NestingAssumption
<1>2. 0 \in R
  <2>1. 0 < MaxNesting => NestedValues[1] = NestIn(NestedValues[0]) /\ NestedValues[0] = Flat
    BY <1>1, Levels
  <2>. QED BY <2>1 DEF NestIn
<1>3. ASSUME NEW m \in Nat, m \in R PROVE m + 1 \in R
  <2>1. SUFFICES ASSUME m + 1 < MaxNesting
                 PROVE  NestedValues[m + 1] \subseteq NestedValues[m + 2]
    BY <1>1
  <2>2. /\ NestedValues[m + 1] = NestIn(NestedValues[m])
        /\ NestedValues[m + 2] = NestIn(NestedValues[m + 1])
    BY <1>1, <2>1, Levels
  <2>3. NestedValues[m] \subseteq NestedValues[m + 1]
    BY <1>1, <1>3, <2>1
  <2>4. Seq(NestedValues[m]) \subseteq Seq(NestedValues[m + 1])
    BY <2>3, SeqMonotonic
  <2>. QED BY <2>2, <2>4 DEF NestIn
<1>. HIDE DEF R
<1>4. Nat \subseteq R
  BY <1>2, <1>3, SetInduction
<1>. QED BY <1>1, <1>4 DEF R

-------------------------------------------------------------------------------
ItemsBy(g, val) == [i \in DOMAIN val.items |-> g[val.items[i]]]

DecodesBy(g, S) == g = [val \in S |-> Assemble(val, ItemsBy(g, val))]

LEMMA SameItems ==
  ASSUME NEW val, NEW g, NEW h, \A i \in DOMAIN val.items : g[val.items[i]] = h[val.items[i]]
  PROVE  ItemsBy(g, val) = ItemsBy(h, val)
BY DEF ItemsBy

LEMMA FlatItems ==
  ASSUME NEW val \in Flat
  PROVE  DOMAIN val.items = {}
<1>1. val.items = <<>>
  BY DEF Flat
<1>. QED BY <1>1

LEMMA DecodingExists ==
  ASSUME NEW n \in 0..MaxNesting
  PROVE  \E g : DecodesBy(g, NestedValues[n])
<1>. DEFINE R == {m \in Nat : m <= MaxNesting => \E g : DecodesBy(g, NestedValues[m])}
<1>1. MaxNesting \in Nat
  BY NestingAssumption
<1>2. 0 \in R
  <2>. DEFINE g == [val \in Flat |-> Assemble(val, ItemsBy(<<>>, val))]
  <2>1. \A val \in Flat : ItemsBy(g, val) = ItemsBy(<<>>, val)
    BY FlatItems, SameItems
  <2>2. g = [val \in Flat |-> Assemble(val, ItemsBy(g, val))]
    BY <2>1
  <2>. HIDE DEF g
  <2>3. DecodesBy(g, Flat)
    BY <2>2 DEF DecodesBy
  <2>. QED BY <2>3, Levels
<1>3. ASSUME NEW m \in Nat, m \in R PROVE m + 1 \in R
  <2>1. SUFFICES ASSUME m + 1 <= MaxNesting
                 PROVE  \E h : DecodesBy(h, NestedValues[m + 1])
    BY <1>1
  <2>2. PICK g : DecodesBy(g, NestedValues[m])
    BY <1>1, <1>3, <2>1
  <2>. DEFINE h == [val \in NestedValues[m + 1] |-> Assemble(val, ItemsBy(g, val))]
  <2>3. NestedValues[m] \subseteq NestedValues[m + 1]
    BY <1>1, <2>1, LevelsGrow
  <2>4. \A val \in NestedValues[m] : h[val] = g[val]
    BY <2>2, <2>3 DEF DecodesBy
  <2>5. ASSUME NEW val \in NestedValues[m + 1]
        PROVE  ItemsBy(h, val) = ItemsBy(g, val)
    <3>1. \A i \in DOMAIN val.items : val.items[i] \in NestedValues[m]
      <4>1. val \in Flat \/ \A i \in DOMAIN val.items : val.items[i] \in NestedValues[m + 1 - 1]
        BY <1>1, <2>1, LevelOf
      <4>. QED BY <4>1, FlatItems
    <3>. HIDE DEF h
    <3>. QED BY <2>4, <3>1, SameItems
  <2>6. h = [val \in NestedValues[m + 1] |-> Assemble(val, ItemsBy(h, val))]
    BY <2>5
  <2>. HIDE DEF h
  <2>7. DecodesBy(h, NestedValues[m + 1])
    BY <2>6 DEF DecodesBy
  <2>. QED BY <2>7
<1>. HIDE DEF R
<1>4. Nat \subseteq R
  BY <1>2, <1>3, SetInduction
<1>. QED BY <1>1, <1>4 DEF R

LEMMA ConvertIsAssemble ==
  ASSUME NEW val \in Values
  PROVE  ConvertScValToJSON[val] = Assemble(val, ItemsBy(ConvertScValToJSON, val))
<1>. DEFINE Rec(g) == g = [v \in Values |-> Assemble(v, [i \in DOMAIN v.items |-> g[v.items[i]]])]
            c == CHOOSE g : Rec(g)
<1>1. PICK g : DecodesBy(g, Values)
  BY NestingAssumption, DecodingExists DEF Values
<1>2. Rec(g)
  BY <1>1 DEF DecodesBy, ItemsBy
<1>3. Rec(c)
  BY <1>2
<1>4. ConvertScValToJSON = c
  BY DEF ConvertScValToJSON
<1>5. c[val] = Assemble(val, [i \in DOMAIN val.items |-> c[val.items[i]]])
  BY <1>3
<1>. HIDE DEF c
<1>. QED BY <1>4, <1>5 DEF ItemsBy

\* What a value has inside is a value.
LEMMA ItemsValues ==
  ASSUME NEW val \in Values, NEW i \in DOMAIN val.items
  PROVE  val.items[i] \in Values
<1>1. MaxNesting \in Nat
  BY NestingAssumption
<1>2. /\ MaxNesting # 0
      /\ val.items[i] \in NestedValues[MaxNesting - 1]
  BY <1>1, LevelOf, FlatItems DEF Values
<1>3. NestedValues[MaxNesting - 1] \subseteq NestedValues[MaxNesting - 1 + 1]
  BY <1>1, <1>2, LevelsGrow
<1>4. MaxNesting - 1 + 1 = MaxNesting
  BY <1>1
<1>. QED BY <1>2, <1>3, <1>4 DEF Values

-------------------------------------------------------------------------------
(* Wide integers. *)

LEMMA LimbFacts ==
  ASSUME NEW k \in Nat, NEW limbs \in [1..k -> Limbs]
  PROVE  /\ Len(limbs) = k
         /\ \A l \in 1..k : limbs[l] \in 0..(Limb - 1)
         /\ Limb \in Nat \ {0} /\ Limb \div 2 \in Nat /\ Limb = 2 * (Limb \div 2)
<1>1. limbs \in Seq(Limbs) /\ Len(limbs) = k
  OBVIOUS
<1>2. Limb \in Nat \ {0} /\ Limb \div 2 \in Nat /\ Limb = 2 * (Limb \div 2)
  BY LimbAssumption
<1>. QED BY <1>1, <1>2 DEF Limbs

SizeSteps(size, n) ==
  \E f : /\ f[0] = 1 /\ size = f[n]
         /\ \A l \in 1..n : f[l - 1] \in Int /\ f[l] = f[l - 1] * Limb

LEMMA SizeLoop ==
  ASSUME NEW limbs, Len(limbs) \in Nat, Limb \in Nat
  PROVE  SizeSteps(SizeOf(limbs), Len(limbs))
<1>. DEFINE n == Len(limbs)
            S == Int
            Body(x, l) == x * Limb
            round == [l \in 1..n |-> [x \in S |-> Body(x, l)]]
            Rec(g) == g = [l \in 0..n |-> IF l = 0 THEN 1 ELSE Body(g[l - 1], l)]
            c == CHOOSE g : Rec(g)
<1>1. 1 \in S /\ n \in Nat
  OBVIOUS
<1>2. ASSUME NEW l \in 1..n, NEW x \in S PROVE Body(x, l) \in S
  OBVIOUS
<1>. HIDE DEF Body, S, n
<1>3. Rounds(round, n, S)
  BY <1>2 DEF Rounds
<1>4. \A l \in 1..n, x \in S : round[l][x] = Body(x, l)
  OBVIOUS
<1>. HIDE DEF round
<1>5. PICK f : Iterates(f, round, n, 1, S)
  BY <1>1, <1>3, IteratesExist
<1>6. f \in [0..n -> S] /\ f[0] = 1 /\ \A l \in 1..n : f[l] = Body(f[l - 1], l)
  BY <1>1, <1>4, <1>5 DEF Iterates
<1>7. Rec(f)
  BY <1>6
<1>8. Rec(c)
  BY <1>7
<1>9. c = f
  BY <1>1, <1>6, <1>8, SameRounds
<1>10. SizeOf(limbs) = c[n]
  BY DEF SizeOf, Loop, Body, n
<1>. HIDE DEF c
<1>11. SizeOf(limbs) = f[n]
  BY <1>9, <1>10
<1>12. \A l \in 1..n : f[l - 1] \in Int /\ f[l] = f[l - 1] * Limb
  BY <1>1, <1>6 DEF Body, S
<1>. QED BY <1>6, <1>11, <1>12 DEF SizeSteps, n

BitsSteps(bits, limbs, n) ==
  \E f : /\ f[0] = 0 /\ bits = f[n]
         /\ \A l \in 1..n : f[l - 1] \in Int /\ f[l] = f[l - 1] * Limb + limbs[l]

LEMMA BitsLoop ==
  ASSUME NEW limbs, Len(limbs) \in Nat, Limb \in Nat,
         \A l \in 1..Len(limbs) : limbs[l] \in 0..(Limb - 1)
  PROVE  BitsSteps(BitsOf(limbs), limbs, Len(limbs))
<1>. DEFINE n == Len(limbs)
            S == Int
            Body(x, l) == x * Limb + limbs[l]
            round == [l \in 1..n |-> [x \in S |-> Body(x, l)]]
            Rec(g) == g = [l \in 0..n |-> IF l = 0 THEN 0 ELSE Body(g[l - 1], l)]
            c == CHOOSE g : Rec(g)
<1>1. 0 \in S /\ n \in Nat
  OBVIOUS
<1>2. ASSUME NEW l \in 1..n, NEW x \in S PROVE Body(x, l) \in S
  OBVIOUS
<1>. HIDE DEF Body, S, n
<1>3. Rounds(round, n, S)
  BY <1>2 DEF Rounds
<1>4. \A l \in 1..n, x \in S : round[l][x] = Body(x, l)
  OBVIOUS
<1>. HIDE DEF round
<1>5. PICK f : Iterates(f, round, n, 0, S)
  BY <1>1, <1>3, IteratesExist
<1>6. f \in [0..n -> S] /\ f[0] = 0 /\ \A l \in 1..n : f[l] = Body(f[l - 1], l)
  BY <1>1, <1>4, <1>5 DEF Iterates
<1>7. Rec(f)
  BY <1>6
<1>8. Rec(c)
  BY <1>7
<1>9. c = f
  BY <1>1, <1>6, <1>8, SameRounds
<1>10. BitsOf(limbs) = c[n]
  BY DEF BitsOf, Loop, Body, n
<1>. HIDE DEF c
<1>11. BitsOf(limbs) = f[n]
  BY <1>9, <1>10
<1>12. \A l \in 1..n : f[l - 1] \in Int /\ f[l] = f[l - 1] * Limb + limbs[l]
  BY <1>1, <1>6 DEF Body, S
<1>. QED BY <1>6, <1>11, <1>12 DEF BitsSteps, n

\* The value of a highest limb, and of the next ones, as bits and as a number.
High(limbs, signed) ==
  IF signed /\ limbs[1] >= Limb \div 2 THEN limbs[1] - Limb ELSE limbs[1]

LEMMA HighSigned ==
  ASSUME NEW k \in Nat, k # 0, NEW limbs \in [1..k -> Limbs]
  PROVE  /\ Signed(High(limbs, TRUE), limbs[1], Limb \div 2)
         /\ High(limbs, FALSE) = limbs[1] /\ limbs[1] \in 0..(Limb - 1)
<1>1. limbs[1] \in 0..(Limb - 1) /\ Limb \div 2 \in Nat /\ Limb = 2 * (Limb \div 2)
  BY LimbFacts
<1>2. High(limbs, TRUE) = IF limbs[1] >= Limb \div 2 THEN limbs[1] - Limb ELSE limbs[1]
  BY Zenon DEF High
<1>3. High(limbs, FALSE) = limbs[1]
  BY Zenon DEF High
<1>4. Signed(High(limbs, TRUE), limbs[1], Limb \div 2)
  <2>. DEFINE h == Limb \div 2
              v == High(limbs, TRUE)
              l == limbs[1]
  <2>1. h \in Nat /\ Limb = 2 * h /\ l \in 0..(Limb - 1)
    BY <1>1
  <2>2. v = IF l >= h THEN l - Limb ELSE l
    BY <1>2
  <2>. HIDE DEF h, v, l
  <2>3. Signed(v, l, h)
    BY <2>1, <2>2, HalfSigned
  <2>. QED BY <2>3 DEF h, v, l
<1>. QED BY <1>1, <1>3, <1>4

\* v is the number that bits stand for in a type of that size.
TwosComplement(v, bits, size) == \E h : Signed(v, bits, h) /\ size = 2 * h

LEMMA TwoLimbs ==
  ASSUME NEW limbs \in [1..2 -> Limbs], NEW size, SizeSteps(size, 2),
         NEW bits, BitsSteps(bits, limbs, 2)
  PROVE  /\ WideToInt(limbs, FALSE) = bits
         /\ TwosComplement(WideToInt(limbs, TRUE), bits, size)
<1>. DEFINE k == 2
<1>1. /\ Len(limbs) = 2 /\ \A l \in 1..2 : limbs[l] \in 0..(Limb - 1)
      /\ Limb \in Nat /\ Limb \div 2 \in Nat /\ Limb = 2 * (Limb \div 2)
  <2>1. k \in Nat /\ limbs \in [1..k -> Limbs]
    OBVIOUS
  <2>. HIDE DEF k
  <2>2. /\ Len(limbs) = k /\ \A l \in 1..k : limbs[l] \in 0..(Limb - 1)
        /\ Limb \in Nat /\ Limb \div 2 \in Nat /\ Limb = 2 * (Limb \div 2)
    BY <2>1, LimbFacts
  <2>. QED BY <2>2 DEF k
<1>2. bits = limbs[1] * Limb + limbs[2]
  <2>1. PICK f : /\ f[0] = 0 /\ bits = f[2]
                 /\ \A l \in 1..2 : f[l - 1] \in Int /\ f[l] = f[l - 1] * Limb + limbs[l]
    BY DEF BitsSteps
  <2>2. f[1] = 0 * Limb + limbs[1] /\ f[2] = f[1] * Limb + limbs[2]
    BY <2>1
  <2>3. f[1] = limbs[1]
    BY <1>1, <2>2
  <2>. QED BY <2>1, <2>2, <2>3
<1>3. size = 2 * ((Limb \div 2) * Limb)
  <2>1. PICK f : /\ f[0] = 1 /\ size = f[2]
                 /\ \A l \in 1..2 : f[l - 1] \in Int /\ f[l] = f[l - 1] * Limb
    BY DEF SizeSteps
  <2>2. f[1] = 1 * Limb /\ f[2] = f[1] * Limb
    BY <2>1
  <2>3. f[1] = 2 * (Limb \div 2)
    BY <1>1, <2>2
  <2>4. \A h \in Nat : (2 * h) * Limb = 2 * (h * Limb)
    BY <1>1
  <2>. QED BY <1>1, <2>1, <2>2, <2>3, <2>4
<1>4. \A signed \in BOOLEAN : WideToInt(limbs, signed) = High(limbs, signed) * Limb + limbs[2]
  BY <1>1, Zenon DEF WideToInt, FromLimbs, High
<1>5. Signed(High(limbs, TRUE), limbs[1], Limb \div 2) /\ High(limbs, FALSE) = limbs[1]
  <2>1. k \in Nat /\ k # 0 /\ limbs \in [1..k -> Limbs]
    OBVIOUS
  <2>. HIDE DEF k
  <2>. QED BY <2>1, HighSigned
<1>6. limbs[2] \in 0..(Limb - 1)
  BY <1>1
<1>7. Signed(High(limbs, TRUE) * Limb + limbs[2], limbs[1] * Limb + limbs[2], (Limb \div 2) * Limb)
  BY <1>1, <1>5, <1>6, SignedStep
<1>. QED BY <1>2, <1>3, <1>4, <1>5, <1>7 DEF TwosComplement

LEMMA FourLimbs ==
  ASSUME NEW limbs \in [1..4 -> Limbs], NEW size, SizeSteps(size, 4),
         NEW bits, BitsSteps(bits, limbs, 4)
  PROVE  /\ WideToInt(limbs, FALSE) = bits
         /\ TwosComplement(WideToInt(limbs, TRUE), bits, size)
<1>. DEFINE U2 == limbs[1] * Limb + limbs[2]
            U3 == U2 * Limb + limbs[3]
            U4 == U3 * Limb + limbs[4]
            S2 == High(limbs, TRUE) * Limb + limbs[2]
            S3 == S2 * Limb + limbs[3]
            S4 == S3 * Limb + limbs[4]
            h2 == (Limb \div 2) * Limb
            h3 == h2 * Limb
            h4 == h3 * Limb
            k  == 4
<1>1. /\ Len(limbs) = 4 /\ \A l \in 1..4 : limbs[l] \in 0..(Limb - 1)
      /\ Limb \in Nat /\ Limb \div 2 \in Nat /\ Limb = 2 * (Limb \div 2)
  BY LimbFacts
<1>2. bits = U4
  <2>1. PICK f : /\ f[0] = 0 /\ bits = f[4]
                 /\ \A l \in 1..4 : f[l - 1] \in Int /\ f[l] = f[l - 1] * Limb + limbs[l]
    BY DEF BitsSteps
  <2>2. /\ f[1] = 0 * Limb + limbs[1] /\ f[2] = f[1] * Limb + limbs[2]
        /\ f[3] = f[2] * Limb + limbs[3] /\ f[4] = f[3] * Limb + limbs[4]
    BY <2>1
  <2>3. f[1] = limbs[1]
    BY <1>1, <2>2
  <2>. QED BY <2>1, <2>2, <2>3
<1>3. size = 2 * h4
  <2>1. PICK f : /\ f[0] = 1 /\ size = f[4]
                 /\ \A l \in 1..4 : f[l - 1] \in Int /\ f[l] = f[l - 1] * Limb
    BY DEF SizeSteps
  <2>2. f[1] = 1 * Limb /\ f[2] = f[1] * Limb /\ f[3] = f[2] * Limb /\ f[4] = f[3] * Limb
    BY <2>1
  <2>3. f[1] = 2 * (Limb \div 2)
    BY <1>1, <2>2
  <2>4. \A h \in Nat : (2 * h) * Limb = 2 * (h * Limb) /\ h * Limb \in Nat
    BY <1>1
  <2>5. h2 \in Nat /\ f[2] = 2 * h2
    BY <1>1, <2>2, <2>3, <2>4
  <2>. HIDE DEF h2
  <2>6. h3 \in Nat /\ f[3] = 2 * h3
    BY <2>2, <2>4, <2>5
  <2>. HIDE DEF h3
  <2>. QED BY <2>1, <2>2, <2>4, <2>6
<1>4. \A signed \in BOOLEAN :
        WideToInt(limbs, signed) =
          ((High(limbs, signed) * Limb + limbs[2]) * Limb + limbs[3]) * Limb + limbs[4]
  <2>1. Len(limbs) # 2
    BY <1>1
  <2>. QED BY <2>1, Zenon DEF WideToInt, FromLimbs, High
<1>5. Signed(High(limbs, TRUE), limbs[1], Limb \div 2) /\ High(limbs, FALSE) = limbs[1]
  <2>1. k \in Nat /\ k # 0 /\ limbs \in [1..k -> Limbs]
    OBVIOUS
  <2>. HIDE DEF k
  <2>. QED BY <2>1, HighSigned
<1>6. limbs[2] \in 0..(Limb - 1) /\ limbs[3] \in 0..(Limb - 1) /\ limbs[4] \in 0..(Limb - 1)
  BY <1>1
<1>7. Signed(S2, U2, h2)
  BY <1>1, <1>5, <1>6, SignedStep
<1>. HIDE DEF S2, U2, h2
<1>8. Signed(S3, U3, h3)
  BY <1>1, <1>6, <1>7, SignedStep
<1>. HIDE DEF S3, U3, h3
<1>9. Signed(S4, U4, h4)
  BY <1>1, <1>6, <1>8, SignedStep
<1>10. WideToInt(limbs, TRUE) = S4
  BY <1>4 DEF S4, S3, S2
<1>11. WideToInt(limbs, FALSE) = U4
  BY <1>4, <1>5 DEF U4, U3, U2
<1>. HIDE DEF S4, U4, h4
<1>. QED BY <1>2, <1>3, <1>9, <1>10, <1>11 DEF TwosComplement
-------------------------------------------------------------------------------
(* Arguments. *)

LEMMA ValueCases ==
  ASSUME NEW val
  PROVE  /\ val.t \in {"u128", "u256"} => Value(val) = WideToInt(val.limbs, FALSE)
         /\ val.t \in {"i128", "i256"} => Value(val) = WideToInt(val.limbs, TRUE)
<1>. DEFINE Unsigned == val.t \in {"u128", "u256"}
            Integer  == val.t \in {"i128", "i256"}
            None     == val.t \in Constants \cup {"vec", "map"}
            U == WideToInt(val.limbs, FALSE)
            I == WideToInt(val.limbs, TRUE)
            O == val.limbs[1]
<1>1. Value(val) = CASE Unsigned -> U [] Integer -> I [] None -> 0 [] OTHER -> O
  BY Zenon DEF Value
<1>2. ~(Unsigned /\ Integer) /\ ~(Unsigned /\ None) /\ ~(Integer /\ None)
  BY DEF Constants
<1>. HIDE DEF Unsigned, Integer, None, U, I, O
<1>3. (Unsigned => Value(val) = U) /\ (Integer => Value(val) = I)
  BY <1>1, <1>2, Zenon
<1>. QED BY <1>3 DEF Unsigned, Integer, U, I

\* A value that is decoded, and what it has inside.
LEMMA DecodedAs ==
  ASSUME NEW val \in Values, NEW d, d = ConvertScValToJSON[val]
  PROVE  /\ d.t = IF val.t = "symbol" THEN "string" ELSE val.t
         /\ d.value = Value(val)
         /\ DOMAIN d.items \subseteq DOMAIN val.items
         /\ val.t = "vec" => DOMAIN d.items = DOMAIN val.items
         /\ \A i \in DOMAIN d.items : d.items[i] = ConvertScValToJSON[val.items[i]]
<1>. DEFINE texts == [i \in DOMAIN val.items |-> Text[val.items[i]]]
            items == ItemsBy(ConvertScValToJSON, val)
            shown == Shown(val, texts)
<1>1. d = Assemble(val, items)
  BY ConvertIsAssemble
<1>2. \A i \in DOMAIN val.items : items[i] = ConvertScValToJSON[val.items[i]]
  BY DEF ItemsBy
<1>3. shown \subseteq DOMAIN val.items /\ (val.t = "vec" => shown = DOMAIN val.items)
  <2>. HIDE DEF texts
  <2>. QED BY DEF Shown
<1>. HIDE DEF items
<1>4. /\ d.t = IF val.t = "symbol" THEN "string" ELSE val.t
      /\ d.value = Value(val)
      /\ d.items = [i \in shown |-> items[i]]
  BY <1>1 DEF Assemble
<1>. HIDE DEF shown
<1>. QED BY <1>2, <1>3, <1>4

\* The arguments are decodings of the first ones, in order.
LEMMA ArgumentsDecoded ==
  ASSUME NEW args, Sequence(args), NEW a \in DOMAIN ExtractArguments(args)
  PROVE  a \in DOMAIN args /\ ExtractArguments(args)[a] = ConvertScValToJSON[args[a]]
<1>. DEFINE decoded == [i \in DOMAIN args |-> ConvertScValToJSON[args[i]]]
            errors  == {i \in DOMAIN args : Fails(args[i])}
            m == IF errors = {} THEN Len(args) ELSE Min(errors) - 1
<1>1. Len(args) \in Nat /\ DOMAIN args = 1..Len(args)
  BY DEF Sequence
<1>2. Sequence(decoded) /\ Len(decoded) = Len(args) /\ DOMAIN decoded = DOMAIN args
  <2>1. decoded = [i \in DOMAIN args |-> decoded[i]]
    OBVIOUS
  <2>. HIDE DEF decoded
  <2>. QED BY <2>1, SequenceLike DEF Sequence
<1>3. errors \subseteq 1..Len(args)
  BY <1>1
<1>4. ExtractArguments(args) = SubSeq(decoded, 1, m)
  BY DEF ExtractArguments
<1>5. \A i \in DOMAIN args : decoded[i] = ConvertScValToJSON[args[i]]
  OBVIOUS
<1>. HIDE DEF errors, decoded
<1>6. m \in 0..Len(args)
  <2>1. CASE errors = {}
    BY <1>1, <2>1
  <2>2. CASE errors # {}
    <3>1. Min(errors) \in errors
      <4>1. errors \subseteq Nat
        BY <1>1, <1>3
      <4>. QED BY <2>2, <4>1, LeastNumber
    <3>. DEFINE least == Min(errors)
    <3>2. m = least - 1 /\ least \in 1..Len(args)
      BY <1>3, <2>2, <3>1
    <3>. HIDE DEF least, m
    <3>. QED BY <1>1, <3>2
  <2>. QED BY <2>1, <2>2
<1>. HIDE DEF m
<1>7. decoded \in Seq(ToSet(decoded))
  BY <1>2 DEF Sequence
<1>8. /\ DOMAIN SubSeq(decoded, 1, m) = 1..m
      /\ \A i \in 1..m : SubSeq(decoded, 1, m)[i] = decoded[i]
  BY <1>1, <1>2, <1>6, <1>7
<1>. QED BY <1>1, <1>4, <1>5, <1>6, <1>8

\* The loops have no more than the limbs of a wide integer to go through.
LEMMA OneExact ==
  ASSUME NEW val \in Values
  PROVE  Exact(ConvertScValToJSON[val], val)
<1>. DEFINE d == ConvertScValToJSON[val]
            limbs == val.limbs
            size == SizeOf(limbs)
            bits == BitsOf(limbs)
<1>1. /\ d.t = IF val.t = "symbol" THEN "string" ELSE val.t
      /\ val.t = "vec" => DOMAIN d.items = DOMAIN val.items
      /\ val.t \in {"u128", "u256"} => d.value = WideToInt(limbs, FALSE)
      /\ val.t \in {"i128", "i256"} => d.value = WideToInt(limbs, TRUE)
  BY DecodedAs, ValueCases
<1>2. val \in Flat \/ val.t \in {"vec", "map"}
  BY NestingAssumption, LevelOf DEF Values
<1>3. /\ val.t \in {"u128", "i128"} => limbs \in [1..2 -> Limbs]
      /\ val.t \in {"u256", "i256"} => limbs \in [1..4 -> Limbs]
  <2>1. CASE val.t \in {"vec", "map"}
    BY <2>1
  <2>2. CASE val \in [t : Scalars, limbs : [1..1 -> Nat], items : {<<>>}]
    BY <2>2 DEF Scalars
  <2>3. CASE val \in [t : {"u128", "i128"}, limbs : [1..2 -> Limbs], items : {<<>>}]
    BY <2>3
  <2>4. CASE val \in [t : {"u256", "i256"}, limbs : [1..4 -> Limbs], items : {<<>>}]
    BY <2>4
  <2>. QED BY <1>2, <2>1, <2>2, <2>3, <2>4 DEF Flat
<1>. HIDE DEF d, limbs
<1>4. ASSUME val.t \in {"u128", "u256", "i128", "i256"}
      PROVE  /\ WideToInt(limbs, FALSE) = bits
             /\ TwosComplement(WideToInt(limbs, TRUE), bits, size)
  <2>1. ASSUME NEW k \in Nat, limbs \in [1..k -> Limbs]
        PROVE  Len(limbs) = k /\ SizeSteps(size, k) /\ BitsSteps(bits, limbs, k)
    <3>1. /\ Len(limbs) = k /\ \A l \in 1..k : limbs[l] \in 0..(Limb - 1)
          /\ Limb \in Nat
      BY <2>1, LimbFacts
    <3>. QED BY <3>1, SizeLoop, BitsLoop
  <2>. HIDE DEF size, bits
  <2>2. CASE limbs \in [1..2 -> Limbs]
    BY <2>1, <2>2, TwoLimbs
  <2>3. CASE limbs \in [1..4 -> Limbs]
    BY <2>1, <2>3, FourLimbs
  <2>. QED BY <1>3, <1>4, <2>2, <2>3
<1>. HIDE DEF size, bits
<1>5. ASSUME val.t \in {"i128", "i256"}
      PROVE  /\ -size <= 2 * d.value /\ 2 * d.value < size
             /\ d.value \in {bits, bits - size}
  <2>1. PICK h : Signed(WideToInt(limbs, TRUE), bits, h) /\ size = 2 * h
    <3>1. val.t \in {"u128", "u256", "i128", "i256"}
      BY <1>5
    <3>2. TwosComplement(WideToInt(limbs, TRUE), bits, size)
      BY <1>4, <3>1
    <3>. QED BY <3>2 DEF TwosComplement
  <2>. DEFINE v == d.value
  <2>2. v = WideToInt(limbs, TRUE)
    BY <1>1, <1>5
  <2>. HIDE DEF v
  <2>3. /\ h \in Nat /\ bits \in Int /\ v \in Int /\ size = 2 * h
        /\ v \in {bits, bits - 2 * h} /\ -h <= v /\ v < h
    BY <2>1, <2>2 DEF Signed
  <2>4. -size <= 2 * v /\ 2 * v < size /\ v \in {bits, bits - size}
    BY <2>3
  <2>. QED BY <2>4 DEF v
<1>6. d.t \in {"u128", "u256", "i128", "i256"} => d.t = val.t
  BY <1>1
<1>7. /\ d.t \in {"u128", "u256"} => d.value = bits
      /\ d.t \in {"i128", "i256"} =>
           /\ -size <= 2 * d.value /\ 2 * d.value < size
           /\ d.value \in {bits, bits - size}
  BY <1>1, <1>4, <1>5, <1>6
<1>. QED BY <1>1, <1>7 DEF Exact, d, limbs, size, bits

\* What is decoded, with what it is decoded from.
Decoded == {<<ConvertScValToJSON[val], val>> : val \in Values}

LEMMA ItemsDecoded ==
  ASSUME NEW pairs \in SUBSET Decoded
  PROVE  ItemPairs(pairs) \in SUBSET Decoded
<1>1. ASSUME NEW p \in pairs, NEW i \in DOMAIN p[1].items
      PROVE  <<p[1].items[i], p[2].items[i]>> \in Decoded
  <2>1. PICK val \in Values : p = <<ConvertScValToJSON[val], val>>
    BY DEF Decoded
  <2>2. /\ i \in DOMAIN val.items
        /\ p[1].items[i] = ConvertScValToJSON[val.items[i]]
    BY <1>1, <2>1, DecodedAs
  <2>3. val.items[i] \in Values
    BY <2>2, ItemsValues
  <2>. QED BY <2>1, <2>2, <2>3 DEF Decoded
<1>. QED BY <1>1 DEF ItemPairs

LEMMA InsideLoop ==
  ASSUME NEW val \in Values, NEW depth \in Nat
  PROVE  Inside(ConvertScValToJSON[val], val, depth) \subseteq Decoded
<1>. DEFINE start == {<<ConvertScValToJSON[val], val>>}
            S == SUBSET Decoded
            round == [n \in 1..depth |-> [pairs \in S |-> ItemPairs(pairs)]]
            Rec(g) == g = [n \in 0..depth |-> IF n = 0 THEN start ELSE ItemPairs(g[n - 1])]
            c == CHOOSE g : Rec(g)
<1>1. start \in S
  BY DEF Decoded
<1>2. \A pairs \in S : ItemPairs(pairs) \in S
  BY ItemsDecoded
<1>3. Inside(ConvertScValToJSON[val], val, depth) = c[depth]
  BY DEF Inside, Loop
<1>. HIDE DEF S, start
<1>4. Rounds(round, depth, S)
  BY <1>2 DEF Rounds
<1>5. \A n \in 1..depth, pairs \in S : round[n][pairs] = ItemPairs(pairs)
  OBVIOUS
<1>. HIDE DEF round
<1>6. PICK f : Iterates(f, round, depth, start, S)
  BY <1>1, <1>4, IteratesExist
<1>7. f \in [0..depth -> S] /\ f[0] = start /\ \A n \in 1..depth : f[n] = ItemPairs(f[n - 1])
  BY <1>1, <1>5, <1>6 DEF Iterates
<1>8. Rec(f)
  BY <1>7
<1>9. Rec(c)
  BY <1>8
<1>10. c = f
  BY <1>7, <1>9, SameRounds
<1>. HIDE DEF c
<1>. QED BY <1>3, <1>7, <1>10 DEF S

LEMMA InsideExact ==
  ASSUME NEW val \in Values, NEW depth \in Nat,
         NEW p \in Inside(ConvertScValToJSON[val], val, depth)
  PROVE  Exact(p[1], p[2])
<1>1. PICK v \in Values : p = <<ConvertScValToJSON[v], v>>
  BY InsideLoop DEF Decoded
<1>. QED BY <1>1, OneExact

\* Every invocation that was found has the arguments of its operation.
LEMMA AgreeArguments == AgreeInv => ArgumentsExact
<1>. SUFFICES ASSUME AgreeInv PROVE ArgumentsExact
  OBVIOUS
<1>1. LedgerRead /\ InvocationsRead
  BY DEF AgreeInv, EventsInv
<1>2. ASSUME NEW i \in DOMAIN invocations,
             NEW a \in DOMAIN invocations[i].arguments, NEW depth \in 0..MaxNesting,
             NEW p \in Inside(invocations[i].arguments[a],
                              ledger[invocations[i].hash].ops[invocations[i].op + 1].args[a],
                              depth)
      PROVE  Exact(p[1], p[2])
  <2>. DEFINE inv == invocations[i]
  <2>1. PICK n \in DOMAIN ledger : InvocationOf(inv, ledger[n], n)
    BY <1>1 DEF InvocationsRead
  <2>2. PICK t \in Txs : ReadOf(ledger[n], t, n)
    BY <1>1 DEF LedgerRead
  <2>. DEFINE op == ledger[n].ops[1]
  <2>3. inv = ProcessContractInvocation(ledger[n], n, op, 0)
    BY <2>1 DEF InvocationOf
  <2>4. /\ inv.hash = ledger[n].hash /\ inv.op = 0
        /\ inv.arguments = IF op.kind = "call" THEN ExtractArguments(op.args) ELSE <<>>
    BY <2>3 DEF ProcessContractInvocation
  <2>5. inv.hash = n
    BY <2>2, <2>4 DEF ReadOf
  <2>6. op.args \in Seq(Values)
    <3>1. DOMAIN ledger[n].ops = {1}
      BY <2>1 DEF InvocationOf
    <3>2. 1 \in DOMAIN t.ops /\ op.args = t.ops[1].args
      BY <2>2, <3>1 DEF ReadOf
    <3>3. t.ops[1] \in Operation
      BY <3>2, TxsTyped
    <3>. QED BY <3>2, <3>3 DEF Operation
  <2>7. inv.arguments = ExtractArguments(op.args)
    <3>1. inv.arguments # <<>>
      BY <1>2
    <3>. QED BY <2>4, <3>1
  <2>8. ledger[inv.hash].ops[inv.op + 1].args = op.args
    BY <2>4, <2>5
  <2>. DEFINE args == op.args
  <2>. HIDE DEF args, inv
  <2>9. a \in DOMAIN args /\ inv.arguments[a] = ConvertScValToJSON[args[a]]
    <3>1. Sequence(args)
      BY <2>6, SequenceOf DEF args
    <3>2. a \in DOMAIN ExtractArguments(args)
      BY <1>2, <2>7 DEF args, inv
    <3>. QED BY <2>7, <3>1, <3>2, ArgumentsDecoded DEF args
  <2>10. args[a] \in Values
    BY <2>6, <2>9 DEF args
  <2>11. p \in Inside(ConvertScValToJSON[args[a]], args[a], depth)
    BY <1>2, <2>8, <2>9 DEF args, inv
  <2>. QED BY <2>10, <2>11, InsideExact
<1>. QED BY <1>2 DEF ArgumentsExact

\* A wide integer anywhere in an argument of an invocation, at whatever depth of its
\* vectors and maps, is decoded to the number that its bits stand for, whatever the
\* size of a limb; no item of a vector is lost, and every argument that is decoded
\* keeps its place and its type (helpers.go:33-59, 204-252, 323-393).
THEOREM ArgumentsExactTheorem == Spec => []ArgumentsExact
BY AgreeArguments, AgreeInvariant, PTL

-------------------------------------------------------------------------------
(* Paths into a tree, and the order of a walk. *)

Path == Seq(Nat)

\* q is the path p in the i-th tree below.
Under(q, i, p) ==
  /\ q \in Path /\ Len(q) = Len(p) + 1 /\ q[1] = i
  /\ \A k \in 1..Len(p) : q[k + 1] = p[k]

LEMMA UnderIs ==
  ASSUME NEW i \in Nat, NEW p \in Path
  PROVE  Under(<<i>> \o p, i, p)
<1>. DEFINE q == <<i>> \o p
<1>1. <<i>> \in Path /\ Len(<<i>>) = 1 /\ <<i>>[1] = i /\ Len(p) \in Nat
  BY DEF Path
<1>2. /\ q \in Path /\ Len(q) = 1 + Len(p)
      /\ \A k \in 1..(1 + Len(p)) : q[k] = IF k <= 1 THEN <<i>>[k] ELSE p[k - 1]
  BY <1>1, ConcatProperties DEF Path
<1>. HIDE DEF q
<1>3. q[1] = i
  BY <1>1, <1>2
<1>4. ASSUME NEW k \in 1..Len(p) PROVE q[k + 1] = p[k]
  <2>1. k + 1 \in 1..(1 + Len(p)) /\ ~(k + 1 <= 1) /\ k + 1 - 1 = k
    BY <1>1
  <2>. QED BY <1>2, <2>1
<1>5. Under(q, i, p)
  BY <1>1, <1>2, <1>3, <1>4 DEF Under
<1>. QED BY <1>5 DEF q

LEMMA UnderSame ==
  ASSUME NEW i \in Nat, NEW p \in Path, NEW q \in Path, <<i>> \o p = <<i>> \o q
  PROVE  p = q
<1>. DEFINE r == <<i>> \o p
<1>1. Under(r, i, p) /\ Under(r, i, q)
  BY UnderIs
<1>. HIDE DEF r
<1>2. Len(p) \in Nat /\ Len(q) \in Nat
  BY DEF Path
<1>3. Len(p) = Len(q) /\ \A k \in 1..Len(p) : p[k] = q[k]
  BY <1>1, <1>2 DEF Under
<1>. QED BY <1>3, SeqEqual DEF Path

\* What comes before the end of a path that leads into the i-th tree.
LEMMA FrontUnder ==
  ASSUME NEW i \in Nat, NEW p \in Path
  PROVE  Front(<<i>> \o p) = IF p = <<>> THEN <<>> ELSE <<i>> \o Front(p)
<1>. DEFINE q == <<i>> \o p
            n == Len(p)
<1>1. Under(q, i, p) /\ n \in Nat /\ p \in Seq(Nat)
  BY UnderIs DEF Path
<1>. HIDE DEF q
<1>2. q \in Seq(Nat) /\ Len(q) = n + 1 /\ q[1] = i /\ \A k \in 1..n : q[k + 1] = p[k]
  BY <1>1 DEF Under, Path
<1>3. Front(q) = SubSeq(q, 1, n)
  BY <1>1, <1>2 DEF Front
<1>4. CASE p = <<>>
  <2>1. n = 0
    BY <1>4
  <2>2. SubSeq(q, 1, 0) = <<>>
    BY <1>2
  <2>. QED BY <1>3, <1>4, <2>1, <2>2 DEF q
<1>5. CASE p # <<>>
  <2>1. n \in Nat \ {0} /\ n = Len(p)
    BY <1>1, <1>5
  <2>. HIDE DEF n
  <2>2. Front(p) = SubSeq(p, 1, n - 1)
    BY <2>1 DEF Front
  <2>. DEFINE f == Front(p)
              r == Front(q)
  <2>3. f \in Path /\ Len(f) = n - 1 /\ \A k \in 1..(n - 1) : f[k] = p[k]
    BY <1>1, <2>1, <2>2 DEF Path
  <2>4. r \in Path /\ Len(r) = n /\ \A k \in 1..n : r[k] = q[k]
    BY <1>2, <1>3, <2>1 DEF Path
  <2>. DEFINE s == <<i>> \o f
  <2>. HIDE DEF f, r
  <2>5. Under(s, i, f)
    BY <2>3, UnderIs
  <2>. HIDE DEF s
  <2>6. Len(s) = n /\ s \in Path /\ s[1] = i /\ \A k \in 1..(n - 1) : s[k + 1] = p[k]
    BY <2>1, <2>3, <2>5 DEF Under
  <2>7. ASSUME NEW k \in 1..n PROVE r[k] = s[k]
    <3>1. CASE k = 1
      BY <1>2, <2>1, <2>4, <2>6, <3>1
    <3>2. CASE k # 1
      <4>1. k - 1 \in 1..(n - 1) /\ k - 1 \in 1..n /\ k - 1 + 1 = k
        BY <2>1, <3>2
      <4>. QED BY <1>2, <2>1, <2>4, <2>6, <4>1
    <3>. QED BY <3>1, <3>2
  <2>8. r = s
    BY <2>4, <2>6, <2>7, SeqEqual DEF Path
  <2>. QED BY <1>5, <2>8 DEF r, s, f, q
<1>. QED BY <1>4, <1>5 DEF q

\* The paths part after n steps, where p ends or turns to the left.
Parts(p, q, n) ==
  /\ n \in Nat /\ n <= Len(p) /\ n < Len(q)
  /\ \A j \in 1..n : p[j] = q[j]
  /\ n = Len(p) \/ p[n + 1] < q[n + 1]

\* Of two paths one is before the other where they part, or where it ends.
LEMMA BeforeParts ==
  ASSUME NEW p \in Path, NEW q \in Path
  PROVE  Before(p, q) <=> \E n : Parts(p, q, n)
<1>1. /\ Len(p) \in Nat /\ Len(q) \in Nat /\ p \in Seq(Nat) /\ q \in Seq(Nat)
      /\ DOMAIN p = 1..Len(p) /\ DOMAIN q = 1..Len(q)
  BY DEF Path
<1>0. Len(p) \in Nat /\ Len(q) \in Nat
  BY <1>1
<1>2. ASSUME IsStrictPrefix(p, q) PROVE Parts(p, q, Len(p))
  <2>1. Len(p) <= Len(q) /\ SubSeq(p, 1, Len(p)) = SubSeq(q, 1, Len(p)) /\ p # q
    BY <1>2 DEF IsStrictPrefix, IsPrefix
  <2>2. \A j \in 1..Len(p) : p[j] = SubSeq(p, 1, Len(p))[j]
    BY <1>1
  <2>3. \A j \in 1..Len(p) : q[j] = SubSeq(q, 1, Len(p))[j]
    BY <1>1, <2>1
  <2>4. \A j \in 1..Len(p) : p[j] = q[j]
    BY <2>1, <2>2, <2>3
  <2>5. Len(p) # Len(q)
    BY <1>1, <2>1, <2>4, SeqEqual
  <2>. DEFINE m == Len(p)
  <2>6. m \in Nat /\ m = Len(p) /\ m <= Len(p) /\ m < Len(q)
    BY <1>0, <2>1, <2>5
  <2>7. \A j \in 1..m : p[j] = q[j]
    BY <2>4
  <2>. HIDE DEF m
  <2>8. Parts(p, q, m)
    BY <2>6, <2>7, Zenon DEF Parts
  <2>. QED BY <2>8 DEF m
<1>3. ASSUME NEW n, Parts(p, q, n), n = Len(p) PROVE IsStrictPrefix(p, q)
  <2>1. Len(p) < Len(q) /\ \A j \in 1..Len(p) : p[j] = q[j]
    BY <1>3 DEF Parts
  <2>. DEFINE a == SubSeq(p, 1, Len(p))
              b == SubSeq(q, 1, Len(p))
  <2>2. a \in Seq(Nat) /\ Len(a) = Len(p) /\ \A j \in 1..Len(p) : a[j] = p[j]
    BY <1>1
  <2>3. b \in Seq(Nat) /\ Len(b) = Len(p) /\ \A j \in 1..Len(p) : b[j] = q[j]
    BY <1>1, <2>1
  <2>. HIDE DEF a, b
  <2>4. a = b
    BY <2>1, <2>2, <2>3, SeqEqual
  <2>5. p # q /\ Len(p) <= Len(q)
    BY <1>1, <2>1
  <2>. QED BY <2>4, <2>5 DEF IsStrictPrefix, IsPrefix, a, b
<1>4. ASSUME NEW i \in DOMAIN p \cap DOMAIN q, p[i] < q[i], \A j \in 1..(i - 1) : p[j] = q[j]
      PROVE  Parts(p, q, i - 1)
  <2>1. i \in 1..Len(p) /\ i \in 1..Len(q) /\ i - 1 + 1 = i /\ i - 1 \in Nat
    BY <1>1, <1>4
  <2>. QED BY <1>1, <1>4, <2>1 DEF Parts
<1>5. ASSUME NEW n, Parts(p, q, n), n # Len(p)
      PROVE  \E i \in DOMAIN p \cap DOMAIN q : p[i] < q[i] /\ \A j \in 1..(i - 1) : p[j] = q[j]
  <2>. DEFINE i == n + 1
  <2>1. n \in Nat /\ n <= Len(p) /\ n < Len(q)
    BY <1>5 DEF Parts
  <2>2. p[i] < q[i] /\ \A j \in 1..n : p[j] = q[j]
    BY <1>5, Zenon DEF Parts
  <2>3. i \in 1..Len(p) /\ i \in 1..Len(q) /\ i - 1 = n
    BY <1>0, <1>5, <2>1
  <2>. HIDE DEF i
  <2>. QED BY <1>1, <2>2, <2>3
<1>. QED BY <1>2, <1>3, <1>4, <1>5 DEF Before

\* A path is not before one that is before it, nor before itself.
LEMMA BeforeOneWay ==
  ASSUME NEW p \in Path, NEW q \in Path, Before(p, q)
  PROVE  ~Before(q, p)
<1>1. SUFFICES ASSUME Before(q, p) PROVE FALSE
  OBVIOUS
<1>2. Len(p) \in Nat /\ Len(q) \in Nat /\ p \in Seq(Nat) /\ q \in Seq(Nat)
  BY DEF Path
<1>3. PICK n : Parts(p, q, n)
  BY BeforeParts
<1>4. PICK m : Parts(q, p, m)
  BY <1>1, BeforeParts
<1>5. /\ n \in Nat /\ n <= Len(p) /\ n < Len(q) /\ m \in Nat /\ m <= Len(q) /\ m < Len(p)
      /\ \A j \in 1..n : p[j] = q[j]
      /\ \A j \in 1..m : p[j] = q[j]
      /\ n = Len(p) \/ p[n + 1] < q[n + 1]
      /\ m = Len(q) \/ q[m + 1] < p[m + 1]
  BY <1>3, <1>4 DEF Parts
<1>6. ASSUME n < Len(p) PROVE p[n + 1] \in Nat /\ q[n + 1] \in Nat
  <2>1. n + 1 \in 1..Len(p) /\ n + 1 \in 1..Len(q)
    BY <1>2, <1>5, <1>6
  <2>. QED BY <1>2, <2>1
<1>7. ASSUME m < Len(q) PROVE p[m + 1] \in Nat /\ q[m + 1] \in Nat
  <2>1. m + 1 \in 1..Len(p) /\ m + 1 \in 1..Len(q)
    BY <1>2, <1>5, <1>7
  <2>. QED BY <1>2, <2>1
<1>8. CASE n < m
  <2>1. n + 1 \in 1..m /\ n # Len(p)
    BY <1>2, <1>5, <1>8
  <2>. QED BY <1>2, <1>5, <1>6, <2>1
<1>9. CASE m < n
  <2>1. m + 1 \in 1..n /\ m # Len(q)
    BY <1>2, <1>5, <1>9
  <2>. QED BY <1>2, <1>5, <1>7, <2>1
<1>10. CASE m = n
  BY <1>2, <1>5, <1>6, <1>10
<1>. QED BY <1>5, <1>8, <1>9, <1>10

\* The order of paths is kept when they lead into the same tree.
LEMMA BeforeUnder ==
  ASSUME NEW i \in Nat, NEW p \in Path, NEW q \in Path, Before(p, q)
  PROVE  Before(<<i>> \o p, <<i>> \o q)
<1>. DEFINE a == <<i>> \o p
            b == <<i>> \o q
<1>1. Under(a, i, p) /\ Under(b, i, q) /\ Len(p) \in Nat /\ Len(q) \in Nat
  BY UnderIs DEF Path
<1>. HIDE DEF a, b
<1>2. PICK n : Parts(p, q, n)
  BY BeforeParts
<1>3. /\ n \in Nat /\ n <= Len(p) /\ n < Len(q)
      /\ \A j \in 1..n : p[j] = q[j]
      /\ n = Len(p) \/ p[n + 1] < q[n + 1]
  BY <1>2 DEF Parts
<1>4. /\ a \in Path /\ Len(a) = Len(p) + 1 /\ a[1] = i /\ \A k \in 1..Len(p) : a[k + 1] = p[k]
      /\ b \in Path /\ Len(b) = Len(q) + 1 /\ b[1] = i /\ \A k \in 1..Len(q) : b[k + 1] = q[k]
  BY <1>1 DEF Under
<1>5. ASSUME NEW j \in 1..(n + 1) PROVE a[j] = b[j]
  <2>1. CASE j = 1
    BY <1>4, <2>1
  <2>2. CASE j # 1
    <3>1. j - 1 \in 1..n /\ j - 1 \in 1..Len(p) /\ j - 1 \in 1..Len(q) /\ j - 1 + 1 = j
      BY <1>1, <1>3, <2>2
    <3>. QED BY <1>3, <1>4, <3>1
  <2>. QED BY <2>1, <2>2
<1>6. ASSUME n # Len(p) PROVE a[n + 1 + 1] < b[n + 1 + 1]
  <2>1. n + 1 \in 1..Len(p) /\ n + 1 \in 1..Len(q)
    BY <1>1, <1>3, <1>6
  <2>. QED BY <1>3, <1>4, <1>6, <2>1
<1>7. Parts(a, b, n + 1)
  BY <1>1, <1>3, <1>4, <1>5, <1>6 DEF Parts
<1>. QED BY <1>4, <1>7, BeforeParts DEF a, b

\* A node is walked before those below it, and the trees below it from the left.
LEMMA BeforeBelow ==
  ASSUME NEW i \in Nat, NEW p \in Path
  PROVE  Before(<<>>, <<i>> \o p)
<1>. DEFINE a == <<i>> \o p
<1>1. a \in Path /\ Len(a) = Len(p) + 1 /\ Len(p) \in Nat
  BY UnderIs DEF Under, Path
<1>2. <<>> \in Path /\ Len(<<>>) = 0
  BY DEF Path
<1>. HIDE DEF a
<1>3. Parts(<<>>, a, 0)
  BY <1>1, <1>2 DEF Parts
<1>. QED BY <1>1, <1>2, <1>3, BeforeParts DEF a

\* All paths into a tree are before those into one to its right.
LEMMA BeforeRight ==
  ASSUME NEW i \in Nat, NEW j \in Nat, i < j, NEW p \in Path, NEW q \in Path
  PROVE  Before(<<i>> \o p, <<j>> \o q)
<1>. DEFINE a == <<i>> \o p
            b == <<j>> \o q
<1>1. /\ a \in Path /\ Len(a) = Len(p) + 1 /\ Len(p) \in Nat /\ a[1] = i
      /\ b \in Path /\ Len(b) = Len(q) + 1 /\ Len(q) \in Nat /\ b[1] = j
  BY UnderIs DEF Under, Path
<1>. HIDE DEF a, b
<1>2. Parts(a, b, 0)
  BY <1>1 DEF Parts
<1>. QED BY <1>1, <1>2, BeforeParts DEF a, b

-------------------------------------------------------------------------------
(* Walks: the calls that are made along the paths of E, each the one that c    *)
(* has for its path, in their order.                                           *)

Walk(e, calls, E, c) ==
  /\ Sequence(calls) /\ E \subseteq Path
  /\ e \in [DOMAIN calls -> E]
  /\ \A p \in E : \E k \in DOMAIN calls : e[k] = p
  /\ \A j, k \in DOMAIN calls : j < k => Before(e[j], e[k])
  /\ \A k \in DOMAIN calls : calls[k] = c[e[k]]

Walked(calls, E, c) == \E e : Walk(e, calls, E, c)

AllBefore(D, E) == \A p \in D, q \in E : Before(p, q)

LEMMA NoWalk ==
  ASSUME NEW c
  PROVE  Walked(<<>>, {}, c)
<1>1. Sequence(<<>>) /\ DOMAIN <<>> = {}
  BY DEF Sequence
<1>2. Walk(<<>>, <<>>, {}, c)
  BY <1>1 DEF Walk
<1>. QED BY <1>2 DEF Walked

\* A single call is a walk of its path.
LEMMA OneWalk ==
  ASSUME NEW c, NEW p \in Path, NEW call, call = c[p]
  PROVE  Walked(<<call>>, {p}, c)
<1>1. Sequence(<<call>>) /\ DOMAIN <<call>> = {1}
  <2>1. <<call>> \in Seq({call}) /\ DOMAIN <<call>> = {1}
    OBVIOUS
  <2>. QED BY <2>1, SequenceOf
<1>. DEFINE e == [k \in {1} |-> p]
<1>2. Walk(e, <<call>>, {p}, c)
  BY <1>1 DEF Walk
<1>. HIDE DEF e
<1>. QED BY <1>2 DEF Walked

\* One walk after the other.
LEMMA JoinWalk ==
  ASSUME NEW c, NEW s, NEW t, NEW D, NEW E,
         Walked(s, D, c), Walked(t, E, c), AllBefore(D, E)
  PROVE  Walked(s \o t, D \cup E, c)
<1>1. PICK d : Walk(d, s, D, c)
  BY DEF Walked
<1>2. PICK e : Walk(e, t, E, c)
  BY DEF Walked
<1>. DEFINE m == Len(s)
            n == Len(t)
            g == [k \in 1..(m + n) |-> IF k <= m THEN d[k] ELSE e[k - m]]
            calls == s \o t
<1>3. /\ Sequence(calls) /\ m \in Nat /\ n \in Nat
      /\ DOMAIN s = 1..m /\ DOMAIN t = 1..n /\ DOMAIN calls = 1..(m + n)
      /\ \A k \in 1..m : calls[k] = s[k]
      /\ \A k \in (m + 1)..(m + n) : calls[k] = t[k - m]
  BY <1>1, <1>2, SequenceConcat DEF Walk
<1>. HIDE DEF m, n, calls
<1>4. /\ D \subseteq Path /\ d \in [1..m -> D]
      /\ \A p \in D : \E k \in 1..m : d[k] = p
      /\ \A j, k \in 1..m : j < k => Before(d[j], d[k])
      /\ \A k \in 1..m : s[k] = c[d[k]]
  BY <1>1, <1>3 DEF Walk
<1>5. /\ E \subseteq Path /\ e \in [1..n -> E]
      /\ \A p \in E : \E k \in 1..n : e[k] = p
      /\ \A j, k \in 1..n : j < k => Before(e[j], e[k])
      /\ \A k \in 1..n : t[k] = c[e[k]]
  BY <1>2, <1>3 DEF Walk
<1>6. \A k \in 1..(m + n) : \/ k \in 1..m /\ g[k] = d[k] /\ calls[k] = s[k]
                            \/ k - m \in 1..n /\ k > m /\ g[k] = e[k - m] /\ calls[k] = t[k - m]
  BY <1>3
<1>7. \A k \in 1..m : k \in 1..(m + n) /\ g[k] = d[k]
  BY <1>3
<1>8. \A k \in 1..n : k + m \in 1..(m + n) /\ g[k + m] = e[k]
  BY <1>3
<1>9. g = [k \in 1..(m + n) |-> g[k]]
  OBVIOUS
<1>. HIDE DEF g
<1>10. g \in [1..(m + n) -> D \cup E]
  BY <1>4, <1>5, <1>6, <1>9
<1>11. ASSUME NEW p \in D \cup E PROVE \E k \in 1..(m + n) : g[k] = p
  BY <1>4, <1>5, <1>7, <1>8
<1>12. ASSUME NEW j \in 1..(m + n), NEW k \in 1..(m + n), j < k PROVE Before(g[j], g[k])
  <2>1. CASE j \in 1..m /\ k \in 1..m
    BY <1>4, <1>7, <1>12, <2>1
  <2>2. CASE j \in 1..m /\ k - m \in 1..n /\ g[k] = e[k - m]
    <3>1. g[j] \in D /\ g[k] \in E
      BY <1>4, <1>5, <1>7, <2>2
    <3>. QED BY <3>1 DEF AllBefore
  <2>3. CASE /\ j - m \in 1..n /\ g[j] = e[j - m]
             /\ k - m \in 1..n /\ g[k] = e[k - m]
    <3>1. j - m < k - m
      BY <1>3, <1>12
    <3>. QED BY <1>5, <2>3, <3>1
  <2>4. k \in 1..m => j \in 1..m
    BY <1>3, <1>12
  <2>. QED BY <1>6, <2>1, <2>2, <2>3, <2>4
<1>13. ASSUME NEW k \in 1..(m + n) PROVE calls[k] = c[g[k]]
  BY <1>4, <1>5, <1>6
<1>14. D \cup E \subseteq Path
  BY <1>4, <1>5
<1>15. Walk(g, calls, D \cup E, c)
  BY <1>3, <1>10, <1>11, <1>12, <1>13, <1>14 DEF Walk
<1>. QED BY <1>15 DEF Walked, calls

\* The same walk in the i-th tree below.
PathsUnder(i, P) == {<<i>> \o p : p \in P}
MovedUnder(i, P, c, d) == \A p \in P : d[<<i>> \o p] = c[p]

\* A walk of a tree is one of the tree that it hangs from, under longer paths.
LEMMA UnderWalk ==
  ASSUME NEW c, NEW d, NEW calls, NEW E, Walked(calls, E, c), NEW i \in Nat,
         MovedUnder(i, E, c, d)
  PROVE  Walked(calls, PathsUnder(i, E), d)
<1>1. PICK e : Walk(e, calls, E, c)
  BY DEF Walked
<1>. DEFINE F == PathsUnder(i, E)
            g == [k \in DOMAIN calls |-> <<i>> \o e[k]]
<1>2. /\ Sequence(calls) /\ E \subseteq Path /\ e \in [DOMAIN calls -> E]
      /\ \A p \in E : \E k \in DOMAIN calls : e[k] = p
      /\ \A j, k \in DOMAIN calls : j < k => Before(e[j], e[k])
      /\ \A k \in DOMAIN calls : calls[k] = c[e[k]]
  BY <1>1 DEF Walk
<1>3. \A k \in DOMAIN calls : e[k] \in E /\ e[k] \in Path /\ g[k] = <<i>> \o e[k]
  BY <1>2
<1>4. g \in [DOMAIN calls -> F]
  BY <1>3 DEF PathsUnder
<1>5. F \subseteq Path
  <2>1. ASSUME NEW p \in E PROVE <<i>> \o p \in Path
    BY <1>2, UnderIs DEF Under
  <2>. QED BY <2>1 DEF PathsUnder
<1>. HIDE DEF g
<1>6. ASSUME NEW p \in F PROVE \E k \in DOMAIN calls : g[k] = p
  <2>1. PICK q \in E : p = <<i>> \o q
    BY <1>6 DEF PathsUnder
  <2>2. PICK k \in DOMAIN calls : e[k] = q
    BY <1>2
  <2>. QED BY <1>3, <2>1, <2>2
<1>7. ASSUME NEW j \in DOMAIN calls, NEW k \in DOMAIN calls, j < k
      PROVE  Before(g[j], g[k])
  <2>1. Before(e[j], e[k])
    BY <1>2, <1>7
  <2>. QED BY <1>3, <2>1, BeforeUnder
<1>8. ASSUME NEW k \in DOMAIN calls PROVE calls[k] = d[g[k]]
  BY <1>2, <1>3 DEF MovedUnder
<1>. HIDE DEF F
<1>9. Walk(g, calls, F, d)
  BY <1>2, <1>4, <1>5, <1>6, <1>7, <1>8 DEF Walk
<1>. QED BY <1>9 DEF Walked, F

-------------------------------------------------------------------------------
(* Walks of one tree after the other. *)

WalkedEach(parts, E, c) == \A i \in DOMAIN parts : Walked(parts[i], E[i], c)
OneAfterOther(E, n) == \A i, j \in 1..n : i < j => AllBefore(E[i], E[j])

\* Walks of trees that follow each other, joined, are a walk of all of them.
LEMMA FlattenWalk ==
  ASSUME NEW c, NEW parts, Sequence(parts), NEW E, WalkedEach(parts, E, c),
         NEW n, n = Len(parts), OneAfterOther(E, n)
  PROVE  Walked(FlattenSeq(parts), UNION {E[i] : i \in 1..n}, c)
<1>1. n \in Nat /\ DOMAIN parts = 1..n
  BY DEF Sequence
<1>. DEFINE T == UNION {ToSet(parts[i]) : i \in 1..n}
            To(k) == UNION {E[i] : i \in 1..k}
<1>2. parts \in Seq(Seq(T))
  <2>1. ASSUME NEW i \in 1..n PROVE parts[i] \in Seq(T)
    <3>1. Walked(parts[i], E[i], c)
      BY <1>1 DEF WalkedEach
    <3>2. Sequence(parts[i])
      BY <3>1 DEF Walked, Walk
    <3>3. ToSet(parts[i]) \subseteq T
      OBVIOUS
    <3>. HIDE DEF T
    <3>. QED BY <3>2, <3>3, SeqMonotonic DEF Sequence
  <2>. HIDE DEF T
  <2>2. parts = [i \in 1..n |-> parts[i]]
    BY <1>1 DEF Sequence
  <2>. QED BY <1>1, <2>1, <2>2, IsASeq
<1>. HIDE DEF T
<1>3. PICK f : Flattens(f, parts, T) /\ FlattenSeq(parts) = f[n]
  BY <1>2, FlattenLoop
<1>4. f[0] = <<>> /\ \A i \in 1..n : f[i] = f[i - 1] \o parts[i]
  BY <1>3 DEF Flattens
<1>. DEFINE R == {k \in 0..n : Walked(f[k], To(k), c)}
<1>5. 0 \in R
  <2>1. To(0) = {}
    OBVIOUS
  <2>. HIDE DEF To
  <2>2. Walked(f[0], To(0), c)
    BY <1>4, <2>1, NoWalk, Zenon
  <2>3. 0 \in 0..n
    BY <1>1
  <2>. QED BY <2>2, <2>3, Zenon
<1>6. ASSUME NEW k \in 0..(n - 1), k \in R PROVE k + 1 \in R
  <2>. DEFINE i == k + 1
  <2>1. i \in 1..n /\ i - 1 = k /\ k \in Nat /\ i \in 0..n /\ 1..i = 1..k \cup {i}
        /\ \A j \in 1..k : j \in 1..n /\ j < i
    BY <1>1
  <2>. HIDE DEF i
  <2>2. f[i] = f[k] \o parts[i]
    BY <1>4, <2>1, Zenon
  <2>3. Walked(parts[i], E[i], c)
    BY <1>1, <2>1 DEF WalkedEach
  <2>4. To(i) = To(k) \cup E[i]
    BY <2>1
  <2>5. AllBefore(To(k), E[i])
    <3>1. \A j \in 1..k : AllBefore(E[j], E[i])
      BY <2>1 DEF OneAfterOther
    <3>. QED BY <3>1 DEF AllBefore
  <2>. HIDE DEF To
  <2>6. Walked(f[k], To(k), c)
    BY <1>6
  <2>7. Walked(f[i], To(i), c)
    BY <2>2, <2>3, <2>4, <2>5, <2>6, JoinWalk
  <2>8. i \in R
    BY <2>1, <2>7, Zenon
  <2>. QED BY <2>8 DEF i
<1>. HIDE DEF R
<1>7. n \in R
  BY <1>1, <1>5, <1>6, BoundedInduction
<1>8. Walked(f[n], To(n), c)
  BY <1>7 DEF R
<1>. QED BY <1>3, <1>8

\* A walk makes one call for each path; the k-th has k - 1 paths before its own.
WalkCounts(e, calls, E) ==
  /\ Cardinality(E) = Len(calls)
  /\ \A k \in DOMAIN calls : Cardinality({q \in E : Before(q, e[k])}) = k - 1

\* A walk has one call for each path, and each has its place by the paths before.
LEMMA WalkOrder ==
  ASSUME NEW e, NEW calls, NEW E, NEW c, Walk(e, calls, E, c)
  PROVE  WalkCounts(e, calls, E)
<1>. DEFINE n == Len(calls)
<1>1. n \in Nat /\ DOMAIN calls = 1..n
  BY DEF Walk, Sequence
<1>. HIDE DEF n
<1>2. /\ E \subseteq Path /\ e \in [1..n -> E]
      /\ \A p \in E : \E k \in 1..n : e[k] = p
      /\ \A j, k \in 1..n : j < k => Before(e[j], e[k])
  BY <1>1 DEF Walk
<1>3. \A j, k \in 1..n : Before(e[j], e[k]) => j < k
  <2>1. SUFFICES ASSUME NEW j \in 1..n, NEW k \in 1..n, Before(e[j], e[k]), ~(j < k)
                 PROVE  FALSE
    OBVIOUS
  <2>2. e[j] \in Path /\ e[k] \in Path
    BY <1>2
  <2>3. ~Before(e[k], e[j])
    BY <2>1, <2>2, BeforeOneWay
  <2>4. ~(k < j)
    BY <1>2, <2>3
  <2>5. j = k
    BY <1>1, <2>1, <2>4
  <2>. QED BY <2>1, <2>3, <2>5
<1>4. \A j, k \in 1..n : e[j] = e[k] => j = k
  <2>1. SUFFICES ASSUME NEW j \in 1..n, NEW k \in 1..n, e[j] = e[k], j # k PROVE FALSE
    OBVIOUS
  <2>2. j < k \/ k < j
    BY <1>1, <2>1
  <2>3. Before(e[j], e[k]) \/ Before(e[k], e[j])
    BY <1>2, <2>2
  <2>4. Before(e[j], e[k]) /\ Before(e[k], e[j])
    BY <2>1, <2>3
  <2>5. j < k /\ k < j
    BY <1>3, <2>4
  <2>. QED BY <1>1, <2>5
<1>5. ASSUME NEW m \in 0..n, NEW D, \A p : p \in D <=> \E j \in 1..m : p = e[j]
      PROVE  Cardinality(D) = m
  <2>. DEFINE g == [j \in 1..m |-> e[j]]
  <2>1. \A j \in 1..m : j \in 1..n /\ g[j] = e[j]
    BY <1>1
  <2>2. g \in [1..m -> D]
    BY <1>5
  <2>. HIDE DEF g
  <2>3. g \in Bijection(1..m, D)
    <3>1. \A j, k \in 1..m : g[j] = g[k] => j = k
      BY <1>4, <2>1
    <3>2. \A p \in D : \E j \in 1..m : g[j] = p
      BY <1>5, <2>1
    <3>. QED BY <2>2, <3>1, <3>2, Fun_IsBij
  <2>4. m \in Nat /\ IsFiniteSet(1..m) /\ Cardinality(1..m) = m
    BY <1>1, FS_Interval
  <2>5. ExistsBijection(1..m, D)
    BY <2>3 DEF ExistsBijection
  <2>. QED BY <2>4, <2>5, FS_Bijection
<1>6. Cardinality(E) = n
  <2>1. \A p : p \in E <=> \E j \in 1..n : p = e[j]
    BY <1>2
  <2>2. n \in 0..n
    BY <1>1
  <2>. QED BY <1>5, <2>1, <2>2
<1>7. ASSUME NEW k \in 1..n PROVE Cardinality({q \in E : Before(q, e[k])}) = k - 1
  <2>. DEFINE D == {q \in E : Before(q, e[k])}
  <2>1. ASSUME NEW p \in D PROVE \E j \in 1..(k - 1) : p = e[j]
    <3>1. PICK j \in 1..n : e[j] = p
      BY <1>2
    <3>2. j < k
      BY <1>3, <3>1
    <3>3. j \in 1..(k - 1)
      BY <1>1, <3>2
    <3>. QED BY <3>1, <3>3
  <2>2. ASSUME NEW j \in 1..(k - 1) PROVE e[j] \in D
    <3>1. j \in 1..n /\ j < k
      BY <1>1
    <3>. QED BY <1>2, <3>1
  <2>3. k - 1 \in 0..n
    BY <1>1
  <2>. HIDE DEF D
  <2>4. \A p : p \in D <=> \E j \in 1..(k - 1) : p = e[j]
    BY <2>1, <2>2
  <2>5. Cardinality(D) = k - 1
    BY <1>5, <2>3, <2>4
  <2>. QED BY <2>5 DEF D
<1>. QED BY <1>1, <1>6, <1>7 DEF WalkCounts, n

-------------------------------------------------------------------------------
(* The node at the end of a path. *)

NodeRounds(f, node, path) ==
  /\ f[0] = node
  /\ \A i \in 1..Len(path) : f[i] = f[i - 1].subs[path[i]]

\* NodeAt goes down one node for each element of a path.
LEMMA NodeLoop ==
  ASSUME NEW node, NEW path \in Path
  PROVE  \E f : NodeRounds(f, node, path) /\ NodeAt(node, path) = f[Len(path)]
<1>. DEFINE n == Len(path)
            Body(at, i) == at.subs[path[i]]
            Rec(g, m) == g = [i \in 0..m |-> IF i = 0 THEN node ELSE Body(g[i - 1], i)]
            R == {m \in 0..n : \E g : Rec(g, m)}
            c == CHOOSE g : Rec(g, n)
<1>1. n \in Nat
  BY DEF Path
<1>2. NodeAt(node, path) = c[n]
  BY DEF NodeAt, Loop
<1>. HIDE DEF n, Body
<1>3. 0 \in R
  <2>. DEFINE g == [i \in 0..0 |-> node]
  <2>1. Rec(g, 0) /\ 0 \in 0..n
    BY <1>1
  <2>. HIDE DEF g
  <2>. QED BY <2>1
<1>4. ASSUME NEW m \in 0..(n - 1), m \in R PROVE m + 1 \in R
  <2>1. PICK g : Rec(g, m)
    BY <1>4
  <2>. DEFINE h == [i \in 0..(m + 1) |-> IF i = m + 1 THEN Body(g[m], m + 1) ELSE g[i]]
              b == [i \in 0..(m + 1) |-> IF i = 0 THEN node ELSE Body(h[i - 1], i)]
  <2>2. \A i \in 0..m : g[i] = IF i = 0 THEN node ELSE Body(g[i - 1], i)
    BY <2>1
  <2>3. ASSUME NEW i \in 0..(m + 1) PROVE h[i] = b[i]
    <3>1. CASE i = 0
      BY <2>2, <3>1
    <3>2. CASE i = m + 1
      BY <3>2
    <3>3. CASE i \in 1..m
      BY <2>2, <3>3
    <3>. QED BY <3>1, <3>2, <3>3
  <2>4. h = b
    BY <2>3
  <2>5. Rec(h, m + 1) /\ m + 1 \in 0..n
    BY <1>1, <2>4
  <2>. HIDE DEF h
  <2>. QED BY <2>5
<1>. HIDE DEF R
<1>5. n \in R
  BY <1>1, <1>3, <1>4, BoundedInduction
<1>6. Rec(c, n)
  BY <1>5 DEF R
<1>. HIDE DEF c
<1>7. \A i \in 0..n : c[i] = IF i = 0 THEN node ELSE Body(c[i - 1], i)
  BY <1>6
<1>8. NodeRounds(c, node, path)
  BY <1>1, <1>7 DEF NodeRounds, n, Body
<1>. QED BY <1>2, <1>8 DEF n

LEMMA NodeRoot ==
  ASSUME NEW node
  PROVE  NodeAt(node, <<>>) = node
<1>1. <<>> \in Path /\ Len(<<>>) = 0
  BY DEF Path
<1>2. PICK f : NodeRounds(f, node, <<>>) /\ NodeAt(node, <<>>) = f[Len(<<>>)]
  BY <1>1, NodeLoop
<1>. QED BY <1>1, <1>2 DEF NodeRounds

\* The node is the one at the end of the rest of the path in the tree below.
LEMMA NodeUnder ==
  ASSUME NEW node, NEW i \in Nat, NEW p \in Path
  PROVE  NodeAt(node, <<i>> \o p) = NodeAt(node.subs[i], p)
<1>. DEFINE q == <<i>> \o p
            n == Len(p)
            below == node.subs[i]
<1>1. /\ q \in Path /\ Len(q) = n + 1 /\ q[1] = i /\ n \in Nat
      /\ \A k \in 1..n : q[k + 1] = p[k]
  BY UnderIs DEF Under, Path
<1>. HIDE DEF q
<1>2. PICK g : NodeRounds(g, node, q) /\ NodeAt(node, q) = g[Len(q)]
  BY <1>1, NodeLoop
<1>3. PICK f : NodeRounds(f, below, p) /\ NodeAt(below, p) = f[Len(p)]
  BY NodeLoop
<1>. HIDE DEF n
<1>. DEFINE h == [k \in 0..n |-> g[k + 1]]
<1>4. g[1] = below
  <2>1. 1 \in 1..Len(q) /\ 1 - 1 = 0
    BY <1>1
  <2>2. g[1] = g[1 - 1].subs[q[1]] /\ g[0] = node
    BY <1>2, <2>1, Zenon DEF NodeRounds
  <2>. QED BY <1>1, <2>1, <2>2
<1>. HIDE DEF below
<1>5. h[0] = f[0]
  BY <1>1, <1>3, <1>4 DEF NodeRounds
<1>6. ASSUME NEW k \in 1..n, h[k - 1] = f[k - 1] PROVE h[k] = f[k]
  <2>. DEFINE j == k + 1
  <2>1. j \in 1..Len(q) /\ j - 1 = k /\ k - 1 \in 0..n /\ k \in 0..n
    BY <1>1
  <2>2. h[k - 1] = g[k] /\ h[k] = g[j] /\ q[j] = p[k]
    BY <1>1, <2>1
  <2>. HIDE DEF j, h
  <2>3. g[j] = g[j - 1].subs[q[j]]
    BY <1>2, <2>1, Zenon DEF NodeRounds
  <2>4. f[k] = f[k - 1].subs[p[k]]
    BY <1>3, Zenon DEF NodeRounds, n
  <2>. QED BY <1>6, <2>1, <2>2, <2>3, <2>4
<1>7. h[n] = g[Len(q)]
  BY <1>1
<1>. HIDE DEF h
<1>8. h[n] = f[n]
  BY <1>1, <1>5, <1>6, SameEnd DEF SameSteps
<1>. QED BY <1>2, <1>3, <1>7, <1>8 DEF n, q, below

-------------------------------------------------------------------------------
(* The trees of calls, and the visits of their nodes. *)

CallsOver(S) == [to : Callers, subs : S]
SubsOf(n, S) == IF n = 0 THEN {<<>>} ELSE Seq(S)

CallLevelsOf(f, n) == f = [m \in 0..n |-> CallsOver(SubsOf(m, f[m - 1]))]

LEMMA CallLevelsExist ==
  ASSUME NEW n \in Nat
  PROVE  \E f : CallLevelsOf(f, n)
<1>. DEFINE R == {m \in 0..n : \E f : CallLevelsOf(f, m)}
<1>0. \A S, T : SubsOf(0, S) = SubsOf(0, T)
  BY DEF SubsOf
<1>1. 0 \in R
  <2>. DEFINE f == [m \in 0..0 |-> CallsOver(SubsOf(0, {}))]
              g == [m \in 0..0 |-> CallsOver(SubsOf(m, f[m - 1]))]
  <2>1. \A m \in 0..0 : f[m] = g[m]
    BY <1>0
  <2>2. f = g
    BY <2>1
  <2>3. CallLevelsOf(f, 0)
    BY <2>2 DEF CallLevelsOf
  <2>. HIDE DEF f
  <2>. QED BY <2>3
<1>2. ASSUME NEW m \in 0..(n - 1), m \in R PROVE m + 1 \in R
  <2>1. PICK f : CallLevelsOf(f, m)
    BY <1>2
  <2>. DEFINE g == [k \in 0..(m + 1) |-> IF k = m + 1 THEN CallsOver(SubsOf(k, f[m])) ELSE f[k]]
              h == [k \in 0..(m + 1) |-> CallsOver(SubsOf(k, g[k - 1]))]
  <2>2. \A k \in 0..m : f[k] = CallsOver(SubsOf(k, f[k - 1]))
    BY <2>1 DEF CallLevelsOf
  <2>3. ASSUME NEW k \in 0..(m + 1) PROVE g[k] = h[k]
    <3>1. CASE k = 0
      BY <1>0, <2>2, <3>1
    <3>2. CASE k = m + 1
      BY <3>2
    <3>3. CASE k \in 1..m
      BY <2>2, <3>3
    <3>. QED BY <3>1, <3>2, <3>3
  <2>4. g = h
    BY <2>3
  <2>5. CallLevelsOf(g, m + 1)
    BY <2>4 DEF CallLevelsOf
  <2>. HIDE DEF g
  <2>. QED BY <2>5
<1>. HIDE DEF R
<1>3. n \in R
  BY <1>1, <1>2, BoundedInduction
<1>. QED BY <1>3 DEF R

LEMMA CallLevels ==
  /\ NestedCalls[0] = CallsOver({<<>>})
  /\ \A n \in 1..MaxNesting : NestedCalls[n] = CallsOver(Seq(NestedCalls[n - 1]))
<1>. DEFINE Rec(f) == f = [n \in 0..MaxNesting |->
                       [to : Callers, subs : IF n = 0 THEN {<<>>} ELSE Seq(f[n - 1])]]
            c == CHOOSE f : Rec(f)
<1>1. PICK f : CallLevelsOf(f, MaxNesting)
  BY CallLevelsExist, NestingAssumption
<1>2. Rec(f)
  BY <1>1 DEF CallLevelsOf, CallsOver, SubsOf
<1>3. Rec(c)
  BY <1>2
<1>4. NestedCalls = c
  BY DEF NestedCalls
<1>5. \A n \in 0..MaxNesting : c[n] = CallsOver(SubsOf(n, c[n - 1]))
  BY <1>3 DEF CallsOver, SubsOf
<1>. HIDE DEF c
<1>6. \A S : SubsOf(0, S) = {<<>>}
  BY DEF SubsOf
<1>7. \A n \in 1..MaxNesting : \A S : SubsOf(n, S) = Seq(S)
  BY DEF SubsOf
<1>8. 0 \in 0..MaxNesting /\ \A n \in 1..MaxNesting : n \in 0..MaxNesting
  BY NestingAssumption
<1>. QED BY <1>4, <1>5, <1>6, <1>7, <1>8, Zenon

LEMMA CallsOverTyped ==
  ASSUME NEW S, NEW node \in CallsOver(S)
  PROVE  node.to \in Callers /\ node.subs \in S
BY DEF CallsOver

LEMMA CallsOverMore ==
  ASSUME NEW S, NEW T, S \subseteq T
  PROVE  CallsOver(S) \subseteq CallsOver(T)
BY DEF CallsOver

Subs == [node \in UNION {NestedCalls[n] : n \in 0..MaxNesting} |-> node.subs]

\* The trees of calls have levels.
LEMMA CallTrees ==
  TreeLevels(NestedCalls, MaxNesting, Subs)
<1>1. MaxNesting \in Nat
  BY NestingAssumption
<1>2. \A n \in 0..MaxNesting : \A node \in NestedCalls[n] : Subs[node] = node.subs
  BY DEF Subs
<1>3. ASSUME NEW node \in NestedCalls[0] PROVE Subs[node] = <<>>
  <2>1. node \in CallsOver({<<>>})
    BY CallLevels
  <2>. QED BY <1>1, <1>2, <2>1, CallsOverTyped
<1>4. ASSUME NEW n \in 1..MaxNesting, NEW node \in NestedCalls[n]
      PROVE  Subs[node] \in Seq(NestedCalls[n - 1])
  <2>1. node \in CallsOver(Seq(NestedCalls[n - 1]))
    BY CallLevels
  <2>2. node.subs \in Seq(NestedCalls[n - 1])
    BY <2>1, CallsOverTyped
  <2>3. n \in 0..MaxNesting
    BY <1>1
  <2>4. Subs[node] = node.subs
    BY <1>2, <2>3
  <2>. QED BY <2>2, <2>4
<1>. DEFINE R == {n \in Nat : n < MaxNesting => NestedCalls[n] \subseteq NestedCalls[n + 1]}
<1>5. 0 \in R
  <2>1. SUFFICES ASSUME 0 < MaxNesting PROVE NestedCalls[0] \subseteq NestedCalls[1]
    BY <1>1
  <2>2. NestedCalls[1] = CallsOver(Seq(NestedCalls[0]))
    BY <1>1, <2>1, CallLevels
  <2>3. {<<>>} \subseteq Seq(NestedCalls[0])
    OBVIOUS
  <2>4. NestedCalls[0] = CallsOver({<<>>})
    BY CallLevels
  <2>5. CallsOver({<<>>}) \subseteq CallsOver(Seq(NestedCalls[0]))
    BY <2>3, CallsOverMore, Zenon
  <2>. QED BY <2>2, <2>4, <2>5
<1>6. ASSUME NEW m \in Nat, m \in R PROVE m + 1 \in R
  <2>1. SUFFICES ASSUME m + 1 < MaxNesting
                 PROVE  NestedCalls[m + 1] \subseteq NestedCalls[m + 2]
    BY <1>1
  <2>2. /\ NestedCalls[m + 1] = CallsOver(Seq(NestedCalls[m]))
        /\ NestedCalls[m + 2] = CallsOver(Seq(NestedCalls[m + 1]))
    BY <1>1, <2>1, CallLevels
  <2>3. NestedCalls[m] \subseteq NestedCalls[m + 1]
    BY <1>1, <1>6, <2>1
  <2>4. Seq(NestedCalls[m]) \subseteq Seq(NestedCalls[m + 1])
    BY <2>3, SeqMonotonic
  <2>. QED BY <2>2, <2>4, CallsOverMore
<1>. HIDE DEF R
<1>7. Nat \subseteq R
  BY <1>5, <1>6, SetInduction
<1>8. ASSUME NEW n \in 1..MaxNesting PROVE NestedCalls[n - 1] \subseteq NestedCalls[n]
  <2>1. n - 1 \in Nat /\ n - 1 < MaxNesting /\ n - 1 + 1 = n
    BY <1>1
  <2>2. n - 1 \in R
    BY <1>7, <2>1
  <2>. QED BY <2>1, <2>2 DEF R
<1>. QED BY <1>1, <1>3, <1>4, <1>8 DEF TreeLevels

\* Below a tree of calls are trees of calls.
LEMMA CallsTyped ==
  ASSUME NEW node \in Calls
  PROVE  /\ node.to \in Callers /\ node.subs \in Seq(Calls) /\ Subs[node] = node.subs
<1>1. MaxNesting \in Nat
  BY NestingAssumption
<1>2. node \in NestedCalls[MaxNesting] /\ Subs[node] = node.subs
  BY <1>1 DEF Calls, Subs
<1>3. CASE MaxNesting = 0
  <2>1. node \in CallsOver({<<>>})
    BY <1>2, <1>3, CallLevels
  <2>2. node.to \in Callers /\ node.subs = <<>>
    BY <2>1, CallsOverTyped
  <2>. QED BY <1>2, <2>2
<1>4. CASE MaxNesting # 0
  <2>1. MaxNesting - 1 \in 0..MaxNesting /\ MaxNesting \in 1..MaxNesting
    BY <1>1, <1>4
  <2>2. NestedCalls[MaxNesting - 1] \subseteq Calls
    BY <2>1, CallTrees, LevelBelow DEF Calls
  <2>3. Seq(NestedCalls[MaxNesting - 1]) \subseteq Seq(Calls)
    BY <2>2, SeqMonotonic
  <2>4. node \in CallsOver(Seq(NestedCalls[MaxNesting - 1]))
    BY <1>2, <2>1, CallLevels
  <2>5. node.to \in Callers /\ node.subs \in Seq(NestedCalls[MaxNesting - 1])
    BY <2>4, CallsOverTyped
  <2>. QED BY <1>2, <2>3, <2>5
<1>. QED BY <1>3, <1>4

VisitsOver(S) == [node : S, from : Callers, depth : Nat, authType : AuthTypes]
Visits        == [n \in 0..MaxNesting |-> VisitsOver(NestedCalls[n])]
SubVisits     == [at \in Visit |-> [i \in DOMAIN at.node.subs |-> Below(at, i)]]

LEMMA VisitsOverTyped ==
  ASSUME NEW S, NEW at \in VisitsOver(S)
  PROVE  at.node \in S /\ at.from \in Callers /\ at.depth \in Nat /\ at.authType \in AuthTypes
BY DEF VisitsOver

LEMMA VisitsOverMore ==
  ASSUME NEW S, NEW T, S \subseteq T
  PROVE  VisitsOver(S) \subseteq VisitsOver(T)
BY DEF VisitsOver

LEMMA BelowVisits ==
  ASSUME NEW S, NEW at, at.node.to \in Callers, at.depth \in Nat, at.authType \in AuthTypes,
         NEW i, at.node.subs[i] \in S
  PROVE  Below(at, i) \in VisitsOver(S)
BY DEF Below, VisitsOver

\* Visits have the levels of their nodes.
LEMMA VisitTrees ==
  Visits[MaxNesting] = Visit /\ TreeLevels(Visits, MaxNesting, SubVisits)
<1>1. MaxNesting \in Nat
  BY NestingAssumption
<1>2. /\ \A n \in 1..MaxNesting : NestedCalls[n - 1] \subseteq NestedCalls[n]
      /\ \A node \in NestedCalls[0] : Subs[node] = <<>>
      /\ \A n \in 1..MaxNesting : \A node \in NestedCalls[n] : Subs[node] \in Seq(NestedCalls[n - 1])
  BY CallTrees DEF TreeLevels
<1>3. \A n \in 0..MaxNesting : Visits[n] = VisitsOver(NestedCalls[n])
  BY DEF Visits
<1>4. Visit = VisitsOver(Calls)
  BY DEF Visit, VisitsOver
<1>5. Visits[MaxNesting] = Visit
  BY <1>1, <1>3, <1>4 DEF Calls
<1>6. ASSUME NEW n \in 0..MaxNesting, NEW at \in Visits[n]
      PROVE  /\ at \in Visit /\ at.node \in NestedCalls[n]
             /\ at.node.to \in Callers /\ at.depth \in Nat /\ at.authType \in AuthTypes
             /\ Subs[at.node] = at.node.subs
             /\ SubVisits[at] = [i \in DOMAIN at.node.subs |-> Below(at, i)]
  <2>1. at \in VisitsOver(NestedCalls[n])
    BY <1>3
  <2>2. NestedCalls[n] \subseteq Calls
    BY CallTrees, LevelBelow DEF Calls
  <2>3. /\ at.node \in NestedCalls[n] /\ at.depth \in Nat /\ at.authType \in AuthTypes
    BY <2>1, VisitsOverTyped
  <2>4. at \in Visit
    BY <1>4, <2>1, <2>2, VisitsOverMore
  <2>5. at.node.to \in Callers /\ Subs[at.node] = at.node.subs
    BY <2>2, <2>3, CallsTyped
  <2>6. SubVisits[at] = [i \in DOMAIN at.node.subs |-> Below(at, i)]
    BY <2>4 DEF SubVisits
  <2>. QED BY <2>3, <2>4, <2>5, <2>6
<1>7. ASSUME NEW at \in Visits[0] PROVE SubVisits[at] = <<>>
  <2>. DEFINE subs == at.node.subs
  <2>1. 0 \in 0..MaxNesting
    BY <1>1
  <2>2. subs = <<>> /\ SubVisits[at] = [i \in DOMAIN subs |-> Below(at, i)]
    BY <1>2, <1>6, <2>1
  <2>. HIDE DEF subs
  <2>. QED BY <2>2
<1>8. ASSUME NEW n \in 1..MaxNesting PROVE Visits[n - 1] \subseteq Visits[n]
  <2>1. n - 1 \in 0..MaxNesting /\ n \in 0..MaxNesting
    BY <1>1
  <2>2. NestedCalls[n - 1] \subseteq NestedCalls[n]
    BY <1>2
  <2>. QED BY <1>3, <2>1, <2>2, VisitsOverMore
<1>9. ASSUME NEW n \in 1..MaxNesting, NEW at \in Visits[n]
      PROVE  SubVisits[at] \in Seq(Visits[n - 1])
  <2>1. n - 1 \in 0..MaxNesting /\ n \in 0..MaxNesting
    BY <1>1
  <2>. DEFINE subs == at.node.subs
  <2>2. /\ at.node \in NestedCalls[n] /\ Subs[at.node] = subs
        /\ at.node.to \in Callers /\ at.depth \in Nat /\ at.authType \in AuthTypes
        /\ SubVisits[at] = [i \in DOMAIN subs |-> Below(at, i)]
    BY <1>6, <2>1
  <2>3. subs \in Seq(NestedCalls[n - 1])
    BY <1>2, <2>2
  <2>4. Len(subs) \in Nat /\ DOMAIN subs = 1..Len(subs)
    BY <2>3
  <2>5. ASSUME NEW i \in 1..Len(subs) PROVE Below(at, i) \in Visits[n - 1]
    <3>1. subs[i] \in NestedCalls[n - 1]
      BY <2>3, <2>4
    <3>2. Below(at, i) \in VisitsOver(NestedCalls[n - 1])
      BY <2>2, <3>1, BelowVisits
    <3>. QED BY <1>3, <2>1, <3>2
  <2>. HIDE DEF subs
  <2>6. SubVisits[at] = [i \in 1..Len(subs) |-> Below(at, i)]
    BY <2>2, <2>4
  <2>. QED BY <2>4, <2>5, <2>6, IsASeq
<1>. QED BY <1>1, <1>5, <1>7, <1>8, <1>9 DEF TreeLevels

-------------------------------------------------------------------------------
(* The paths into a tree, from those into the trees below it. *)

PathsOver(found) == {<<>>} \cup UNION {PathsUnder(i, found[i]) : i \in DOMAIN found}

LEMMA PathsOverTyped ==
  ASSUME NEW found \in Seq(SUBSET Path)
  PROVE  PathsOver(found) \in SUBSET Path
<1>1. ASSUME NEW i \in DOMAIN found, NEW p \in found[i] PROVE <<i>> \o p \in Path
  <2>1. i \in Nat /\ p \in Path
    BY <1>1
  <2>. QED BY <2>1, UnderIs DEF Under
<1>2. \A i \in DOMAIN found : PathsUnder(i, found[i]) \subseteq Path
  BY <1>1 DEF PathsUnder
<1>3. <<>> \in Path
  BY DEF Path
<1>. QED BY <1>2, <1>3 DEF PathsOver

\* What the definition of Paths says of any function.
PathsStep(g, node) ==
  {<<>>} \cup UNION {{<<i>> \o p : p \in g[node.subs[i]]} : i \in DOMAIN node.subs}

LEMMA PathsStepOf ==
  ASSUME NEW g, NEW node
  PROVE  PathsStep(g, node) = PathsOver(Of(g, node.subs))
<1>. DEFINE subs == node.subs
            found == Of(g, subs)
<1>1. DOMAIN found = DOMAIN subs /\ \A i \in DOMAIN subs : found[i] = g[subs[i]]
  BY DEF Of
<1>2. PathsStep(g, node) =
        {<<>>} \cup UNION {PathsUnder(i, g[subs[i]]) : i \in DOMAIN subs}
  BY DEF PathsStep, PathsUnder
<1>. HIDE DEF found, subs
<1>3. {PathsUnder(i, g[subs[i]]) : i \in DOMAIN subs}
        = {PathsUnder(i, found[i]) : i \in DOMAIN found}
  BY <1>1
<1>4. PathsStep(g, node) = PathsOver(found)
  BY <1>2, <1>3 DEF PathsOver
<1>. QED BY <1>4 DEF found, subs

\* Paths exists, and is what its definition says, for trees of any width.
LEMMA PathsAre ==
  \A node \in Calls : Paths[node] \subseteq Path /\ Paths[node] = PathsOver(Of(Paths, node.subs))
<1>. DEFINE T == SUBSET Path
            make == [x \in Calls \X Seq(T) |-> PathsOver(x[2])]
            Rec(g) == g = [node \in Calls |-> PathsStep(g, node)]
            c == CHOOSE g : Rec(g)
<1>1. make \in [Calls \X Seq(T) -> T]
  BY PathsOverTyped
<1>2. \A node \in Calls, found \in Seq(T) : make[<<node, found>>] = PathsOver(found)
  OBVIOUS
<1>. HIDE DEF make
<1>3. PICK f : Recursive(f, Calls, T, Subs, make)
  BY <1>1, CallTrees, RecursionExists DEF Calls
<1>4. f \in [Calls -> T] /\ \A node \in Calls : f[node] = make[<<node, Of(f, Subs[node])>>]
  BY <1>3 DEF Recursive
<1>5. ASSUME NEW g, NEW node \in Calls, \A i \in DOMAIN node.subs : g[node.subs[i]] \in T
      PROVE  Of(g, node.subs) \in Seq(T)
  <2>. DEFINE subs == node.subs
  <2>1. Len(subs) \in Nat /\ DOMAIN subs = 1..Len(subs)
    BY CallsTyped
  <2>. HIDE DEF subs, T
  <2>2. \A i \in 1..Len(subs) : g[subs[i]] \in T
    BY <1>5, <2>1 DEF subs
  <2>. QED BY <2>1, <2>2, IsASeq DEF Of, subs
<1>6. ASSUME NEW node \in Calls PROVE f[node] = PathsStep(f, node)
  <2>1. \A i \in DOMAIN node.subs : f[node.subs[i]] \in T
    <3>1. \A i \in DOMAIN node.subs : node.subs[i] \in Calls
      BY CallsTyped
    <3>. HIDE DEF T
    <3>. QED BY <1>4, <3>1
  <2>2. Of(f, node.subs) \in Seq(T)
    BY <1>5, <2>1
  <2>3. Subs[node] = node.subs
    BY CallsTyped
  <2>. QED BY <1>2, <1>4, <2>2, <2>3, PathsStepOf
<1>7. Rec(f)
  BY <1>4, <1>6
<1>8. Rec(c)
  BY <1>7
<1>9. Paths = c
  BY DEF Paths, PathsStep
<1>10. \A node \in Calls : c[node] = PathsStep(c, node)
  BY <1>8
<1>. HIDE DEF c
<1>11. \A node \in Calls : Paths[node] = PathsOver(Of(Paths, node.subs))
  BY <1>9, <1>10, PathsStepOf
<1>. DEFINE P == {node \in Calls : Paths[node] \in T}
<1>12. ASSUME NEW node \in Calls, \A i \in DOMAIN Subs[node] : Subs[node][i] \in P
       PROVE  node \in P
  <2>1. Subs[node] = node.subs
    BY CallsTyped
  <2>2. \A i \in DOMAIN node.subs : Paths[node.subs[i]] \in T
    BY <1>12, <2>1
  <2>3. Of(Paths, node.subs) \in Seq(T)
    BY <1>5, <2>2
  <2>. QED BY <1>11, <2>3, PathsOverTyped
<1>. HIDE DEF P
<1>13. Calls \subseteq P
  BY <1>12, CallTrees, TreeInduction DEF Calls
<1>. QED BY <1>11, <1>13 DEF P

-------------------------------------------------------------------------------
(* The calls of a visit, from those of the visits below. *)

CallMade == [from : Callers, to : Callers, depth : Nat, authType : AuthTypes, successful : BOOLEAN]

LEMMA OwnCallTyped ==
  ASSUME NEW at \in Visit
  PROVE  OwnCall(at) \in Seq(CallMade)
<1>1. /\ at.node \in Calls /\ at.from \in Callers /\ at.depth \in Nat /\ at.authType \in AuthTypes
  BY DEF Visit
<1>2. at.node.to \in Callers
  BY <1>1, CallsTyped
<1>. DEFINE call == [from |-> at.from, to |-> at.node.to, depth |-> at.depth,
                     authType |-> at.authType, successful |-> TRUE]
<1>3. call \in CallMade
  BY <1>1, <1>2 DEF CallMade
<1>4. OwnCall(at) = <<call>> \/ OwnCall(at) = <<>>
  BY DEF OwnCall
<1>. HIDE DEF call
<1>5. <<call>> \in Seq(CallMade) /\ <<>> \in Seq(CallMade)
  BY <1>3
<1>. QED BY <1>4, <1>5, Zenon

LEMMA FlattenTyped ==
  ASSUME NEW T, NEW parts \in Seq(Seq(T))
  PROVE  FlattenSeq(parts) \in Seq(T)
<1>1. PICK f : Flattens(f, parts, T) /\ FlattenSeq(parts) = f[Len(parts)]
  BY FlattenLoop
<1>. DEFINE n == Len(parts)
            S == Seq(T)
<1>2. n \in Nat
  OBVIOUS
<1>3. f \in [0..n -> S]
  BY <1>1 DEF Flattens
<1>4. n \in 0..n
  BY <1>2
<1>. HIDE DEF n, S
<1>5. f[n] \in S
  BY <1>3, <1>4
<1>. QED BY <1>1, <1>5 DEF n, S

VisitStep(g, at) ==
  OwnCall(at) \o FlattenSeq([i \in DOMAIN at.node.subs |-> g[Below(at, i)]])

LEMMA VisitStepOf ==
  ASSUME NEW g, NEW at \in Visit
  PROVE  VisitStep(g, at) = OwnCall(at) \o FlattenSeq(Of(g, SubVisits[at]))
<1>. DEFINE subs == at.node.subs
            visits == SubVisits[at]
<1>1. visits = [i \in DOMAIN subs |-> Below(at, i)]
  BY DEF SubVisits
<1>. HIDE DEF subs, visits
<1>2. Of(g, visits) = [i \in DOMAIN subs |-> g[Below(at, i)]]
  BY <1>1 DEF Of
<1>. QED BY <1>2 DEF VisitStep, subs, visits

LEMMA SubVisitsTyped ==
  ASSUME NEW at \in Visit
  PROVE  SubVisits[at] \in Seq(Visit) /\ DOMAIN SubVisits[at] = DOMAIN at.node.subs
<1>. DEFINE subs == at.node.subs
<1>1. at.node \in Calls /\ at.depth \in Nat /\ at.authType \in AuthTypes
  BY DEF Visit
<1>2. at.node.to \in Callers /\ subs \in Seq(Calls)
  BY <1>1, CallsTyped
<1>3. Len(subs) \in Nat /\ DOMAIN subs = 1..Len(subs)
  BY <1>2
<1>4. ASSUME NEW i \in 1..Len(subs) PROVE Below(at, i) \in Visit
  <2>1. subs[i] \in Calls
    BY <1>2, <1>3
  <2>2. Below(at, i) \in VisitsOver(Calls)
    BY <1>1, <1>2, <2>1, BelowVisits
  <2>. QED BY <2>2 DEF VisitsOver, Visit
<1>5. SubVisits[at] = [i \in DOMAIN subs |-> Below(at, i)]
  BY DEF SubVisits
<1>. HIDE DEF subs
<1>6. SubVisits[at] \in Seq(Visit)
  BY <1>3, <1>4, <1>5, IsASeq
<1>. QED BY <1>5, <1>6 DEF subs

\* The walk of the code exists, and is what its definition says.
LEMMA CallsAre ==
  \A at \in Visit : ProcessAuthorizationTree[at] =
    OwnCall(at) \o FlattenSeq(Of(ProcessAuthorizationTree, SubVisits[at]))
<1>. DEFINE T == Seq(CallMade)
            make == [x \in Visit \X Seq(T) |-> OwnCall(x[1]) \o FlattenSeq(x[2])]
            Rec(g) == g = [at \in Visit |-> VisitStep(g, at)]
            c == CHOOSE g : Rec(g)
<1>1. ASSUME NEW at \in Visit, NEW found \in Seq(T)
      PROVE  OwnCall(at) \o FlattenSeq(found) \in T
  BY OwnCallTyped, FlattenTyped, ConcatProperties
<1>. HIDE DEF T
<1>2. make \in [Visit \X Seq(T) -> T]
  BY <1>1
<1>3. \A at \in Visit, found \in Seq(T) :
        make[<<at, found>>] = OwnCall(at) \o FlattenSeq(found)
  OBVIOUS
<1>. HIDE DEF make
<1>4. Visits[MaxNesting] = Visit /\ TreeLevels(Visits, MaxNesting, SubVisits)
  BY VisitTrees
<1>5. PICK f : Recursive(f, Visit, T, SubVisits, make)
  <2>1. make \in [Visits[MaxNesting] \X Seq(T) -> T]
    BY <1>2, <1>4
  <2>2. \E f : Recursive(f, Visits[MaxNesting], T, SubVisits, make)
    BY <1>4, <2>1, RecursionExists
  <2>. QED BY <1>4, <2>2
<1>6. f \in [Visit -> T] /\ \A at \in Visit : f[at] = make[<<at, Of(f, SubVisits[at])>>]
  BY <1>5 DEF Recursive
<1>7. ASSUME NEW at \in Visit PROVE f[at] = VisitStep(f, at)
  <2>. DEFINE visits == SubVisits[at]
  <2>1. visits \in Seq(Visit)
    BY SubVisitsTyped
  <2>. HIDE DEF visits
  <2>2. Len(visits) \in Nat /\ DOMAIN visits = 1..Len(visits)
        /\ \A i \in 1..Len(visits) : f[visits[i]] \in T
    BY <1>6, <2>1
  <2>3. Of(f, visits) \in Seq(T)
    BY <2>2, IsASeq DEF Of
  <2>4. f[at] = OwnCall(at) \o FlattenSeq(Of(f, visits))
    BY <1>3, <1>6, <2>3 DEF visits
  <2>. QED BY <2>4, VisitStepOf DEF visits
<1>8. Rec(f)
  BY <1>6, <1>7
<1>9. Rec(c)
  BY <1>8
<1>10. ProcessAuthorizationTree = c
  BY DEF ProcessAuthorizationTree, VisitStep
<1>11. \A at \in Visit : c[at] = VisitStep(c, at)
  BY <1>9
<1>. HIDE DEF c
<1>. QED BY <1>10, <1>11, VisitStepOf

-------------------------------------------------------------------------------
(* The walk of a visit. *)

\* Who calls the node at the end of a path, when from calls the root.
FromOf(node, from, p) == IF p = <<>> THEN from ELSE NodeAt(node, Front(p)).to

\* The caller at the end of a path is the one of the visit below.
LEMMA FromUnder ==
  ASSUME NEW node, NEW from, NEW i \in Nat, NEW p \in Path
  PROVE  FromOf(node, from, <<i>> \o p) = FromOf(node.subs[i], node.to, p)
<1>. DEFINE q == <<i>> \o p
<1>1. q # <<>>
  <2>1. Len(q) = Len(p) + 1 /\ Len(p) \in Nat
    BY UnderIs DEF Under, Path
  <2>. HIDE DEF q
  <2>. QED BY <2>1
<1>2. FromOf(node, from, q) = NodeAt(node, Front(q)).to
  BY <1>1 DEF FromOf
<1>3. Front(q) = IF p = <<>> THEN <<>> ELSE <<i>> \o Front(p)
  BY FrontUnder
<1>. HIDE DEF q
<1>4. CASE p = <<>>
  <2>1. NodeAt(node, Front(q)) = node
    BY <1>3, <1>4, NodeRoot
  <2>. QED BY <1>2, <1>4, <2>1 DEF FromOf, q
<1>5. CASE p # <<>>
  <2>1. Front(p) \in Path
    <3>1. p \in Seq(Nat) /\ Len(p) \in Nat /\ Len(p) # 0
      BY <1>5 DEF Path
    <3>2. SubSeq(p, 1, Len(p) - 1) \in Seq(Nat)
      BY <3>1
    <3>. QED BY <3>2 DEF Front, Path
  <2>. DEFINE r == Front(p)
  <2>2. Front(q) = <<i>> \o r
    BY <1>3, <1>5
  <2>3. NodeAt(node, <<i>> \o r) = NodeAt(node.subs[i], r)
    BY <2>1, NodeUnder
  <2>. QED BY <1>2, <1>5, <2>2, <2>3 DEF FromOf, q
<1>. QED BY <1>4, <1>5

CallAt(at, p) ==
  [from |-> FromOf(at.node, at.from, p), to |-> NodeAt(at.node, p).to,
   depth |-> at.depth + Len(p), authType |-> at.authType, successful |-> TRUE]

Leads(call) == call.from # Blank /\ call.to # Blank /\ call.from # call.to

CallsAlong(at) == [p \in Path |-> CallAt(at, p)]
EdgesAt(at)    == {p \in Paths[at.node] : Leads(CallAt(at, p))}

\* What is called at the end of a path is called there from the visit below.
LEMMA CallUnder ==
  ASSUME NEW at, at.depth \in Nat, NEW i \in Nat, NEW p \in Path
  PROVE  CallAt(at, <<i>> \o p) = CallAt(Below(at, i), p)
<1>. DEFINE q == <<i>> \o p
            b == Below(at, i)
<1>1. Len(q) = Len(p) + 1 /\ Len(p) \in Nat
  BY UnderIs DEF Under, Path
<1>2. /\ b.node = at.node.subs[i] /\ b.from = at.node.to
      /\ b.depth = at.depth + 1 /\ b.authType = at.authType
  BY DEF Below
<1>3. FromOf(at.node, at.from, q) = FromOf(b.node, b.from, p)
  BY <1>2, FromUnder
<1>4. NodeAt(at.node, q) = NodeAt(b.node, p)
  <2>. DEFINE node == at.node
  <2>1. NodeAt(node, <<i>> \o p) = NodeAt(node.subs[i], p)
    BY NodeUnder, Zenon
  <2>. QED BY <1>2, <2>1, Zenon
<1>5. at.depth + Len(q) = b.depth + Len(p)
  BY <1>1, <1>2
<1>. HIDE DEF q, b
<1>6. CallAt(at, q) = CallAt(b, p)
  BY <1>2, <1>3, <1>4, <1>5 DEF CallAt
<1>. QED BY <1>6 DEF q, b

OwnEdges(at) == {p \in {<<>>} : Leads(CallAt(at, p))}

\* A visit records its own call if its node calls another contract.
LEMMA OwnWalk ==
  ASSUME NEW at \in Visit
  PROVE  Walked(OwnCall(at), OwnEdges(at), CallsAlong(at))
<1>1. <<>> \in Path /\ Len(<<>>) = 0
  BY DEF Path
<1>2. at.depth + 0 = at.depth
  BY DEF Visit
<1>3. CallAt(at, <<>>) = [from |-> at.from, to |-> at.node.to, depth |-> at.depth,
                          authType |-> at.authType, successful |-> TRUE]
  BY <1>1, <1>2, NodeRoot DEF CallAt, FromOf
<1>. DEFINE call == CallAt(at, <<>>)
<1>4. CallsAlong(at)[<<>>] = call
  BY <1>1 DEF CallsAlong
<1>5. Leads(call) <=> at.from # Blank /\ at.node.to # Blank /\ at.from # at.node.to
  BY <1>3 DEF Leads
<1>6. OwnCall(at) = IF Leads(call) THEN <<call>> ELSE <<>>
  BY <1>3, <1>5 DEF OwnCall
<1>. HIDE DEF call
<1>7. CASE Leads(call)
  <2>1. OwnEdges(at) = {<<>>}
    BY <1>7 DEF OwnEdges, call
  <2>2. Walked(<<call>>, {<<>>}, CallsAlong(at))
    BY <1>1, <1>4, OneWalk
  <2>. QED BY <1>6, <1>7, <2>1, <2>2
<1>8. CASE ~Leads(call)
  <2>1. OwnEdges(at) = {}
    BY <1>8 DEF OwnEdges, call
  <2>. QED BY <1>6, <1>8, <2>1, NoWalk
<1>. QED BY <1>7, <1>8

\* The edges of the visits below, each under its place.
EdgesUnder(visits) == [i \in DOMAIN visits |-> PathsUnder(i, EdgesAt(visits[i]))]

LEMMA EdgesTyped ==
  ASSUME NEW at \in Visit
  PROVE  EdgesAt(at) \subseteq Path
BY PathsAre DEF EdgesAt, Visit

\* The edges of a visit are its own and those of the visits below.
LEMMA EdgesOver ==
  ASSUME NEW at \in Visit, NEW visits, visits = SubVisits[at]
  PROVE  EdgesAt(at) = OwnEdges(at) \cup UNION {EdgesUnder(visits)[i] : i \in DOMAIN visits}
<1>. DEFINE subs == at.node.subs
<1>1. at.node \in Calls /\ at.depth \in Nat
  BY DEF Visit
<1>2. /\ visits \in Seq(Visit) /\ DOMAIN visits = DOMAIN subs
      /\ \A i \in DOMAIN subs : i \in Nat /\ visits[i] = Below(at, i) /\ visits[i].node = subs[i]
  <2>1. visits \in Seq(Visit) /\ DOMAIN visits = DOMAIN subs
    BY SubVisitsTyped
  <2>2. \A i \in DOMAIN subs : visits[i] = Below(at, i)
    BY DEF SubVisits
  <2>. QED BY <2>1, <2>2 DEF Below
<1>3. /\ Paths[at.node] = PathsOver(Of(Paths, subs))
      /\ \A i \in DOMAIN subs : Paths[subs[i]] \subseteq Path
  <2>1. subs \in Seq(Calls)
    BY <1>1, CallsTyped
  <2>2. \A i \in DOMAIN subs : subs[i] \in Calls
    BY <2>1
  <2>. QED BY <1>1, <2>2, PathsAre
<1>. HIDE DEF subs
<1>4. DOMAIN Of(Paths, subs) = DOMAIN subs /\ \A i \in DOMAIN subs : Of(Paths, subs)[i] = Paths[subs[i]]
  BY DEF Of
<1>5. \A i \in DOMAIN subs : \A q \in Paths[subs[i]] : CallAt(at, <<i>> \o q) = CallAt(visits[i], q)
  BY <1>1, <1>2, <1>3, CallUnder
<1>6. ASSUME NEW p \in EdgesAt(at)
      PROVE  p \in OwnEdges(at) \/ \E i \in DOMAIN visits : p \in EdgesUnder(visits)[i]
  <2>1. p \in PathsOver(Of(Paths, subs)) /\ Leads(CallAt(at, p))
    BY <1>3 DEF EdgesAt
  <2>2. CASE p = <<>>
    BY <2>1, <2>2 DEF OwnEdges
  <2>3. ASSUME NEW i \in DOMAIN subs, p \in PathsUnder(i, Paths[subs[i]])
        PROVE  p \in EdgesUnder(visits)[i]
    <3>1. PICK q \in Paths[subs[i]] : p = <<i>> \o q
      BY <2>3 DEF PathsUnder
    <3>2. Leads(CallAt(visits[i], q))
      BY <1>5, <2>1, <3>1
    <3>3. q \in EdgesAt(visits[i])
      BY <1>2, <3>2 DEF EdgesAt
    <3>. QED BY <1>2, <3>1, <3>3 DEF EdgesUnder, PathsUnder
  <2>. QED BY <1>2, <1>4, <2>1, <2>2, <2>3 DEF PathsOver
<1>7. ASSUME NEW p \in OwnEdges(at) PROVE p \in EdgesAt(at)
  BY <1>3 DEF OwnEdges, EdgesAt, PathsOver
<1>8. ASSUME NEW i \in DOMAIN visits, NEW p \in EdgesUnder(visits)[i] PROVE p \in EdgesAt(at)
  <2>1. PICK q \in EdgesAt(visits[i]) : p = <<i>> \o q
    BY DEF EdgesUnder, PathsUnder
  <2>2. q \in Paths[subs[i]] /\ Leads(CallAt(visits[i], q))
    BY <1>2, <2>1 DEF EdgesAt
  <2>3. Leads(CallAt(at, p))
    BY <1>2, <1>5, <2>1, <2>2
  <2>4. p \in PathsOver(Of(Paths, subs))
    <3>1. p \in PathsUnder(i, Of(Paths, subs)[i])
      BY <1>2, <1>4, <2>1, <2>2 DEF PathsUnder
    <3>. QED BY <1>2, <1>4, <3>1 DEF PathsOver
  <2>. QED BY <1>3, <2>3, <2>4 DEF EdgesAt
<1>. QED BY <1>6, <1>7, <1>8

\* Walks below are walks of what is below, each before those of the trees to its right.
LEMMA WalksUnder ==
  ASSUME NEW visits \in Seq(Visit), NEW c,
         \A i \in DOMAIN visits : Walked(ProcessAuthorizationTree[visits[i]], EdgesAt(visits[i]),
                                         CallsAlong(visits[i])),
         \A i \in DOMAIN visits : \A p \in EdgesAt(visits[i]) : c[<<i>> \o p] = CallAt(visits[i], p)
  PROVE  Walked(FlattenSeq(Of(ProcessAuthorizationTree, visits)),
                UNION {EdgesUnder(visits)[i] : i \in DOMAIN visits}, c)
<1>. DEFINE parts == Of(ProcessAuthorizationTree, visits)
            E == EdgesUnder(visits)
            n == Len(parts)
<1>1. Sequence(parts) /\ n = Len(visits) /\ DOMAIN parts = DOMAIN visits
      /\ \A i \in DOMAIN visits : parts[i] = ProcessAuthorizationTree[visits[i]]
  <2>1. parts = [i \in DOMAIN visits |-> ProcessAuthorizationTree[visits[i]]]
    BY DEF Of
  <2>2. parts = [i \in DOMAIN visits |-> parts[i]]
    BY <2>1
  <2>. HIDE DEF parts
  <2>. QED BY <2>1, <2>2, SequenceLike
<1>2. n \in Nat /\ DOMAIN visits = 1..n
  BY <1>1
<1>3. \A i \in DOMAIN visits : E[i] = PathsUnder(i, EdgesAt(visits[i])) /\ EdgesAt(visits[i]) \subseteq Path
  <2>1. \A i \in DOMAIN visits : visits[i] \in Visit
    OBVIOUS
  <2>. QED BY <2>1, EdgesTyped DEF EdgesUnder
<1>. HIDE DEF parts, E, n
<1>4. ASSUME NEW i \in DOMAIN visits PROVE Walked(parts[i], E[i], c)
  <2>. DEFINE D == EdgesAt(visits[i])
              d == CallsAlong(visits[i])
  <2>1. i \in Nat /\ D \subseteq Path
    BY <1>2, <1>3
  <2>2. MovedUnder(i, D, d, c)
    BY <2>1 DEF CallsAlong, MovedUnder
  <2>3. Walked(parts[i], D, d)
    BY <1>1
  <2>. HIDE DEF D, d
  <2>4. Walked(parts[i], PathsUnder(i, D), c)
    BY <2>1, <2>2, <2>3, UnderWalk
  <2>. QED BY <1>3, <2>4 DEF D
<1>5. WalkedEach(parts, E, c)
  BY <1>1, <1>4 DEF WalkedEach
<1>6. ASSUME NEW i \in 1..n, NEW j \in 1..n, i < j, NEW p \in E[i], NEW q \in E[j]
      PROVE  Before(p, q)
  <2>1. PICK a \in EdgesAt(visits[i]) : p = <<i>> \o a
    BY <1>2, <1>3 DEF PathsUnder
  <2>2. PICK b \in EdgesAt(visits[j]) : q = <<j>> \o b
    BY <1>2, <1>3 DEF PathsUnder
  <2>3. a \in Path /\ b \in Path /\ i \in Nat /\ j \in Nat
    BY <1>2, <1>3
  <2>. QED BY <1>6, <2>1, <2>2, <2>3, BeforeRight
<1>7. OneAfterOther(E, n)
  BY <1>6 DEF OneAfterOther, AllBefore
<1>8. Walked(FlattenSeq(parts), UNION {E[i] : i \in 1..n}, c)
  BY <1>1, <1>5, <1>7, FlattenWalk DEF n
<1>. QED BY <1>2, <1>8 DEF parts, E

\* The calls that a visit records are a walk of the edges under it.
LEMMA VisitWalk ==
  ASSUME NEW at \in Visit
  PROVE  Walked(ProcessAuthorizationTree[at], EdgesAt(at), CallsAlong(at))
<1>. DEFINE P == {b \in Visit : Walked(ProcessAuthorizationTree[b], EdgesAt(b), CallsAlong(b))}
<1>1. ASSUME NEW b \in Visit, \A i \in DOMAIN SubVisits[b] : SubVisits[b][i] \in P
      PROVE  b \in P
  <2>. DEFINE visits == SubVisits[b]
              c == CallsAlong(b)
              U == UNION {EdgesUnder(visits)[i] : i \in DOMAIN visits}
              below == FlattenSeq(Of(ProcessAuthorizationTree, visits))
  <2>1. visits \in Seq(Visit) /\ \A i \in DOMAIN visits : visits[i] = Below(b, i)
    <3>1. visits \in Seq(Visit) /\ DOMAIN visits = DOMAIN b.node.subs
      BY SubVisitsTyped
    <3>. QED BY <3>1 DEF SubVisits
  <2>2. b.depth \in Nat
    BY DEF Visit
  <2>3. ASSUME NEW i \in DOMAIN visits PROVE visits[i] \in Visit /\ i \in Nat
    BY <2>1
  <2>4. ASSUME NEW i \in DOMAIN visits, NEW p \in EdgesAt(visits[i])
        PROVE  /\ p \in Path /\ i \in Nat /\ <<i>> \o p \in Path
               /\ c[<<i>> \o p] = CallAt(visits[i], p)
    <3>1. p \in Path /\ i \in Nat
      BY <2>3, EdgesTyped
    <3>2. <<i>> \o p \in Path
      BY <3>1, UnderIs DEF Under
    <3>3. CallAt(b, <<i>> \o p) = CallAt(visits[i], p)
      BY <2>1, <2>2, <3>1, CallUnder
    <3>. QED BY <3>1, <3>2, <3>3 DEF CallsAlong
  <2>5. \A i \in DOMAIN visits :
          Walked(ProcessAuthorizationTree[visits[i]], EdgesAt(visits[i]), CallsAlong(visits[i]))
    BY <1>1
  <2>6. AllBefore(OwnEdges(b), U)
    <3>1. ASSUME NEW i \in DOMAIN visits, NEW q \in EdgesUnder(visits)[i] PROVE Before(<<>>, q)
      <4>1. PICK p \in EdgesAt(visits[i]) : q = <<i>> \o p
        BY DEF EdgesUnder, PathsUnder
      <4>. QED BY <2>4, <4>1, BeforeBelow
    <3>. QED BY <3>1 DEF AllBefore, OwnEdges
  <2>7. EdgesAt(b) = OwnEdges(b) \cup U
    BY EdgesOver
  <2>8. ProcessAuthorizationTree[b] = OwnCall(b) \o below
    BY CallsAre
  <2>. HIDE DEF c, visits
  <2>9. Walked(below, U, c)
    BY <2>1, <2>4, <2>5, WalksUnder
  <2>10. Walked(OwnCall(b), OwnEdges(b), c)
    BY OwnWalk DEF c
  <2>. HIDE DEF U, below
  <2>11. Walked(OwnCall(b) \o below, OwnEdges(b) \cup U, c)
    BY <2>6, <2>9, <2>10, JoinWalk
  <2>. QED BY <2>7, <2>8, <2>11 DEF c
<1>. HIDE DEF P
<1>2. Visit \subseteq P
  <2>1. Visits[MaxNesting] = Visit /\ TreeLevels(Visits, MaxNesting, SubVisits)
    BY VisitTrees
  <2>2. Visits[MaxNesting] \subseteq P
    BY <1>1, <2>1, TreeInduction
  <2>. QED BY <2>1, <2>2
<1>. QED BY <1>2 DEF P

-------------------------------------------------------------------------------
(* The calls of an invocation. *)

Authorization == [credentials : {"address", "source"}, root : Calls]

\* The call that is made along a path into the trees of all entries.
EntryCall(auth, contract, p) ==
  [from |-> Caller(Forest(auth, contract), p), to |-> Callee(Forest(auth, contract), p),
   depth |-> Len(p) - 1, authType |-> AuthType(auth[p[1]]), successful |-> TRUE]

LEMMA RootVisit ==
  ASSUME NEW entry \in Authorization, NEW contract \in Callers
  PROVE  /\ Root(entry, contract) \in Visit /\ Root(entry, contract).node = entry.root
         /\ Root(entry, contract).from = contract /\ Root(entry, contract).depth = 0
         /\ Root(entry, contract).authType = AuthType(entry)
<1>1. entry.root \in Calls /\ AuthType(entry) \in AuthTypes
  BY DEF Authorization, AuthType, AuthTypes
<1>. QED BY <1>1 DEF Root, Visit

\* What is called in an entry is called there from the visit of its root.
LEMMA EntryCallUnder ==
  ASSUME NEW auth \in Seq(Authorization), NEW contract \in Callers,
         NEW e \in DOMAIN auth, NEW q \in Path
  PROVE  EntryCall(auth, contract, <<e>> \o q) = CallAt(Root(auth[e], contract), q)
<1>. DEFINE forest == Forest(auth, contract)
            at == Root(auth[e], contract)
            p == <<e>> \o q
<1>1. e \in Nat /\ auth[e] \in Authorization
  OBVIOUS
<1>2. at.node = auth[e].root /\ at.from = contract /\ at.depth = 0 /\ at.authType = AuthType(auth[e])
  BY <1>1, RootVisit
<1>3. forest.subs[e] = auth[e].root /\ forest.to = contract
  BY DEF Forest
<1>4. Len(p) = Len(q) + 1 /\ p[1] = e /\ Len(q) \in Nat
  BY <1>1, UnderIs DEF Under, Path
<1>. HIDE DEF forest, at
<1>5. Caller(forest, p) = FromOf(forest, contract, p)
  <2>. HIDE DEF p
  <2>1. p # <<>>
    BY <1>4
  <2>. QED BY <2>1 DEF Caller, FromOf
<1>6. FromOf(forest, contract, p) = FromOf(at.node, at.from, q)
  <2>1. FromOf(forest, contract, <<e>> \o q) = FromOf(forest.subs[e], forest.to, q)
    BY <1>1, FromUnder, Zenon
  <2>. QED BY <1>2, <1>3, <2>1
<1>7. NodeAt(forest, p) = NodeAt(at.node, q)
  <2>1. NodeAt(forest, <<e>> \o q) = NodeAt(forest.subs[e], q)
    BY <1>1, NodeUnder, Zenon
  <2>. QED BY <1>2, <1>3, <2>1
<1>. HIDE DEF p
<1>8. Len(p) - 1 = at.depth + Len(q)
  BY <1>2, <1>4
<1>9. EntryCall(auth, contract, p) = CallAt(at, q)
  BY <1>2, <1>4, <1>5, <1>6, <1>7, <1>8 DEF EntryCall, CallAt, Callee, forest
<1>. QED BY <1>9 DEF at, p

Roots(auth, contract) == [e \in DOMAIN auth |-> Root(auth[e], contract)]

LEMMA RootsTyped ==
  ASSUME NEW auth \in Seq(Authorization), NEW contract \in Callers
  PROVE  /\ Roots(auth, contract) \in Seq(Visit) /\ DOMAIN Roots(auth, contract) = DOMAIN auth
         /\ \A e \in DOMAIN auth : Roots(auth, contract)[e] = Root(auth[e], contract)
<1>1. Len(auth) \in Nat /\ DOMAIN auth = 1..Len(auth)
  OBVIOUS
<1>2. \A e \in 1..Len(auth) : Root(auth[e], contract) \in Visit
  BY <1>1, RootVisit
<1>3. Roots(auth, contract) = [e \in 1..Len(auth) |-> Root(auth[e], contract)]
  BY <1>1 DEF Roots
<1>. QED BY <1>1, <1>2, <1>3, IsASeq

\* The edges of an operation are those of its entries.
LEMMA EdgesOfEntries ==
  ASSUME NEW auth \in Seq(Authorization), NEW contract \in Callers,
         NEW visits, visits = Roots(auth, contract)
  PROVE  Edges(auth, contract) = UNION {EdgesUnder(visits)[e] : e \in DOMAIN visits}
<1>. DEFINE U == UNION {EdgesUnder(visits)[e] : e \in DOMAIN visits}
            along(p) == EntryCall(auth, contract, p)
            nodes == UNION {{<<a>> \o p : p \in Paths[auth[a].root]} : a \in DOMAIN auth}
<1>1. /\ visits \in Seq(Visit) /\ DOMAIN visits = DOMAIN auth
      /\ \A e \in DOMAIN auth : /\ visits[e] = Root(auth[e], contract)
                                /\ visits[e].node = auth[e].root /\ auth[e].root \in Calls
  <2>1. \A e \in DOMAIN auth : auth[e] \in Authorization
    OBVIOUS
  <2>2. \A e \in DOMAIN auth : auth[e].root \in Calls
    BY <2>1 DEF Authorization
  <2>. QED BY <2>1, <2>2, RootsTyped, RootVisit
<1>2. \A e \in DOMAIN auth : Paths[auth[e].root] \subseteq Path
  BY <1>1, PathsAre
<1>3. \A e \in DOMAIN auth : \A q \in Paths[auth[e].root] :
        along(<<e>> \o q) = CallAt(visits[e], q)
  BY <1>1, <1>2, EntryCallUnder
<1>4. \A p : Leads(along(p)) <=>
        /\ Blank \notin {Caller(Forest(auth, contract), p), Callee(Forest(auth, contract), p)}
        /\ Caller(Forest(auth, contract), p) # Callee(Forest(auth, contract), p)
  BY DEF Leads, EntryCall
<1>. HIDE DEF along
<1>5. Edges(auth, contract) = {p \in nodes : Leads(along(p))}
  BY <1>4 DEF Edges
<1>6. ASSUME NEW p \in nodes, Leads(along(p)) PROVE p \in U
  <2>1. PICK e \in DOMAIN auth : \E q \in Paths[auth[e].root] : p = <<e>> \o q
    BY <1>6
  <2>2. PICK q \in Paths[auth[e].root] : p = <<e>> \o q
    BY <2>1
  <2>3. q \in EdgesAt(visits[e])
    BY <1>1, <1>3, <1>6, <2>2 DEF EdgesAt
  <2>4. p \in PathsUnder(e, EdgesAt(visits[e]))
    BY <2>2, <2>3 DEF PathsUnder
  <2>5. p \in EdgesUnder(visits)[e]
    BY <1>1, <2>4 DEF EdgesUnder
  <2>. QED BY <1>1, <2>5
<1>7. ASSUME NEW e \in DOMAIN visits, NEW p \in EdgesUnder(visits)[e]
      PROVE  p \in nodes /\ Leads(along(p))
  <2>1. p \in PathsUnder(e, EdgesAt(visits[e]))
    BY DEF EdgesUnder
  <2>2. PICK q \in EdgesAt(visits[e]) : p = <<e>> \o q
    BY <2>1 DEF PathsUnder
  <2>3. q \in Paths[auth[e].root] /\ Leads(CallAt(visits[e], q))
    BY <1>1, <2>2 DEF EdgesAt
  <2>4. e \in DOMAIN auth
    BY <1>1
  <2>5. p \in {<<e>> \o r : r \in Paths[auth[e].root]}
    BY <2>2, <2>3
  <2>6. p \in nodes
    BY <2>4, <2>5, Zenon
  <2>7. along(p) = CallAt(visits[e], q)
    BY <1>3, <2>2, <2>3, <2>4
  <2>8. Leads(along(p))
    BY <2>3, <2>7
  <2>. QED BY <2>6, <2>8
<1>8. \A p \in U : p \in nodes /\ Leads(along(p))
  BY <1>7
<1>. HIDE DEF nodes, U
<1>9. Edges(auth, contract) = U
  BY <1>5, <1>6, <1>8
<1>. QED BY <1>9 DEF U

\* The entries are walked one after the other.
LEMMA EntriesWalk ==
  ASSUME NEW auth \in Seq(Authorization), NEW contract \in Callers
  PROVE  Walked(FlattenSeq([e \in DOMAIN auth |-> ProcessAuthorizationTree[Root(auth[e], contract)]]),
                Edges(auth, contract), [p \in Path |-> EntryCall(auth, contract, p)])
<1>. DEFINE visits == Roots(auth, contract)
            c == [p \in Path |-> EntryCall(auth, contract, p)]
<1>1. visits \in Seq(Visit) /\ DOMAIN visits = DOMAIN auth
      /\ \A e \in DOMAIN auth : visits[e] = Root(auth[e], contract)
  BY RootsTyped
<1>2. Of(ProcessAuthorizationTree, visits)
        = [e \in DOMAIN auth |-> ProcessAuthorizationTree[Root(auth[e], contract)]]
  BY <1>1 DEF Of
<1>3. Edges(auth, contract) = UNION {EdgesUnder(visits)[e] : e \in DOMAIN visits}
  BY EdgesOfEntries
<1>. HIDE DEF visits
<1>4. \A e \in DOMAIN visits : visits[e] \in Visit
  BY <1>1
<1>5. \A e \in DOMAIN visits :
        Walked(ProcessAuthorizationTree[visits[e]], EdgesAt(visits[e]), CallsAlong(visits[e]))
  BY <1>4, VisitWalk
<1>6. ASSUME NEW e \in DOMAIN visits, NEW q \in EdgesAt(visits[e])
      PROVE  c[<<e>> \o q] = CallAt(visits[e], q)
  <2>1. q \in Path /\ e \in Nat
    BY <1>1, <1>4, EdgesTyped
  <2>2. <<e>> \o q \in Path
    BY <2>1, UnderIs DEF Under
  <2>3. EntryCall(auth, contract, <<e>> \o q) = CallAt(visits[e], q)
    BY <1>1, <2>1, EntryCallUnder
  <2>. QED BY <2>2, <2>3
<1>. HIDE DEF c
<1>7. Walked(FlattenSeq(Of(ProcessAuthorizationTree, visits)),
             UNION {EdgesUnder(visits)[e] : e \in DOMAIN visits}, c)
  BY <1>1, <1>5, <1>6, WalksUnder
<1>. QED BY <1>2, <1>3, <1>7 DEF c

\* The calls of an operation, with their order, follow its authorization trees.
LEMMA EntriesFollow ==
  ASSUME NEW op, NEW auth \in Seq(Authorization), op.auth = auth, NEW contract \in Callers
  PROVE  CallsFollow(ExtractContractCallsFromAuth(op, contract), auth, contract)
<1>. DEFINE found == FlattenSeq([e \in DOMAIN auth |-> ProcessAuthorizationTree[Root(auth[e], contract)]])
            calls == ExtractContractCallsFromAuth(op, contract)
            edges == Edges(auth, contract)
            c == [p \in Path |-> EntryCall(auth, contract, p)]
<1>1. calls = [i \in DOMAIN found |-> WithOrder(found[i], i - 1)]
  BY DEF ExtractContractCallsFromAuth
<1>2. PICK e : Walk(e, found, edges, c)
  BY EntriesWalk DEF Walked
<1>3. WalkCounts(e, found, edges)
  BY <1>2, WalkOrder
<1>. HIDE DEF found, calls, edges
<1>4. /\ Sequence(found) /\ edges \subseteq Path
      /\ \A p \in edges : \E k \in DOMAIN found : e[k] = p
      /\ \A k \in DOMAIN found : found[k] = c[e[k]]
  BY <1>2 DEF Walk
<1>5. Sequence(calls) /\ Len(calls) = Len(found)
  <2>1. calls = [i \in DOMAIN found |-> calls[i]]
    BY <1>1
  <2>. QED BY <1>4, <2>1, SequenceLike DEF Sequence
<1>6. Len(calls) = Cardinality(edges)
  BY <1>3, <1>5 DEF WalkCounts
<1>7. ASSUME NEW p \in edges, NEW order, order = Cardinality({q \in edges : Before(q, p)})
      PROVE  calls[order + 1] = WithOrder(EntryCall(auth, contract, p), order)
  <2>1. PICK k \in DOMAIN found : e[k] = p
    BY <1>4
  <2>2. k \in Nat
    BY <1>4 DEF Sequence
  <2>3. order = k - 1
    BY <1>3, <1>7, <2>1 DEF WalkCounts
  <2>4. order + 1 = k
    BY <2>2, <2>3
  <2>5. found[k] = EntryCall(auth, contract, p)
    BY <1>4, <2>1
  <2>. QED BY <1>1, <2>3, <2>4, <2>5
<1>8. ASSUME NEW p \in edges, NEW order, order = Cardinality({q \in edges : Before(q, p)}),
             NEW call, call = calls[order + 1]
      PROVE  /\ call.from = Caller(Forest(auth, contract), p)
             /\ call.to = Callee(Forest(auth, contract), p)
             /\ call.depth = Len(p) - 1 /\ call.order = order
             /\ call.authType = AuthType(auth[p[1]])
  <2>1. call = WithOrder(EntryCall(auth, contract, p), order)
    BY <1>7, <1>8
  <2>. QED BY <2>1 DEF WithOrder, EntryCall
<1>9. CallsFollow(calls, auth, contract)
  BY <1>6, <1>8 DEF CallsFollow, edges
<1>. QED BY <1>9 DEF calls

\* Every invocation that was found has the calls of its operation.
LEMMA AgreeCalls == AgreeInv => CallsAreEdges
<1>. SUFFICES ASSUME AgreeInv PROVE CallsAreEdges
  OBVIOUS
<1>1. LedgerRead /\ InvocationsRead
  BY DEF AgreeInv, EventsInv
<1>2. ASSUME NEW i \in DOMAIN invocations, NEW inv, inv = invocations[i]
      PROVE  CallsFollow(inv.calls, ledger[inv.hash].ops[inv.op + 1].auth, inv.contract)
  <2>1. PICK n \in DOMAIN ledger : InvocationOf(inv, ledger[n], n)
    BY <1>1, <1>2 DEF InvocationsRead
  <2>2. PICK t \in Txs : ReadOf(ledger[n], t, n)
    BY <1>1 DEF LedgerRead
  <2>. DEFINE op == ledger[n].ops[1]
              auth == op.auth
              contract == IF op.kind = "call" THEN op.contract ELSE Blank
  <2>3. inv = ProcessContractInvocation(ledger[n], n, op, 0)
    BY <2>1 DEF InvocationOf
  <2>4. /\ inv.hash = ledger[n].hash /\ inv.op = 0 /\ inv.contract = contract
        /\ inv.calls = ExtractContractCallsFromAuth(op, contract)
    BY <2>3 DEF ProcessContractInvocation
  <2>5. inv.hash = n
    BY <2>2, <2>4 DEF ReadOf
  <2>6. auth \in Seq(Authorization) /\ contract \in Callers
    <3>1. DOMAIN ledger[n].ops = {1}
      BY <2>1 DEF InvocationOf
    <3>2. 1 \in DOMAIN t.ops /\ op.auth = t.ops[1].auth /\ op.contract = t.ops[1].contract
      BY <2>2, <3>1 DEF ReadOf
    <3>3. t.ops[1] \in Operation
      BY <3>2, TxsTyped
    <3>4. op.auth \in Seq(Authorization) /\ op.contract \in Contracts
      BY <3>2, <3>3 DEF Operation, Authorization
    <3>. QED BY <3>4 DEF Callers
  <2>7. ledger[inv.hash].ops[inv.op + 1].auth = auth
    BY <2>4, <2>5
  <2>8. CallsFollow(ExtractContractCallsFromAuth(op, contract), auth, contract)
    BY <2>6, EntriesFollow
  <2>. QED BY <2>4, <2>7, <2>8
<1>. QED BY <1>2 DEF CallsAreEdges

\* The calls of an invocation are the edges of its authorization trees that lead
\* from one contract to another, each once, with its depth and in the order of the
\* walk, however deep and wide the trees are (contract_invocation_processor.go:244-343).
THEOREM CallsAreEdgesTheorem == Spec => []CallsAreEdges
BY AgreeCalls, AgreeInvariant, PTL
===============================================================================
