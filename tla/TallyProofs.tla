------------------------------ MODULE TallyProofs ------------------------------
(***************************************************************************)
(* What a total does when one of the counts goes up or down by one.  The   *)
(* streams need not be finite in number, but what they counted is.         *)
(***************************************************************************)
EXTENDS Tallies, FiniteSetTheorems, TLAPS

LEMMA UnitsMember ==
  ASSUME NEW S, NEW count \in [S -> Nat], NEW x
  PROVE  x \in Units(count) <=>
           \E s \in S, i \in Nat : 1 <= i /\ i <= count[s] /\ x = <<s, i>>
BY DEF Units

LEMMA TotalZero ==
  ASSUME NEW S, NEW count, count = [s \in S |-> 0]
  PROVE  IsFiniteSet(Units(count)) /\ Total(count) = 0
<1>1. Units(count) = {}
  BY UnitsMember
<1>. QED BY <1>1, FS_EmptySet DEF Total

LEMMA TotalNat ==
  ASSUME NEW count, IsFiniteSet(Units(count))
  PROVE  Total(count) \in Nat
BY FS_CardinalityType DEF Total

LEMMA TotalUp ==
  ASSUME NEW S, NEW count \in [S -> Nat], NEW s \in S, IsFiniteSet(Units(count)),
         NEW after, after = [count EXCEPT ![s] = @ + 1]
  PROVE  IsFiniteSet(Units(after)) /\ Total(after) = Total(count) + 1
<1>. DEFINE n == count[s] + 1
<1>1. after \in [S -> Nat] /\ after[s] = n /\ \A q \in S : q # s => after[q] = count[q]
  OBVIOUS
<1>2. n \in Nat /\ 1 <= n
  OBVIOUS
<1>3. \A x : x \in Units(count) <=>
        \E q \in S, i \in Nat : 1 <= i /\ i <= count[q] /\ x = <<q, i>>
  BY UnitsMember
<1>4. \A x : x \in Units(after) <=>
        \E q \in S, i \in Nat : 1 <= i /\ i <= after[q] /\ x = <<q, i>>
  BY <1>1, UnitsMember
<1>5. <<s, n>> \notin Units(count)
  BY <1>3
<1>. HIDE DEF n
<1>6. \A q \in S, i \in Nat : i <= after[q] <=> i <= count[q] \/ (q = s /\ i = n)
  BY <1>1, <1>2 DEF n
<1>7. ASSUME NEW x PROVE x \in Units(after) <=> x \in Units(count) \cup {<<s, n>>}
  <2>1. <<s, n>> \in Units(after)
    BY <1>2, <1>4, <1>6
  <2>2. ASSUME NEW q \in S, NEW i \in Nat, 1 <= i, x = <<q, i>>
        PROVE  i <= after[q] => x \in Units(count) \cup {<<s, n>>}
    BY <1>3, <1>6, <2>2
  <2>3. ASSUME NEW q \in S, NEW i \in Nat, 1 <= i, x = <<q, i>>
        PROVE  i <= count[q] => x \in Units(after)
    BY <1>4, <1>6, <2>3
  <2>. QED BY <1>3, <1>4, <2>1, <2>2, <2>3
<1>8. Units(after) = Units(count) \cup {<<s, n>>}
  BY <1>7
<1>9. /\ IsFiniteSet(Units(count) \cup {<<s, n>>})
      /\ Cardinality(Units(count) \cup {<<s, n>>}) = Cardinality(Units(count)) + 1
  BY <1>5, FS_AddElement
<1>. QED BY <1>8, <1>9 DEF Total

LEMMA TotalDown ==
  ASSUME NEW S, NEW count \in [S -> Nat], NEW s \in S, count[s] > 0,
         IsFiniteSet(Units(count)),
         NEW after, after = [count EXCEPT ![s] = @ - 1]
  PROVE  IsFiniteSet(Units(after)) /\ Total(after) + 1 = Total(count)
<1>1. after \in [S -> Nat] /\ count = [after EXCEPT ![s] = @ + 1]
  <2>1. count[s] \in Nat /\ count[s] - 1 \in Nat
    OBVIOUS
  <2>2. after \in [S -> Nat]
    BY <2>1
  <2>3. after[s] + 1 = count[s] /\ \A q \in S : q # s => after[q] = count[q]
    BY <2>1
  <2>. QED BY <2>2, <2>3
<1>2. \A q \in S : after[q] <= count[q] /\ after[q] \in Nat
  OBVIOUS
<1>3. Units(after) \subseteq Units(count)
  <2>. SUFFICES ASSUME NEW x, NEW q \in S, NEW i \in Nat,
                       1 <= i, i <= after[q], x = <<q, i>>
                PROVE  x \in Units(count)
    BY <1>1, UnitsMember
  <2>1. i <= count[q]
    BY <1>2
  <2>. QED BY <2>1, UnitsMember
<1>4. IsFiniteSet(Units(after))
  BY <1>3, FS_Subset
<1>. QED BY <1>1, <1>4, TotalUp

\* A part is at most the total.
LEMMA TotalPart ==
  ASSUME NEW S, NEW count \in [S -> Nat], NEW s \in S, IsFiniteSet(Units(count))
  PROVE  count[s] <= Total(count)
<1>. DEFINE part == {s} \X (1..count[s])
<1>1. part \subseteq Units(count)
  BY DEF Units
<1>2. IsFiniteSet(1..count[s]) /\ Cardinality(1..count[s]) = count[s]
  <2>1. count[s] \in Nat
    OBVIOUS
  <2>. QED BY <2>1, FS_Interval
<1>3. IsFiniteSet({s}) /\ Cardinality({s}) = 1
  BY FS_Singleton
<1>4. Cardinality(part) = Cardinality({s}) * Cardinality(1..count[s])
  BY <1>2, <1>3, FS_Product
<1>5. Cardinality(part) = count[s]
  <2>1. 1 * count[s] = count[s]
    OBVIOUS
  <2>. QED BY <1>2, <1>3, <1>4, <2>1
<1>6. Cardinality(part) <= Cardinality(Units(count))
  BY <1>1, FS_Subset
<1>. QED BY <1>5, <1>6 DEF Total
===============================================================================
