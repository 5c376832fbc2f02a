------------------------------- MODULE LoopProofs -------------------------------
(***************************************************************************)
(* Induction over the rounds of a loop.  The induction theorems of the     *)
(* library have an operator for a parameter, which the provers cannot      *)
(* instantiate; here the property is a set of numbers, and a round of a    *)
(* loop is a function, so that the facts can be cited.  The same for trees *)
(* with levels, and for sequences that are joined.                         *)
(***************************************************************************)
EXTENDS Loops, SequencesExt, FunctionTheorems, FiniteSetTheorems, SequenceTheorems, WellFoundedInduction, TLAPS

\* A set that has 0 and with each number the next has them all.
LEMMA SetInduction ==
  ASSUME NEW S, 0 \in S, \A n \in Nat : n \in S => n + 1 \in S
  PROVE  Nat \subseteq S
<1>. DEFINE T == Nat \ S
<1>1. T # {} => \E x \in T : \A y \in T : ~(<<y, x>> \in OpToRel(<, Nat))
  BY NatLessThanWellFounded, WFMin
<1>2. ASSUME T # {} PROVE FALSE
  <2>1. PICK x \in T : \A y \in T : ~(<<y, x>> \in OpToRel(<, Nat))
    BY <1>1, <1>2
  <2>2. x # 0 /\ x \in Nat /\ x \notin S
    BY <2>1
  <2>3. x - 1 \in Nat /\ x - 1 + 1 = x
    BY <2>2
  <2>4. x - 1 \notin S
    BY <2>2, <2>3
  <2>5. <<x - 1, x>> \in OpToRel(<, Nat)
    BY <2>2, <2>3 DEF OpToRel
  <2>. QED BY <2>1, <2>3, <2>4, <2>5
<1>. QED BY <1>2

\* The same up to a bound.
LEMMA BoundedInduction ==
  ASSUME NEW n \in Nat, NEW S, 0 \in S, \A i \in 0..(n - 1) : i \in S => i + 1 \in S
  PROVE  0..n \subseteq S
<1>. DEFINE R == {i \in Nat : i <= n => i \in S}
<1>1. 0 \in R
  OBVIOUS
<1>2. \A i \in Nat : i \in R => i + 1 \in R
  OBVIOUS
<1>. HIDE DEF R
<1>3. Nat \subseteq R
  BY <1>1, <1>2, SetInduction
<1>. QED BY <1>3 DEF R

-------------------------------------------------------------------------------
(* The values that a loop goes through. *)

Rounds(round, n, S) == round \in [1..n -> [S -> S]]

Iterates(f, round, n, start, S) ==
  /\ f \in [0..n -> S]
  /\ f[0] = start
  /\ \A i \in 1..n : f[i] = round[i][f[i - 1]]

\* There are such values for every loop whose rounds stay in a set.
LEMMA IteratesExist ==
  ASSUME NEW S, NEW n \in Nat, NEW round, Rounds(round, n, S), NEW start \in S
  PROVE  \E f : Iterates(f, round, n, start, S)
<1>. DEFINE Good(f, m) == /\ f \in [0..m -> S]
                          /\ f[0] = start
                          /\ \A i \in 1..m : f[i] = round[i][f[i - 1]]
            R == {m \in 0..n : \E f : Good(f, m)}
<1>1. 0 \in R
  <2>. DEFINE f == [i \in 0..0 |-> start]
  <2>1. Good(f, 0) /\ 0 \in 0..n
    OBVIOUS
  <2>. HIDE DEF f
  <2>. QED BY <2>1
<1>2. ASSUME NEW m \in 0..(n - 1), m \in R PROVE m + 1 \in R
  <2>1. PICK f : Good(f, m)
    BY <1>2
  <2>. DEFINE g == [i \in 0..(m + 1) |-> IF i = m + 1 THEN round[m + 1][f[m]] ELSE f[i]]
  <2>2. m + 1 \in 1..n /\ m \in 0..m
    OBVIOUS
  <2>3. round[m + 1] \in [S -> S] /\ f[m] \in S
    BY <2>1, <2>2 DEF Rounds
  <2>4. g \in [0..(m + 1) -> S]
    BY <2>1, <2>3
  <2>5. ASSUME NEW i \in 1..(m + 1) PROVE g[i] = round[i][g[i - 1]]
    <3>1. g[i - 1] = f[i - 1]
      OBVIOUS
    <3>2. CASE i = m + 1
      BY <3>1, <3>2
    <3>3. CASE i # m + 1
      <4>1. i \in 1..m
        BY <3>3
      <4>. QED BY <2>1, <3>1, <4>1
    <3>. QED BY <3>2, <3>3
  <2>6. g[0] = start
    BY <2>1
  <2>. HIDE DEF g
  <2>7. Good(g, m + 1)
    BY <2>4, <2>5, <2>6
  <2>. QED BY <2>2, <2>7
<1>. HIDE DEF R
<1>3. n \in R
  BY <1>1, <1>2, BoundedInduction
<1>. QED BY <1>3 DEF R, Iterates

\* They are determined by the rounds: two loops of the same rounds agree.
LEMMA SameRounds ==
  ASSUME NEW n \in Nat, NEW f, NEW g, f[0] = g[0],
         \A i \in 1..n : f[i - 1] = g[i - 1] => f[i] = g[i]
  PROVE  \A i \in 0..n : f[i] = g[i]
<1>. DEFINE R == {i \in 0..n : f[i] = g[i]}
<1>1. 0 \in R
  OBVIOUS
<1>2. ASSUME NEW i \in 0..(n - 1), i \in R PROVE i + 1 \in R
  <2>1. i + 1 \in 1..n /\ i + 1 - 1 = i
    OBVIOUS
  <2>2. f[i] = g[i]
    BY <1>2
  <2>3. f[i + 1] = g[i + 1]
    BY <2>1, <2>2
  <2>. QED BY <2>1, <2>3
<1>. HIDE DEF R
<1>3. 0..n \subseteq R
  BY <1>1, <1>2, BoundedInduction
<1>. QED BY <1>3 DEF R

SameSteps(f, g, n) == \A i \in 1..n : f[i - 1] = g[i - 1] => f[i] = g[i]

LEMMA SameEnd ==
  ASSUME NEW n \in Nat, NEW f, NEW g, f[0] = g[0], SameSteps(f, g, n)
  PROVE  f[n] = g[n]
<1>1. \A i \in 0..n : f[i] = g[i]
  BY SameRounds DEF SameSteps
<1>2. n \in 0..n
  OBVIOUS
<1>. QED BY <1>1, <1>2

-------------------------------------------------------------------------------
(* Numbers of several limbs. *)

LEMMA Scaling ==
  ASSUME NEW x \in Int, NEW y \in Int, NEW L \in Nat, x <= y
  PROVE  x * L <= y * L
<1>1. (y - x) * L >= 0
  <2>1. y - x \in Nat
    OBVIOUS
  <2>2. \A d \in Nat : d * L \in Nat
    OBVIOUS
  <2>. QED BY <2>1, <2>2
<1>2. (y - x) * L = y * L - x * L
  OBVIOUS
<1>3. x * L \in Int /\ y * L \in Int
  OBVIOUS
<1>. QED BY <1>1, <1>2, <1>3

\* v is the number in -h .. h - 1 that the bits b of twice h stand for.
Signed(v, b, h) ==
  /\ h \in Nat /\ b \in Int /\ v \in Int
  /\ v \in {b, b - 2 * h} /\ -h <= v /\ v < h

\* Of one limb.
LEMMA HalfSigned ==
  ASSUME NEW h \in Nat, NEW l \in 0..(2 * h - 1), NEW v, v = IF l >= h THEN l - 2 * h ELSE l
  PROVE  Signed(v, l, h)
<1>1. CASE l >= h
  BY <1>1 DEF Signed
<1>2. CASE l < h
  BY <1>2 DEF Signed
<1>. QED BY <1>1, <1>2

\* So it is with one more limb.
LEMMA SignedStep ==
  ASSUME NEW v, NEW b, NEW h, Signed(v, b, h), NEW L \in Nat, NEW l \in 0..(L - 1)
  PROVE  Signed(v * L + l, b * L + l, h * L)
<1>1. h \in Nat /\ b \in Int /\ v \in Int /\ v \in {b, b - 2 * h} /\ -h <= v /\ v <= h - 1
  BY DEF Signed
<1>2. h * L \in Nat /\ b * L \in Int /\ v * L \in Int
  BY <1>1
<1>3. (-h) * L <= v * L
  BY <1>1, Scaling
<1>4. v * L <= (h - 1) * L
  BY <1>1, Scaling
<1>5. (-h) * L = -(h * L) /\ (h - 1) * L = h * L - L
  BY <1>1
<1>6. v * L \in {b * L, b * L - 2 * (h * L)}
  BY <1>1
<1>7. /\ -(h * L) <= v * L + l /\ v * L + l < h * L
      /\ v * L + l \in {b * L + l, b * L + l - 2 * (h * L)}
      /\ v * L + l \in Int /\ b * L + l \in Int
  BY <1>2, <1>3, <1>4, <1>5, <1>6
<1>. QED BY <1>2, <1>7 DEF Signed

-------------------------------------------------------------------------------
(* Sequences of whatever they have. *)

Sequence(s) == s \in Seq(ToSet(s))

LEMMA SequenceOf ==
  ASSUME NEW S, NEW s \in Seq(S)
  PROVE  Sequence(s) /\ Len(s) \in Nat /\ DOMAIN s = 1..Len(s)
<1>1. Len(s) \in Nat /\ DOMAIN s = 1..Len(s)
  OBVIOUS
<1>2. \A i \in 1..Len(s) : s[i] \in ToSet(s)
  BY <1>1 DEF ToSet
<1>3. s = [i \in 1..Len(s) |-> s[i]]
  OBVIOUS
<1>4. s \in Seq(ToSet(s))
  BY <1>1, <1>2, <1>3, IsASeq
<1>. QED BY <1>1, <1>4 DEF Sequence

\* What has an element for each of a sequence.
LEMMA SequenceLike ==
  ASSUME NEW S, NEW s \in Seq(S), NEW g, g = [i \in DOMAIN s |-> g[i]]
  PROVE  Sequence(g) /\ Len(g) = Len(s) /\ DOMAIN g = DOMAIN s
<1>1. Len(s) \in Nat /\ DOMAIN s = 1..Len(s)
  OBVIOUS
<1>2. \A i \in 1..Len(s) : g[i] \in ToSet(g)
  BY <1>1 DEF ToSet
<1>3. g \in [1..Len(s) -> ToSet(g)]
  BY <1>1, <1>2
<1>4. g \in Seq(ToSet(g)) /\ Len(g) = Len(s)
  BY <1>1, <1>3
<1>. QED BY <1>1, <1>3, <1>4 DEF Sequence

LEMMA SequenceConcat ==
  ASSUME NEW s, NEW t, Sequence(s), Sequence(t)
  PROVE  /\ Sequence(s \o t)
         /\ Len(s) \in Nat /\ Len(t) \in Nat /\ Len(s \o t) = Len(s) + Len(t)
         /\ DOMAIN s = 1..Len(s) /\ DOMAIN t = 1..Len(t)
         /\ DOMAIN (s \o t) = 1..(Len(s) + Len(t))
         /\ \A i \in 1..Len(s) : (s \o t)[i] = s[i]
         /\ \A i \in (Len(s) + 1)..(Len(s) + Len(t)) : (s \o t)[i] = t[i - Len(s)]
<1>. DEFINE S == ToSet(s) \cup ToSet(t)
<1>1. s \in Seq(ToSet(s)) /\ t \in Seq(ToSet(t))
  BY DEF Sequence
<1>2. ToSet(s) \subseteq S /\ ToSet(t) \subseteq S
  OBVIOUS
<1>. HIDE DEF S
<1>3. s \in Seq(S) /\ t \in Seq(S)
  BY <1>1, <1>2, SeqMonotonic
<1>4. /\ s \o t \in Seq(S)
      /\ Len(s \o t) = Len(s) + Len(t)
      /\ \A i \in 1..(Len(s) + Len(t)) :
           (s \o t)[i] = IF i <= Len(s) THEN s[i] ELSE t[i - Len(s)]
  BY <1>3, ConcatProperties
<1>5. Len(s) \in Nat /\ Len(t) \in Nat /\ DOMAIN s = 1..Len(s) /\ DOMAIN t = 1..Len(t)
  BY <1>3
<1>6. Sequence(s \o t) /\ DOMAIN (s \o t) = 1..Len(s \o t)
  BY <1>4, SequenceOf
<1>7. \A i \in 1..Len(s) : (s \o t)[i] = s[i]
  BY <1>4, <1>5
<1>8. \A i \in (Len(s) + 1)..(Len(s) + Len(t)) : (s \o t)[i] = t[i - Len(s)]
  BY <1>4, <1>5
<1>. QED BY <1>4, <1>5, <1>6, <1>7, <1>8

LEMMA SequenceAppend ==
  ASSUME NEW s, NEW x, Sequence(s)
  PROVE  /\ Sequence(Append(s, x))
         /\ Len(s) \in Nat /\ Len(Append(s, x)) = Len(s) + 1
         /\ DOMAIN s = 1..Len(s) /\ DOMAIN Append(s, x) = 1..(Len(s) + 1)
         /\ \A i \in 1..Len(s) : Append(s, x)[i] = s[i]
         /\ Append(s, x)[Len(s) + 1] = x
<1>. DEFINE S == ToSet(s) \cup {x}
<1>1. s \in Seq(ToSet(s)) /\ ToSet(s) \subseteq S /\ x \in S
  BY DEF Sequence
<1>. HIDE DEF S
<1>2. s \in Seq(S)
  BY <1>1, SeqMonotonic
<1>3. /\ Append(s, x) \in Seq(S)
      /\ Len(Append(s, x)) = Len(s) + 1
      /\ \A i \in 1..Len(s) : Append(s, x)[i] = s[i]
      /\ Append(s, x)[Len(s) + 1] = x
  BY <1>1, <1>2, AppendProperties
<1>4. Len(s) \in Nat /\ DOMAIN s = 1..Len(s)
  BY <1>2
<1>5. Sequence(Append(s, x)) /\ DOMAIN Append(s, x) = 1..Len(Append(s, x))
  BY <1>3, SequenceOf
<1>. QED BY <1>3, <1>4, <1>5

LEMMA LeastNumber ==
  ASSUME NEW T, T \subseteq Nat, T # {}
  PROVE  Min(T) \in T
<1>1. IsWellFoundedOn(OpToRel(<, Nat), Nat)
  BY NatLessThanWellFounded
<1>. DEFINE R == OpToRel(<, Nat)
<1>2. \A x, y \in Nat : y < x => <<y, x>> \in R
  BY DEF OpToRel
<1>. HIDE DEF R
<1>3. PICK x \in T : \A y \in T : ~(<<y, x>> \in R)
  BY <1>1, WFMin DEF R
<1>4. ASSUME NEW y \in T PROVE x <= y
  <2>1. x \in Nat /\ y \in Nat
    BY <1>3
  <2>2. ~(<<y, x>> \in R)
    BY <1>3
  <2>3. ~(y < x)
    BY <1>2, <2>1, <2>2
  <2>. QED BY <2>1, <2>3
<1>. DEFINE Least(m) == m \in T /\ \A y \in T : m <= y
<1>5. Least(x)
  BY <1>3, <1>4
<1>6. Min(T) = CHOOSE m : Least(m)
  BY DEF Min
<1>. HIDE DEF Least
<1>7. Least(CHOOSE m : Least(m))
  BY <1>5, Zenon
<1>8. Least(Min(T))
  BY <1>6, <1>7
<1>. QED BY <1>8 DEF Least

\* A set of numbers, each moved up by the same.
LEMMA ShiftedCardinality ==
  ASSUME NEW A, NEW m \in Nat, A \subseteq 1..m, NEW d \in Nat,
         NEW B, \A i : i \in B <=> \E a \in A : i = d + a
  PROVE  Cardinality(B) = Cardinality(A)
<1>. DEFINE f == [a \in A |-> d + a]
<1>1. IsFiniteSet(A)
  <2>1. IsFiniteSet(1..m)
    BY FS_Interval
  <2>. QED BY <2>1, FS_Subset
<1>2. f \in [A -> B]
  OBVIOUS
<1>3. \A a, b \in A : f[a] = f[b] => a = b
  OBVIOUS
<1>4. \A i \in B : \E a \in A : f[a] = i
  OBVIOUS
<1>. HIDE DEF f
<1>5. f \in Bijection(A, B)
  BY <1>2, <1>3, <1>4, Fun_IsBij
<1>6. ExistsBijection(A, B)
  BY <1>5 DEF ExistsBijection
<1>. QED BY <1>1, <1>6, FS_Bijection

-------------------------------------------------------------------------------
(* Sequences joined one after the other. *)

Flattens(f, parts, T) ==
  /\ f \in [0..Len(parts) -> Seq(T)]
  /\ f[0] = <<>>
  /\ \A i \in 1..Len(parts) : f[i] = f[i - 1] \o parts[i]

LEMMA FlattenLoop ==
  ASSUME NEW T, NEW parts \in Seq(Seq(T))
  PROVE  \E f : Flattens(f, parts, T) /\ FlattenSeq(parts) = f[Len(parts)]
<1>. DEFINE n == Len(parts)
            S == Seq(T)
            Body(out, i) == out \o parts[i]
            round == [i \in 1..n |-> [out \in S |-> Body(out, i)]]
            Rec(g) == g = [i \in 1..n |-> IF i = 1 THEN parts[i] ELSE Body(g[i - 1], i)]
            c == CHOOSE g : Rec(g)
<1>1. n \in Nat /\ <<>> \in S /\ \A i \in 1..n : parts[i] \in S
  OBVIOUS
<1>2. \A i \in 1..n, out \in S : Body(out, i) \in S
  BY <1>1
<1>3. \A i \in 1..n : Body(<<>>, i) = parts[i]
  BY <1>1, ConcatEmptySeq
<1>4. FlattenSeq(parts) = IF n = 0 THEN parts ELSE c[n]
  BY DEF FlattenSeq
<1>5. n = 0 => parts = <<>>
  OBVIOUS
<1>. HIDE DEF Body, S, n
<1>6. Rounds(round, n, S)
  BY <1>2 DEF Rounds
<1>7. \A i \in 1..n, out \in S : round[i][out] = Body(out, i)
  OBVIOUS
<1>. HIDE DEF round
<1>8. PICK f : Iterates(f, round, n, <<>>, S)
  BY <1>1, <1>6, IteratesExist
<1>9. f \in [0..n -> S] /\ f[0] = <<>> /\ \A i \in 1..n : f[i] = Body(f[i - 1], i)
  <2>1. f \in [0..n -> S] /\ f[0] = <<>> /\ \A i \in 1..n : f[i] = round[i][f[i - 1]]
    BY <1>8 DEF Iterates
  <2>2. ASSUME NEW i \in 1..n PROVE f[i - 1] \in S
    <3>1. i - 1 \in 0..n
      BY <1>1
    <3>. QED BY <2>1, <3>1
  <2>. QED BY <1>7, <2>1, <2>2
<1>10. \A i \in 1..n : f[i] = IF i = 1 THEN parts[i] ELSE Body(f[i - 1], i)
  <2>1. \A i \in 1..n : i = 1 => f[i] = parts[i]
    <3>1. \A i \in 1..n : i = 1 => f[i - 1] = <<>>
      BY <1>9
    <3>. QED BY <1>3, <1>9, <3>1
  <2>. QED BY <1>9, <2>1
<1>. DEFINE g == [i \in 1..n |-> f[i]]
<1>11. Rec(g)
  <2>1. \A i \in 1..n : i # 1 => i - 1 \in 1..n
    BY <1>1
  <2>2. \A i \in 1..n : g[i] = IF i = 1 THEN parts[i] ELSE Body(g[i - 1], i)
    BY <1>10, <2>1
  <2>. QED BY <2>2
<1>12. Rec(c)
  BY <1>11
<1>. HIDE DEF g
<1>13. \A i \in 1..n : c[i] = IF i = 1 THEN parts[i] ELSE Body(c[i - 1], i)
  BY <1>12
<1>. HIDE DEF c
<1>14. ASSUME n # 0 PROVE c[n] = f[n]
  <2>. DEFINE h == [i \in 0..n |-> IF i = 0 THEN <<>> ELSE c[i]]
  <2>1. h[0] = <<>> /\ \A i \in 1..n : h[i] = c[i] /\ (i # 1 => h[i - 1] = c[i - 1])
    BY <1>1
  <2>. HIDE DEF h
  <2>2. SameSteps(h, f, n)
    BY <1>10, <1>13, <2>1 DEF SameSteps
  <2>3. h[n] = f[n]
    BY <1>1, <1>9, <2>1, <2>2, SameEnd
  <2>. QED BY <1>1, <1>14, <2>1, <2>3
<1>15. FlattenSeq(parts) = f[n]
  BY <1>4, <1>5, <1>9, <1>14
<1>16. Flattens(f, parts, T)
  BY <1>9 DEF Flattens, n, S, Body
<1>. QED BY <1>15, <1>16 DEF n

-------------------------------------------------------------------------------
(* Trees: those of level n have trees of the level below, below has those of   *)
(* each.  What holds of a tree when it holds of those below it holds of all,   *)
(* and there is a function of trees that is computed from those below.         *)

Of(f, trees) == [i \in DOMAIN trees |-> f[trees[i]]]

TreeLevels(levels, m, below) ==
  /\ m \in Nat
  /\ \A s \in levels[0] : below[s] = <<>>
  /\ \A n \in 1..m : levels[n - 1] \subseteq levels[n]
  /\ \A n \in 1..m : \A s \in levels[n] : below[s] \in Seq(levels[n - 1])

LEMMA LevelBelow ==
  ASSUME NEW levels, NEW m, NEW below, TreeLevels(levels, m, below), NEW n \in 0..m
  PROVE  levels[n] \subseteq levels[m]
<1>. DEFINE R == {k \in 0..m : levels[m - k] \subseteq levels[m]}
<1>1. m \in Nat /\ \A k \in 1..m : levels[k - 1] \subseteq levels[k]
  BY DEF TreeLevels
<1>2. 0 \in R
  BY <1>1
<1>3. ASSUME NEW k \in 0..(m - 1), k \in R PROVE k + 1 \in R
  <2>1. m - k \in 1..m /\ m - k - 1 = m - (k + 1) /\ k + 1 \in 0..m
    BY <1>1
  <2>2. levels[m - (k + 1)] \subseteq levels[m - k]
    BY <1>1, <2>1
  <2>3. levels[m - k] \subseteq levels[m]
    BY <1>3
  <2>. QED BY <2>1, <2>2, <2>3
<1>. HIDE DEF R
<1>4. 0..m \subseteq R
  BY <1>1, <1>2, <1>3, BoundedInduction
<1>5. m - n \in 0..m /\ m - (m - n) = n
  BY <1>1
<1>6. levels[m - (m - n)] \subseteq levels[m]
  BY <1>4, <1>5 DEF R
<1>. QED BY <1>5, <1>6

LEMMA TreeInduction ==
  ASSUME NEW levels, NEW m, NEW below, TreeLevels(levels, m, below), NEW P,
         \A s \in levels[m] : (\A i \in DOMAIN below[s] : below[s][i] \in P) => s \in P
  PROVE  levels[m] \subseteq P
<1>. DEFINE R == {n \in 0..m : levels[n] \subseteq P}
<1>1. m \in Nat
  BY DEF TreeLevels
<1>2. ASSUME NEW n \in 0..m, NEW s \in levels[n],
             \A i \in DOMAIN below[s] : below[s][i] \in P
      PROVE  s \in P
  BY <1>2, LevelBelow
<1>3. 0 \in R
  <2>1. 0 \in 0..m
    BY <1>1
  <2>2. \A s \in levels[0] : DOMAIN below[s] = {}
    BY DEF TreeLevels
  <2>. QED BY <1>2, <2>1, <2>2
<1>4. ASSUME NEW n \in 0..(m - 1), n \in R PROVE n + 1 \in R
  <2>. DEFINE k == n + 1
  <2>1. k \in 1..m /\ k - 1 = n /\ k \in 0..m
    BY <1>1
  <2>. HIDE DEF k
  <2>2. levels[n] \subseteq P
    BY <1>4
  <2>3. ASSUME NEW s \in levels[k] PROVE s \in P
    <3>1. below[s] \in Seq(levels[n])
      BY <2>1 DEF TreeLevels
    <3>2. \A i \in DOMAIN below[s] : below[s][i] \in levels[n]
      BY <3>1
    <3>. QED BY <1>2, <2>1, <2>2, <3>2
  <2>4. k \in R
    BY <2>1, <2>3
  <2>. QED BY <2>4 DEF k
<1>. HIDE DEF R
<1>5. m \in R
  BY <1>1, <1>3, <1>4, BoundedInduction
<1>. QED BY <1>5 DEF R

\* make[<<s, found>>] is made of s and what was found of the trees below it.
Recursive(f, S, T, below, make) ==
  /\ f \in [S -> T]
  /\ \A s \in S : f[s] = make[<<s, Of(f, below[s])>>]

LEMMA RecursionExists ==
  ASSUME NEW levels, NEW m, NEW below, TreeLevels(levels, m, below),
         NEW T, NEW make \in [levels[m] \X Seq(T) -> T]
  PROVE  \E f : Recursive(f, levels[m], T, below, make)
<1>. DEFINE R == {n \in 0..m : \E f : Recursive(f, levels[n], T, below, make)}
<1>1. m \in Nat
  BY DEF TreeLevels
<1>2. ASSUME NEW n \in 0..m, NEW s \in levels[n], NEW found \in Seq(T)
      PROVE  make[<<s, found>>] \in T
  BY <1>2, LevelBelow
<1>3. 0 \in R
  <2>1. 0 \in 0..m /\ <<>> \in Seq(T)
    BY <1>1
  <2>. DEFINE f == [s \in levels[0] |-> make[<<s, <<>>>>]]
  <2>2. f \in [levels[0] -> T]
    BY <1>2, <2>1
  <2>3. ASSUME NEW s \in levels[0] PROVE f[s] = make[<<s, Of(f, below[s])>>]
    <3>1. below[s] = <<>>
      BY DEF TreeLevels
    <3>2. Of(f, below[s]) = <<>>
      BY <3>1 DEF Of
    <3>. QED BY <3>2
  <2>. HIDE DEF f
  <2>4. Recursive(f, levels[0], T, below, make)
    BY <2>2, <2>3 DEF Recursive
  <2>. QED BY <2>1, <2>4
<1>4. ASSUME NEW n \in 0..(m - 1), n \in R PROVE n + 1 \in R
  <2>. DEFINE k == n + 1
  <2>1. k \in 1..m /\ k - 1 = n /\ k \in 0..m /\ n \in 0..m
    BY <1>1
  <2>. HIDE DEF k
  <2>2. PICK f : Recursive(f, levels[n], T, below, make)
    BY <1>4
  <2>3. /\ f \in [levels[n] -> T]
        /\ \A s \in levels[n] : f[s] = make[<<s, Of(f, below[s])>>]
    BY <2>2 DEF Recursive
  <2>4. levels[n] \subseteq levels[k] /\ \A s \in levels[k] : below[s] \in Seq(levels[n])
    BY <2>1 DEF TreeLevels
  <2>. DEFINE g == [s \in levels[k] |-> make[<<s, Of(f, below[s])>>]]
  <2>5. \A s \in levels[n] : g[s] = f[s]
    BY <2>3, <2>4
  <2>6. ASSUME NEW s \in levels[k]
        PROVE  Of(g, below[s]) = Of(f, below[s]) /\ Of(f, below[s]) \in Seq(T)
    <3>. DEFINE trees == below[s]
    <3>1. trees \in Seq(levels[n])
      BY <2>4
    <3>. HIDE DEF trees, g
    <3>2. \A i \in DOMAIN trees : trees[i] \in levels[n]
      BY <3>1
    <3>3. Of(g, trees) = Of(f, trees)
      BY <2>5, <3>2 DEF Of
    <3>4. Of(f, trees) \in Seq(T)
      <4>1. Len(trees) \in Nat /\ DOMAIN trees = 1..Len(trees)
        BY <3>1
      <4>2. \A i \in 1..Len(trees) : f[trees[i]] \in T
        BY <2>3, <3>2, <4>1
      <4>. QED BY <4>1, <4>2, IsASeq DEF Of
    <3>. QED BY <3>3, <3>4 DEF trees
  <2>7. g \in [levels[k] -> T]
    BY <1>2, <2>1, <2>6
  <2>8. \A s \in levels[k] : g[s] = make[<<s, Of(g, below[s])>>]
    BY <2>6
  <2>. HIDE DEF g
  <2>9. Recursive(g, levels[k], T, below, make)
    BY <2>7, <2>8 DEF Recursive
  <2>10. k \in R
    BY <2>1, <2>9
  <2>. QED BY <2>10 DEF k
<1>. HIDE DEF R
<1>5. 0..m \subseteq R
  <2>1. \A n \in 0..(m - 1) : n \in R => n + 1 \in R
    BY <1>4
  <2>. QED BY <1>1, <1>3, <2>1, BoundedInduction
<1>6. m \in R
  BY <1>1, <1>5
<1>. QED BY <1>6 DEF R
===============================================================================
