------------------------------- MODULE Tallies -------------------------------
(***************************************************************************)
(* The total of a count that several streams keep, each its own, as the    *)
(* number of the units they counted.                                       *)
(***************************************************************************)
EXTENDS Naturals, FiniteSets

\* The units of a count: <<s, 1>>, <<s, 2>> ... as many as count[s].
Units(count) == UNION {{s} \X (1..count[s]) : s \in DOMAIN count}

Total(count) == Cardinality(Units(count))
===============================================================================
