------------------------------ MODULE MCConsumer ------------------------------
(* Instances of Consumer for TLC. *)
EXTENDS Consumer, TLC

\* The streams are interchangeable: no action or invariant names one.
StreamSymmetry == Permutations(Streams)
===============================================================================
