---------------------------- MODULE MCSourceStream ----------------------------
(* Instances of SourceStream for TLC. *)
EXTENDS SourceStream, TLC

\* The streams are interchangeable: no action or invariant names one.
StreamSymmetry == Permutations(Streams)
===============================================================================
