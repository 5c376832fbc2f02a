--------------------------------- MODULE Loops ---------------------------------
(***************************************************************************)
(* A loop that counts: what out has become after n rounds, when round i    *)
(* makes Body(out, i) of it.                                               *)
(***************************************************************************)
EXTENDS Naturals

Loop(Body(_, _), start, n) ==
  LET after[i \in 0..n] == IF i = 0 THEN start ELSE Body(after[i - 1], i)
  IN  after[n]
===============================================================================
