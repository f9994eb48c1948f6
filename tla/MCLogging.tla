----------------------------- MODULE MCLogging -----------------------------
(* Instances of Logging for TLC: counted producers are interchangeable. *)
EXTENDS Logging, TLC
CountedSymmetry == Permutations(Counted)
=============================================================================
