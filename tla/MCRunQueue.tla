----------------------------- MODULE MCRunQueue -----------------------------
(***************************************************************************)
(* Small instances of RunQueue for TLC.                                    *)
(***************************************************************************)
EXTENDS RunQueue, TLC

CONSTANTS e1, e2, e3

PairBatch == {<<e2, e3>>}

\* Pushers, and poppers, are interchangeable.
ThreadSymmetry == Permutations(Pushers) \cup Permutations(Poppers)
=============================================================================
