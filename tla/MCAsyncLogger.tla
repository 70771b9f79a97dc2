---------------------------- MODULE MCAsyncLogger ----------------------------
(* AsyncLogger for TLC.                                                     *)
EXTENDS AsyncLogger, TLC

Symmetry == Permutations(Callers)
=============================================================================
