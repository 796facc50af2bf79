----------------------------- MODULE MCMoveLoop -----------------------------
(* MoveLoop for TLC: two venues. *)
EXTENDS MoveLoop, TLC

CONSTANTS v, w

MCVenues == {v, w}

\* Bound: what the books do not cover happens once.
OneStray == Cardinality(strays) <= 1
=============================================================================
