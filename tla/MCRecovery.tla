----------------------------- MODULE MCRecovery -----------------------------
(***************************************************************************)
(* Recovery for TLC: two slices, and three starts, so that what one start  *)
(* leaves is found by a second one, and what that did by a third.          *)
(***************************************************************************)
EXTENDS Recovery, TLC
CONSTANTS h1, h2
MCHashes == {h1, h2}
Symmetry == Permutations(MCHashes)
=============================================================================
