---------------------------- MODULE MCSliceCache ----------------------------
(***************************************************************************)
(* Two slices of different sizes and one or two clients, in the smallest   *)
(* caches in which every case happens.  A channel of one place makes the   *)
(* senders wait.  Sizes are words of 64 values, far above the three bytes  *)
(* the slices have, so that a size wraps around only below zero.           *)
(***************************************************************************)
EXTENDS SliceCache, TLC

CONSTANTS h1, h2, c1, c2

MCHashes == {h1, h2}
MCClients == {c1, c2}
MCOneClient == {c1}
MCSliceSize == (h1 :> 1) @@ (h2 :> 2)
Symmetry == Permutations(MCClients)
=============================================================================
