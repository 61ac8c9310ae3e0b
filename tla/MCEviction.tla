----------------------------- MODULE MCEviction -----------------------------
(***************************************************************************)
(* Three slices of different sizes on a disk that can hold little more     *)
(* than them.                                                              *)
(***************************************************************************)
EXTENDS Eviction, TLC

CONSTANTS h1, h2, h3

MCHashes == {h1, h2, h3}
MCSliceSize == (h1 :> 2) @@ (h2 :> 3) @@ (h3 :> 4)
MCConfigs ==
    {[max |-> 12, rate |-> 75, threshold |-> 60],
     [max |-> 0, rate |-> 50, threshold |-> -1]}
=============================================================================
