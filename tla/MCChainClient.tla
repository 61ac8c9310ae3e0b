---------------------------- MODULE MCChainClient ----------------------------
(***************************************************************************)
(* Three goroutines, so that two make connections while a third reads, and *)
(* three tries with the next nonce: the first may be accepted with its     *)
(* answer lost, and another follow.                                        *)
(***************************************************************************)
EXTENDS ChainClient

CONSTANTS c1, c2, c3

MCCallers == {c1, c2, c3}
=============================================================================
