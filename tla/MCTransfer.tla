---------------------------- MODULE MCTransfer ----------------------------
(***************************************************************************)
(* Transfer for TLC: a slice of three messages and a recv of one place.    *)
(* Both are scaled down: the code's recv has ten, and the miner sends a    *)
(* slice in as many messages as it likes, more than recv holds.            *)
(***************************************************************************)
EXTENDS Transfer
=============================================================================
