---------------------------- MODULE MCHashQueue ----------------------------
(***************************************************************************)
(* Four hashes and three senders on a channel of one place: a sender can   *)
(* block on the full channel while the others queue different hashes, and  *)
(* two can ask for the same hash at once.                                  *)
(***************************************************************************)
EXTENDS HashQueue

CONSTANTS h1, h2, h3, h4, p1, p2, p3

MCHashes == {h1, h2, h3, h4}
MCSenders == {p1, p2, p3}
=============================================================================
