------------------------------ MODULE Download ------------------------------
(***************************************************************************)
(* What the cache may expect of trans.DownloadFile once the storage miner  *)
(* has been reached: the file is created, grows, and is whole when success *)
(* is reported; after a failure it holds anything, and one more write may  *)
(* come late.                                                              *)
(***************************************************************************)
EXTENDS Integers

CONSTANT Chunks     \* the slice, in messages

VARIABLES
    disk,       \* chunks in the file, or NoFile
    result,     \* "none" before DownloadFile ends; then "ok", "err" or "panic"
    late        \* whether the file was written after it ended

vars == <<disk, result, late>>

NoFile == -1

Init == disk = NoFile /\ result = "none" /\ late = FALSE

Create ==
    /\ disk = NoFile /\ result = "none"
    /\ disk' = 0
    /\ UNCHANGED <<result, late>>

Grow ==
    /\ disk \in 0..Chunks-1
    /\ disk' = disk + 1
    /\ IF result = "none"
       THEN UNCHANGED late
       ELSE result # "ok" /\ late = FALSE /\ late' = TRUE
    /\ UNCHANGED result

End(r) ==
    /\ result = "none"
    /\ r = "ok" => disk = Chunks
    /\ result' = r
    /\ UNCHANGED <<disk, late>>

Next == Create \/ Grow \/ \E r \in {"ok", "err", "panic"} : End(r)

Spec == Init /\ [][Next]_vars
=============================================================================
