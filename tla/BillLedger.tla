----------------------------- MODULE BillLedger -----------------------------
(***************************************************************************)
(* What the cacher promises about the bills its users paid for, while they *)
(* are valid: a bill is claimed by one request at a time, which gives it   *)
(* back, or spends it on a slice, once, or loses it, when it fails in the  *)
(* making of a token.  Nothing is promised of an expired bill.  The        *)
(* process keeps the ledger in memory: a restart frees every valid bill.   *)
(***************************************************************************)
CONSTANT Bills

VARIABLE ledger

Entries == {"free", "claimed", "spent", "lost", "expired"}

Init == ledger \in [Bills -> {"free", "expired"}]

Move(b, from, to) ==
    /\ ledger[b] = from
    /\ ledger' = [ledger EXCEPT ![b] = to]

Claim(b) == Move(b, "free", "claimed")
Refund(b) == Move(b, "claimed", "free")
Spend(b) == Move(b, "claimed", "spent")
Lose(b) == Move(b, "claimed", "lost")

(* Time passes, whatever the bill is used for.                             *)
Expire(b) == ledger' = [ledger EXCEPT ![b] = "expired"]

Restart == ledger' = [b \in Bills |-> IF ledger[b] = "expired" THEN "expired" ELSE "free"]

Next ==
    \/ \E b \in Bills : Claim(b) \/ Refund(b) \/ Spend(b) \/ Lose(b) \/ Expire(b)
    \/ Restart

Spec == Init /\ [][Next]_ledger
=============================================================================
