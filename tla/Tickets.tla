------------------------------- MODULE Tickets -------------------------------
(***************************************************************************)
(* Bills, tokens and tickets: server/service/auth.go, download.go and      *)
(* server/middleware/middleware.go.                                        *)
(*                                                                         *)
(* A user's bill buys one download of one slice.  GenerateToken turns it   *)
(* into a token, encrypted with a key the process makes up when it first   *)
(* needs one; Auth decrypts the token, and DownloadService serves the      *)
(* slice.  The table "tickets" marks the bills that are in use or used.    *)
(* Handlers run concurrently, and every access to the table, to the key    *)
(* and to the clock is a step of its own.                                  *)
(***************************************************************************)
EXTENDS Naturals, FiniteSets

CONSTANTS
    Bills,          \* bill ids, each for one slice
    Handlers,       \* the goroutines of the HTTP server
    NoBill,         \* "no bill"
    MaxRestarts     \* bound on the restarts of the process

ASSUME NoBillAssumption == NoBill \notin Bills
ASSUME MaxRestartsAssumption == MaxRestarts \in Nat

NoKey == 0          \* aesHandle.Enc is nil; the keys are numbered from 1

Tokens == [bill : Bills, key : Nat]

VARIABLES
    tickets,    \* the keys of the table
    expired,    \* the bills whose time is over; the time is part of the bill
    aesKey,     \* aesHandle.Enc
    keys,       \* the number of keys made so far, all different
    tokens,     \* tokens users were given
    pc, bill,   \* per handler: next step and the bill it works on
    key,        \* per handler: the key of the token it was given or has made
    measuring,  \* the first network measurement holds the lock of netInfo
    spent,      \* history: the bills served since the process was started
    abandoned,  \* history: those a failed token request left marked since then
    served,     \* history: how often a bill was served, ever
    restarts    \* bound only: restarts so far

handlerVars == <<pc, bill, key>>
vars == <<tickets, expired, aesKey, keys, tokens, handlerVars, measuring,
          spent, abandoned, served, restarts>>

GenSteps == {"genClaim", "genKey", "genNewKey", "genEncrypt", "genFinish"}
AuthSteps == {"authKey", "authNewKey", "authDecrypt"}
DownSteps == {"downCheck", "downClaim", "downHit", "downProgress", "downOpen", "release"}

TypeOK ==
    /\ tickets \subseteq Bills /\ expired \subseteq Bills
    /\ keys \in Nat /\ aesKey \in 0..keys
    /\ tokens \subseteq Tokens
    /\ pc \in [Handlers -> {"idle", "purge"} \cup GenSteps \cup AuthSteps \cup DownSteps]
    /\ bill \in [Handlers -> Bills \cup {NoBill}]
    /\ \A p \in Handlers : pc[p] # "idle" => bill[p] \in Bills
    /\ key \in [Handlers -> Nat]
    /\ measuring \in BOOLEAN
    /\ spent \subseteq Bills /\ abandoned \subseteq Bills
    /\ served \in [Bills -> Nat]
    /\ restarts \in 0..MaxRestarts

Init ==
    /\ tickets = {} /\ expired \in SUBSET Bills
    /\ aesKey = NoKey /\ keys = 0 /\ tokens = {}
    /\ pc = [p \in Handlers |-> "idle"]
    /\ bill = [p \in Handlers |-> NoBill]
    /\ key = [p \in Handlers |-> NoKey]
    /\ measuring = TRUE
    /\ spent = {} /\ abandoned = {} /\ served = [b \in Bills |-> 0]
    /\ restarts = 0

-----------------------------------------------------------------------------
Goto(p, step) == pc' = [pc EXCEPT ![p] = step]

Return(p) ==
    /\ Goto(p, "idle")
    /\ bill' = [bill EXCEPT ![p] = NoBill]
    /\ key' = [key EXCEPT ![p] = NoKey]

(* Mutant of TicketBeUsed: the mark goes whether its time is over or not.  *)
MutTicketBeUsedPurges(p, next) ==
    /\ tickets' = tickets \cup {bill[p]}
    /\ Goto(p, IF bill[p] \in tickets THEN "purge" ELSE next)
    /\ UNCHANGED <<bill, key>>

(* ticketBeUsed: LoadOrStore marks the bill, or finds it marked, and then  *)
(* the mark goes in a step of its own if its time is over.                 *)
TicketBeUsed(p, next) ==
    /\ tickets' = tickets \cup {bill[p]}
    /\ \/ bill[p] \notin tickets
          /\ Goto(p, next)
          /\ UNCHANGED <<bill, key>>
       \/ bill[p] \in tickets \ expired
          /\ Return(p)
       \/ bill[p] \in tickets \cap expired
          /\ Goto(p, "purge")
          /\ UNCHANGED <<bill, key>>

Purge(p) ==
    /\ pc[p] = "purge"
    /\ tickets' = tickets \ {bill[p]}
    /\ Return(p)
    /\ UNCHANGED <<expired, aesKey, keys, tokens, measuring, spent,
                   abandoned, served, restarts>>

(* The key is looked at, and written in another step: the last writer wins.*)
CheckKey(p, make, use) ==
    /\ Goto(p, IF aesKey = NoKey THEN make ELSE use)
    /\ UNCHANGED <<tickets, expired, aesKey, keys, tokens, bill, key, measuring, spent,
                   abandoned, served, restarts>>

NewKey(p, use) ==
    /\ keys' = keys + 1
    /\ aesKey' = keys + 1
    /\ Goto(p, use)
    /\ UNCHANGED <<tickets, expired, tokens, bill, key, measuring, spent,
                   abandoned, served, restarts>>

-----------------------------------------------------------------------------
(* GenerateToken.                                                          *)

(* Mutant of GenStart: the error of PraseTicketByBID is not looked at, and *)
(* the empty ticket is used.                                               *)
MutGenStartEmptyTicket(p, b) ==
    /\ pc[p] = "idle"
    /\ Goto(p, "genClaim")
    /\ bill' \in {bill, [bill EXCEPT ![p] = b]}
    /\ UNCHANGED <<tickets, expired, aesKey, keys, tokens, key, measuring, spent,
                   abandoned, served, restarts>>

(* The chain knows the bill and the signature is its owner's; whether the  *)
(* bill has expired is not asked.                                          *)
GenStart(p, b) ==
    /\ pc[p] = "idle"
    /\ Goto(p, "genClaim")
    /\ bill' = [bill EXCEPT ![p] = b]
    /\ UNCHANGED <<tickets, expired, aesKey, keys, tokens, key, measuring, spent,
                   abandoned, served, restarts>>

GenClaim(p) ==
    /\ pc[p] = "genClaim"
    /\ TicketBeUsed(p, "genKey")
    /\ UNCHANGED <<expired, aesKey, keys, tokens, measuring, spent,
                   abandoned, served, restarts>>

(* Mutant of GenCheckKey: each token gets a key of its own.                *)
MutGenCheckKeyAlways(p) ==
    /\ pc[p] = "genKey"
    /\ Goto(p, "genNewKey")
    /\ UNCHANGED <<tickets, expired, aesKey, keys, tokens, bill, key, measuring, spent,
                   abandoned, served, restarts>>

GenCheckKey(p) == pc[p] = "genKey" /\ CheckKey(p, "genNewKey", "genEncrypt")

GenNewKey(p) == pc[p] = "genNewKey" /\ NewKey(p, "genEncrypt")

GenEncrypt(p) ==
    /\ pc[p] = "genEncrypt"
    /\ key' = [key EXCEPT ![p] = aesKey]
    /\ Goto(p, "genFinish")
    /\ UNCHANGED <<tickets, expired, aesKey, keys, tokens, bill, measuring, spent,
                   abandoned, served, restarts>>

(* HexStringToBase58 or SymmetricEncrypt refuses, and GenerateToken        *)
(* returns the error without deleteTicket.  A user gets there with a hash  *)
(* of an odd number of digits: HexDecodeString puts a zero before it, so   *)
(* the bill is found and marked, and HexStringToBase58 takes it as it is.  *)
GenFails(p) ==
    /\ pc[p] = "genEncrypt"
    /\ abandoned' = abandoned \cup {bill[p]}
    /\ Return(p)
    /\ UNCHANGED <<tickets, expired, aesKey, keys, tokens, measuring, spent,
                   served, restarts>>

(* Mutant of GenFinish: the mark stays.                                    *)
MutGenFinishKeepsMark(p) ==
    /\ pc[p] = "genFinish"
    /\ tokens' = tokens \cup {[bill |-> bill[p], key |-> key[p]]}
    /\ Return(p)
    /\ UNCHANGED <<tickets, expired, aesKey, keys, measuring, spent,
                   abandoned, served, restarts>>

(* HitOrLoad has warmed up the cache, whatever came of it; the mark goes,  *)
(* and the user gets the token.                                            *)
GenFinish(p) ==
    /\ pc[p] = "genFinish"
    /\ tickets' = tickets \ {bill[p]}
    /\ tokens' = tokens \cup {[bill |-> bill[p], key |-> key[p]]}
    /\ Return(p)
    /\ UNCHANGED <<expired, aesKey, keys, measuring, spent,
                   abandoned, served, restarts>>

-----------------------------------------------------------------------------
(* Auth.                                                                   *)

AuthStart(p, t) ==
    /\ pc[p] = "idle"
    /\ Goto(p, "authKey")
    /\ bill' = [bill EXCEPT ![p] = t.bill]
    /\ key' = [key EXCEPT ![p] = t.key]
    /\ UNCHANGED <<tickets, expired, aesKey, keys, tokens, measuring, spent,
                   abandoned, served, restarts>>

AuthCheckKey(p) == pc[p] = "authKey" /\ CheckKey(p, "authNewKey", "authDecrypt")
AuthNewKey(p) == pc[p] = "authNewKey" /\ NewKey(p, "authDecrypt")

Decrypts(p) == key[p] = aesKey

(* A token under another key is a bad token.  The chain, asked for the     *)
(* bill again, may not answer.                                             *)
AuthDecrypt(p) ==
    /\ pc[p] = "authDecrypt"
    /\ \/ Decrypts(p) /\ Goto(p, "downCheck") /\ UNCHANGED <<bill, key>>
       \/ Return(p)
    /\ UNCHANGED <<tickets, expired, aesKey, keys, tokens, measuring, spent,
                   abandoned, served, restarts>>

-----------------------------------------------------------------------------
(* DownloadService.                                                        *)

DownCheck(p) ==
    /\ pc[p] = "downCheck"
    /\ IF bill[p] \in expired
       THEN Return(p)
       ELSE Goto(p, "downClaim") /\ UNCHANGED <<bill, key>>
    /\ UNCHANGED <<tickets, expired, aesKey, keys, tokens, measuring, spent,
                   abandoned, served, restarts>>

DownClaim(p) ==
    /\ pc[p] = "downClaim"
    /\ TicketBeUsed(p, "downHit")
    /\ UNCHANGED <<expired, aesKey, keys, tokens, measuring, spent,
                   abandoned, served, restarts>>

(* Mutant of DownHit: a failed HitOrLoad returns like a failed check.      *)
MutDownHitKeepsMark(p) ==
    /\ pc[p] = "downHit"
    /\ \/ Goto(p, "downOpen") /\ UNCHANGED <<bill, key>>
       \/ Return(p)
    /\ UNCHANGED <<tickets, expired, aesKey, keys, tokens, measuring, spent,
                   abandoned, served, restarts>>

(* HitOrLoad says cached; or it fails or the download failed before, and   *)
(* the bill is given back; or the slice is being cached.                   *)
DownHit(p) ==
    /\ pc[p] = "downHit"
    /\ \E step \in {"downOpen", "release", "downProgress"} : Goto(p, step)
    /\ UNCHANGED <<tickets, expired, aesKey, keys, tokens, bill, key, measuring, spent,
                   abandoned, served, restarts>>

(* The answer that it is being cached tells how long it will take, and for *)
(* this the handler waits until the network has been measured once.        *)
DownProgress(p) ==
    /\ pc[p] = "downProgress"
    /\ ~ measuring
    /\ Goto(p, "release")
    /\ UNCHANGED <<tickets, expired, aesKey, keys, tokens, bill, key, measuring, spent,
                   abandoned, served, restarts>>

(* UpdateNetStats measures with the lock held, again and again until it    *)
(* succeeds.  Later it measures every minute, and locks only to assign.    *)
NetMeasured ==
    /\ measuring
    /\ measuring' = FALSE
    /\ UNCHANGED <<tickets, expired, aesKey, keys, tokens, handlerVars, spent,
                   abandoned, served, restarts>>

(* Mutant of DownOpen: the mark goes whether the file is there or not.     *)
MutDownOpenReleases(p) ==
    /\ pc[p] = "downOpen"
    /\ \/ /\ spent' = spent \cup {bill[p]}
          /\ served' = [served EXCEPT ![bill[p]] = @ + 1]
          /\ Goto(p, "release")
          /\ UNCHANGED <<bill, key>>
       \/ Goto(p, "release") /\ UNCHANGED <<bill, key, spent, served>>
    /\ UNCHANGED <<tickets, expired, aesKey, keys, tokens, measuring, abandoned, restarts>>

(* The file is there and is sent: the mark stays.  Or it is gone.          *)
DownOpen(p) ==
    /\ pc[p] = "downOpen"
    /\ \/ /\ spent' = spent \cup {bill[p]}
          /\ served' = [served EXCEPT ![bill[p]] = @ + 1]
          /\ Return(p)
       \/ Goto(p, "release") /\ UNCHANGED <<bill, key, spent, served>>
    /\ UNCHANGED <<tickets, expired, aesKey, keys, tokens, measuring, abandoned, restarts>>

Release(p) ==
    /\ pc[p] = "release"
    /\ tickets' = tickets \ {bill[p]}
    /\ Return(p)
    /\ UNCHANGED <<expired, aesKey, keys, tokens, measuring, spent,
                   abandoned, served, restarts>>

-----------------------------------------------------------------------------
(* Mutant of OrdersClean: the comparison is the wrong way round.           *)
MutOrdersCleanInverted(b) ==
    /\ b \in tickets \ expired
    /\ tickets' = tickets \ {b}
    /\ UNCHANGED <<expired, aesKey, keys, tokens, handlerVars, measuring, spent,
                   abandoned, served, restarts>>

(* OrdersCleanServer goes through the table every three hours.             *)
OrdersClean(b) ==
    /\ b \in tickets \cap expired
    /\ tickets' = tickets \ {b}
    /\ UNCHANGED <<expired, aesKey, keys, tokens, handlerVars, measuring, spent,
                   abandoned, served, restarts>>

Expire(b) ==
    /\ expired' = expired \cup {b}
    /\ UNCHANGED <<tickets, aesKey, keys, tokens, handlerVars, measuring, spent,
                   abandoned, served, restarts>>

(* The process ends and is started again: the table and the key are gone,  *)
(* the users keep their tokens.                                            *)
Restart ==
    /\ restarts < MaxRestarts
    /\ restarts' = restarts + 1
    /\ tickets' = {} /\ aesKey' = NoKey /\ measuring' = TRUE
    /\ spent' = {} /\ abandoned' = {}
    /\ pc' = [p \in Handlers |-> "idle"]
    /\ bill' = [p \in Handlers |-> NoBill]
    /\ key' = [p \in Handlers |-> NoKey]
    /\ UNCHANGED <<expired, keys, tokens, served>>

(* The steps of a request that was made.                                   *)
Handle(p) ==
    \/ Purge(p)
    \/ GenClaim(p) \/ GenCheckKey(p) \/ GenNewKey(p) \/ GenEncrypt(p)
    \/ GenFails(p) \/ GenFinish(p)
    \/ AuthCheckKey(p) \/ AuthNewKey(p) \/ AuthDecrypt(p)
    \/ DownCheck(p) \/ DownClaim(p) \/ DownHit(p) \/ DownProgress(p)
    \/ DownOpen(p) \/ Release(p)

Next ==
    \/ \E p \in Handlers, b \in Bills : GenStart(p, b)
    \/ \E p \in Handlers, t \in tokens : AuthStart(p, t)
    \/ \E p \in Handlers : Handle(p)
    \/ \E b \in Bills : OrdersClean(b) \/ Expire(b)
    \/ NetMeasured \/ Restart

(* A handler that runs goes on, the cleaning server does, and the network  *)
(* is measured in the end, which is an assumption about the tool that is   *)
(* called.  Users need not ask, bills need not expire, and the process     *)
(* need not restart.                                                       *)
Fairness ==
    /\ \A p \in Handlers : WF_vars(Handle(p))
    /\ \A b \in Bills : WF_vars(OrdersClean(b))
    /\ WF_vars(NetMeasured)

Spec == Init /\ [][Next]_vars
FairSpec == Spec /\ Fairness

-----------------------------------------------------------------------------
(* The handlers that work on a bill they have marked.                      *)
Holding == (GenSteps \ {"genClaim"}) \cup {"downHit", "downProgress", "downOpen", "release"}
Holds(p, b) == pc[p] \in Holding /\ bill[p] = b

(* A valid bill is marked exactly when one handler holds it, or it is      *)
(* spent, or a failed token request abandoned it, and no two of the three  *)
(* are true of it: nobody's mark is taken away, no handler takes a bill    *)
(* that is spent, and no path but one leaves a mark nobody owns (auth.go:33*)
(* and 55, and the deletes of download.go).  An expired bill may lose its  *)
(* mark under the handler that holds it, to a request that purges it.      *)
MarkHasOneOwner ==
    \A b \in Bills \ expired :
        /\ \A p, q \in Handlers : Holds(p, b) /\ Holds(q, b) => p = q
        /\ b \in tickets <=>
            b \in spent \/ b \in abandoned \/ \E p \in Handlers : Holds(p, b)
        /\ ~ (b \in spent \/ b \in abandoned) \/ ~ \E p \in Handlers : Holds(p, b)
        /\ ~ (b \in spent /\ b \in abandoned)

(* Within one life of the process a bill is served again only when it has  *)
(* expired, by a request that saw it valid (download.go:43) and marked it  *)
(* after the cleaning server had removed the first mark.                   *)
ServedAgainOnlyExpired ==
    [][\A b \in Bills : (b \in spent /\ served'[b] # served[b]) => b \in expired]_vars

(* The bills as BillLedger has them.                                       *)
ledger == [b \in Bills |-> IF b \in expired THEN "expired"
                          ELSE IF b \notin tickets THEN "free"
                          ELSE IF b \in spent THEN "spent"
                          ELSE IF b \in abandoned THEN "lost" ELSE "claimed"]

Ledger == INSTANCE BillLedger

(* Every interleaving of token generation, downloads, cleaning and restart *)
(* keeps the promise about valid bills.                                    *)
KeepsLedger == Ledger!Spec

(* Every path of the two services comes to its end, and that of a download *)
(* past the measurement of the network (info.go:191): the mark a request   *)
(* set is taken back, or the bill is spent; or else the request was one    *)
(* for a token, and failed where GenerateToken forgets the mark.           *)
MarkSettles ==
    \A b \in Bills : b \in tickets ~> (b \notin tickets \/ b \in spent \cup abandoned)

(* "The service will record the used bill" (README.md:84), and refuses it  *)
(* with "The ticket has been used" (download.go:48): a valid bill in the   *)
(* table has bought its slice, or a request is using it.                   *)
RecordsUsedBills ==
    \A b \in tickets \ expired : b \in spent \/ \E p \in Handlers : Holds(p, b)

(* "The service will record the used bill and automatically destroy it     *)
(* after it expires" (README.md:84): the mark of an expired bill goes.     *)
DestroyedAfterExpiry ==
    \A b \in Bills : b \in tickets \cap expired ~> b \notin tickets

(* "the key used to encrypt the token" (README.md:28) becomes one key.     *)
(* Handlers that look for it at the same time each make one, and tokens    *)
(* under the earlier ones are refused (auth.go:37 and 69); but once there  *)
(* is a key, and no handler on its way to make another, it stays until the *)
(* process ends, and every token made from then on is accepted.            *)
Settled == aesKey # NoKey /\ \A p \in Handlers : pc[p] \notin {"genNewKey", "authNewKey"}

KeySettles ==
    [][Settled /\ restarts' = restarts => Settled' /\ aesKey' = aesKey]_vars
=============================================================================
