---------------------------- MODULE TicketsProofs ----------------------------
(***************************************************************************)
(* For any bills, any number of handlers and any number of restarts: a     *)
(* valid bill is owned by one handler at a time, spent once, left marked   *)
(* without an owner by failed token requests only, and the table is an     *)
(* implementation of BillLedger.                                           *)
(***************************************************************************)
EXTENDS Tickets, TLAPS

(* The variables keep their types.                                         *)
LEMMA TypeStep == TypeOK /\ [Next]_vars => TypeOK'
<1> SUFFICES ASSUME TypeOK, [Next]_vars PROVE TypeOK'
  OBVIOUS
<1> USE NoBillAssumption, MaxRestartsAssumption
<1> USE DEF TypeOK, GenSteps, AuthSteps, DownSteps, NoKey, Tokens
<1>1. ASSUME NEW p \in Handlers, NEW b \in Bills, GenStart(p, b) PROVE TypeOK'
  BY <1>1 DEF GenStart, Goto
<1>2. ASSUME NEW p \in Handlers, NEW t \in tokens, AuthStart(p, t) PROVE TypeOK'
  BY <1>2 DEF AuthStart, Goto
<1>3. ASSUME NEW p \in Handlers, Purge(p) PROVE TypeOK'
  BY <1>3 DEF Purge, Return, Goto
<1>4. ASSUME NEW p \in Handlers, GenClaim(p) PROVE TypeOK'
  BY <1>4 DEF GenClaim, TicketBeUsed, Return, Goto
<1>5. ASSUME NEW p \in Handlers, GenCheckKey(p) \/ AuthCheckKey(p) PROVE TypeOK'
  BY <1>5 DEF GenCheckKey, AuthCheckKey, CheckKey, Goto
<1>6. ASSUME NEW p \in Handlers, GenNewKey(p) \/ AuthNewKey(p) PROVE TypeOK'
  BY <1>6 DEF GenNewKey, AuthNewKey, NewKey, Goto
<1>7. ASSUME NEW p \in Handlers, GenEncrypt(p) PROVE TypeOK'
  BY <1>7 DEF GenEncrypt, Goto
<1>8. ASSUME NEW p \in Handlers, GenFinish(p) PROVE TypeOK'
  BY <1>8 DEF GenFinish, Return, Goto
<1>9. ASSUME NEW p \in Handlers, AuthDecrypt(p) PROVE TypeOK'
  BY <1>9 DEF AuthDecrypt, Return, Goto
<1>10. ASSUME NEW p \in Handlers, DownCheck(p) PROVE TypeOK'
  BY <1>10 DEF DownCheck, Return, Goto
<1>11. ASSUME NEW p \in Handlers, DownClaim(p) PROVE TypeOK'
  BY <1>11 DEF DownClaim, TicketBeUsed, Return, Goto
<1>12. ASSUME NEW p \in Handlers, DownHit(p) PROVE TypeOK'
  BY <1>12 DEF DownHit, Goto
<1>13. ASSUME NEW p \in Handlers, DownOpen(p) PROVE TypeOK'
  BY <1>13 DEF DownOpen, Return, Goto
<1>14. ASSUME NEW p \in Handlers, Release(p) PROVE TypeOK'
  BY <1>14 DEF Release, Return, Goto
<1>15. ASSUME NEW b \in Bills, OrdersClean(b) \/ Expire(b) PROVE TypeOK'
  BY <1>15 DEF OrdersClean, Expire, handlerVars
<1>16. CASE Restart
  BY <1>16 DEF Restart
<1>17. CASE UNCHANGED vars
  BY <1>17 DEF vars, handlerVars
<1>18. ASSUME NEW p \in Handlers, DownProgress(p) PROVE TypeOK'
  BY <1>18 DEF DownProgress, Goto
<1>19. CASE NetMeasured
  BY <1>19 DEF NetMeasured, handlerVars
<1>20. ASSUME NEW p \in Handlers, GenFails(p) PROVE TypeOK'
  BY <1>20 DEF GenFails, Return, Goto
<1> QED
  BY <1>1, <1>2, <1>3, <1>4, <1>5, <1>6, <1>7, <1>8, <1>9, <1>10, <1>11, <1>12,
     <1>13, <1>14, <1>15, <1>16, <1>17, <1>18, <1>19, <1>20 DEF Next, Handle

THEOREM TypeCorrect == Spec => []TypeOK
<1>1. Init => TypeOK
  BY MaxRestartsAssumption DEF Init, TypeOK, NoKey
<1> QED
  BY <1>1, TypeStep, PTL DEF Spec

-----------------------------------------------------------------------------
(* Ownership is inductive once a handler that is about to purge a mark is  *)
(* known to do so to an expired bill only.                                 *)
PurgesExpired == \A p \in Handlers : pc[p] = "purge" => bill[p] \in expired

IInv == TypeOK /\ MarkHasOneOwner /\ PurgesExpired

(* What a handler's step does to the marks and their holders: nobody else  *)
(* changes, and it holds its bill before and after as its steps say.       *)
LEMMA OthersHold ==
    ASSUME TypeOK, NEW p \in Handlers, NEW s, Goto(p, s),
           bill' = bill \/ bill' = [bill EXCEPT ![p] = NoBill]
    PROVE  /\ \A q \in Handlers \ {p}, b \in Bills : Holds(q, b)' <=> Holds(q, b)
           /\ \A b \in Bills : Holds(p, b)' => s \in Holding /\ bill[p] = b
           /\ bill' = bill /\ s \in Holding => Holds(p, bill[p])'
           /\ pc[p] \in Holding => Holds(p, bill[p])
  BY NoBillAssumption DEF TypeOK, Goto, Holds

LEMMA ClaimKeeps ==
    ASSUME IInv, NEW p \in Handlers, NEW s \in Holding, TicketBeUsed(p, s),
           pc[p] \in {"genClaim", "downClaim"}, UNCHANGED <<expired, spent, abandoned>>
    PROVE  (MarkHasOneOwner /\ PurgesExpired)'
<1>1. bill[p] \in Bills /\ ~ \E b \in Bills : Holds(p, b)
  BY DEF IInv, TypeOK, Holds, Holding, GenSteps
<1>2. CASE bill[p] \notin tickets
  <2>1. Goto(p, s) /\ bill' = bill /\ tickets' = tickets \cup {bill[p]}
    BY <1>2 DEF TicketBeUsed
  <2>2. \A q \in Handlers, b \in Bills :
            Holds(q, b)' <=> Holds(q, b) \/ (q = p /\ b = bill[p])
    BY <1>1, <2>1, OthersHold DEF IInv
  <2>3. MarkHasOneOwner'
    BY <1>1, <1>2, <2>1, <2>2 DEF IInv, MarkHasOneOwner
  <2>4. PurgesExpired'
    BY <2>1 DEF IInv, PurgesExpired, TypeOK, Goto, Holding, GenSteps
  <2> QED
    BY <2>3, <2>4
<1>3. CASE bill[p] \in tickets
  <2>1. PICK t \in {"idle", "purge"} :
            /\ Goto(p, t) /\ tickets' = tickets
            /\ bill' = bill \/ bill' = [bill EXCEPT ![p] = NoBill]
            /\ t = "purge" => bill' = bill /\ bill[p] \in expired
    BY <1>3 DEF TicketBeUsed, Return
  <2>2. \A q \in Handlers, b \in Bills : Holds(q, b)' <=> Holds(q, b)
    BY <1>1, <2>1, OthersHold DEF IInv, Holding, GenSteps
  <2>3. MarkHasOneOwner'
    BY <2>1, <2>2 DEF IInv, MarkHasOneOwner
  <2>4. PurgesExpired'
    BY <2>1 DEF IInv, PurgesExpired, TypeOK, Goto
  <2> QED
    BY <2>3, <2>4
<1> QED
  BY <1>2, <1>3

(* A step that neither takes nor gives up a mark.                          *)
LEMMA GoOnKeeps ==
    ASSUME IInv, NEW p \in Handlers, NEW s, Goto(p, s), s # "purge",
           bill' = bill \/ bill' = [bill EXCEPT ![p] = NoBill],
           pc[p] \in Holding <=> s \in Holding,
           s \in Holding => bill' = bill,
           UNCHANGED <<tickets, expired, spent, abandoned>>
    PROVE  (MarkHasOneOwner /\ PurgesExpired)'
<1>1. \A q \in Handlers, b \in Bills : Holds(q, b)' <=> Holds(q, b)
  BY OthersHold DEF IInv, Holds
<1>2. MarkHasOneOwner'
  BY <1>1 DEF IInv, MarkHasOneOwner
<1>3. PurgesExpired'
  BY DEF IInv, PurgesExpired, TypeOK, Goto
<1> QED
  BY <1>2, <1>3

(* A handler that holds a bill gives it back.                              *)
LEMMA GiveBackKeeps ==
    ASSUME IInv, NEW p \in Handlers, pc[p] \in Holding, Return(p),
           tickets' = tickets \ {bill[p]}, UNCHANGED <<expired, spent, abandoned>>
    PROVE  (MarkHasOneOwner /\ PurgesExpired)'
<1>1. bill[p] \in Bills /\ Holds(p, bill[p])
  BY DEF IInv, TypeOK, Holds, Holding, GenSteps
<1>2. \A q \in Handlers, b \in Bills : Holds(q, b)' <=> Holds(q, b) /\ q # p
  <2>1. Goto(p, "idle") /\ bill' = [bill EXCEPT ![p] = NoBill]
    BY DEF Return
  <2>2. "idle" \notin Holding
    BY DEF Holding, GenSteps
  <2> QED
    BY <2>1, <2>2, OthersHold, ZenonT(30) DEF IInv
<1>3. MarkHasOneOwner'
  BY <1>1, <1>2 DEF IInv, MarkHasOneOwner, Holds
<1>4. PurgesExpired'
  BY DEF IInv, PurgesExpired, TypeOK, Goto, Return
<1> QED
  BY <1>3, <1>4

(* The mark of an expired bill goes, whoever holds it.                     *)
LEMMA DropExpiredKeeps ==
    ASSUME IInv, NEW b \in expired, tickets' = tickets \ {b},
           \/ UNCHANGED <<pc, bill>>
           \/ \E p \in Handlers : pc[p] = "purge" /\ Return(p),
           UNCHANGED <<expired, spent, abandoned>>
    PROVE  (MarkHasOneOwner /\ PurgesExpired)'
<1>1. \A q \in Handlers, c \in Bills : Holds(q, c)' <=> Holds(q, c)
  <2>1. CASE UNCHANGED <<pc, bill>>
    BY <2>1 DEF Holds
  <2>2. ASSUME NEW p \in Handlers, pc[p] = "purge", Return(p)
        PROVE  \A q \in Handlers, c \in Bills : Holds(q, c)' <=> Holds(q, c)
    <3>1. Goto(p, "idle") /\ bill' = [bill EXCEPT ![p] = NoBill]
      BY <2>2 DEF Return
    <3>2. "idle" \notin Holding /\ "purge" \notin Holding
      BY DEF Holding, GenSteps
    <3>3. \A c \in Bills : ~ Holds(p, c) /\ ~ Holds(p, c)'
      BY <2>2, <3>1, <3>2, OthersHold DEF IInv, Holds
    <3> QED
      BY <3>1, <3>3, OthersHold DEF IInv
  <2> QED
    BY <2>1, <2>2
<1>2. MarkHasOneOwner'
  BY <1>1 DEF IInv, MarkHasOneOwner
<1>3. PurgesExpired'
  BY DEF IInv, PurgesExpired, TypeOK, Goto, Return
<1> QED
  BY <1>2, <1>3

(* The holder has spent its bill, or abandons it.                          *)
LEMMA SpendKeeps ==
    ASSUME IInv, NEW p \in Handlers, pc[p] \in Holding, Return(p),
           \/ spent' = spent \cup {bill[p]} /\ UNCHANGED abandoned
           \/ abandoned' = abandoned \cup {bill[p]} /\ UNCHANGED spent,
           UNCHANGED <<tickets, expired>>
    PROVE  (MarkHasOneOwner /\ PurgesExpired)'
<1>1. bill[p] \in Bills /\ Holds(p, bill[p])
  BY DEF IInv, TypeOK, Holds, Holding, GenSteps
<1>2. \A q \in Handlers, b \in Bills : Holds(q, b)' <=> Holds(q, b) /\ q # p
  <2>1. Goto(p, "idle") /\ bill' = [bill EXCEPT ![p] = NoBill]
    BY DEF Return
  <2>2. "idle" \notin Holding
    BY DEF Holding, GenSteps
  <2> QED
    BY <2>1, <2>2, OthersHold, ZenonT(30) DEF IInv
<1>3. MarkHasOneOwner'
  BY <1>1, <1>2 DEF IInv, MarkHasOneOwner, Holds
<1>4. PurgesExpired'
  BY DEF IInv, PurgesExpired, TypeOK, Goto, Return
<1> QED
  BY <1>3, <1>4

LEMMA OwnerStep == IInv /\ [Next]_vars => (MarkHasOneOwner /\ PurgesExpired)'
<1> SUFFICES ASSUME IInv, [Next]_vars PROVE (MarkHasOneOwner /\ PurgesExpired)'
  OBVIOUS
<1> USE DEF Holding, GenSteps
<1>1. ASSUME NEW p \in Handlers, NEW b \in Bills, GenStart(p, b)
      PROVE  (MarkHasOneOwner /\ PurgesExpired)'
  <2>1. \A q \in Handlers, c \in Bills : Holds(q, c)' <=> Holds(q, c)
    BY <1>1 DEF GenStart, Goto, Holds, IInv, TypeOK
  <2> QED
    BY <1>1, <2>1 DEF GenStart, Goto, IInv, TypeOK, MarkHasOneOwner, PurgesExpired
<1>2. ASSUME NEW p \in Handlers, NEW t \in tokens, AuthStart(p, t)
      PROVE  (MarkHasOneOwner /\ PurgesExpired)'
  <2>1. \A q \in Handlers, c \in Bills : Holds(q, c)' <=> Holds(q, c)
    BY <1>2 DEF AuthStart, Goto, Holds, IInv, TypeOK
  <2> QED
    BY <1>2, <2>1 DEF AuthStart, Goto, IInv, TypeOK, MarkHasOneOwner, PurgesExpired
<1>3. ASSUME NEW p \in Handlers, Purge(p) PROVE (MarkHasOneOwner /\ PurgesExpired)'
  <2>1. bill[p] \in expired
    BY <1>3 DEF Purge, IInv, PurgesExpired
  <2> QED
    BY <1>3, <2>1, DropExpiredKeeps DEF Purge
<1>4. ASSUME NEW p \in Handlers, GenClaim(p) PROVE (MarkHasOneOwner /\ PurgesExpired)'
  BY <1>4, ClaimKeeps DEF GenClaim
<1>5. ASSUME NEW p \in Handlers, DownClaim(p) PROVE (MarkHasOneOwner /\ PurgesExpired)'
  BY <1>5, ClaimKeeps DEF DownClaim
<1>6. ASSUME NEW p \in Handlers,
             GenCheckKey(p) \/ GenNewKey(p) \/ GenEncrypt(p)
      PROVE  (MarkHasOneOwner /\ PurgesExpired)'
  <2>1. PICK s \in {"genNewKey", "genEncrypt", "genFinish"} :
            /\ Goto(p, s) /\ pc[p] \in Holding
            /\ UNCHANGED <<bill, tickets, expired, spent, abandoned>>
    BY <1>6 DEF GenCheckKey, GenNewKey, GenEncrypt, CheckKey, NewKey
  <2> QED
    BY <2>1, GoOnKeeps
<1>7. ASSUME NEW p \in Handlers,
             AuthCheckKey(p) \/ AuthNewKey(p) \/ AuthDecrypt(p) \/ DownCheck(p)
      PROVE  (MarkHasOneOwner /\ PurgesExpired)'
  <2>1. PICK s \in {"idle", "authNewKey", "authDecrypt", "downCheck", "downClaim"} :
            /\ Goto(p, s) /\ pc[p] \notin Holding
            /\ bill' = bill \/ bill' = [bill EXCEPT ![p] = NoBill]
            /\ UNCHANGED <<tickets, expired, spent, abandoned>>
    BY <1>7 DEF AuthCheckKey, AuthNewKey, AuthDecrypt, DownCheck, CheckKey, NewKey, Return
  <2> QED
    BY <2>1, GoOnKeeps
<1>8. ASSUME NEW p \in Handlers, DownHit(p) PROVE (MarkHasOneOwner /\ PurgesExpired)'
  <2>1. PICK s \in {"downOpen", "release", "downProgress"} : Goto(p, s)
    BY <1>8 DEF DownHit
  <2> QED
    BY <1>8, <2>1, GoOnKeeps DEF DownHit
<1>15. ASSUME NEW p \in Handlers, DownProgress(p) PROVE (MarkHasOneOwner /\ PurgesExpired)'
  BY <1>15, GoOnKeeps DEF DownProgress
<1>9. ASSUME NEW p \in Handlers, DownOpen(p) PROVE (MarkHasOneOwner /\ PurgesExpired)'
  <2>1. CASE spent' = spent \cup {bill[p]} /\ Return(p)
    BY <1>9, <2>1, SpendKeeps DEF DownOpen
  <2>2. CASE Goto(p, "release") /\ UNCHANGED <<bill, spent>>
    BY <1>9, <2>2, GoOnKeeps DEF DownOpen
  <2> QED
    BY <1>9, <2>1, <2>2 DEF DownOpen
<1>16. ASSUME NEW p \in Handlers, GenFails(p) PROVE (MarkHasOneOwner /\ PurgesExpired)'
  BY <1>16, SpendKeeps DEF GenFails
<1>10. ASSUME NEW p \in Handlers, GenFinish(p) \/ Release(p)
       PROVE  (MarkHasOneOwner /\ PurgesExpired)'
  BY <1>10, GiveBackKeeps DEF GenFinish, Release
<1>11. ASSUME NEW b \in Bills, OrdersClean(b) PROVE (MarkHasOneOwner /\ PurgesExpired)'
  BY <1>11, DropExpiredKeeps DEF OrdersClean, handlerVars
<1>12. ASSUME NEW b \in Bills, Expire(b) PROVE (MarkHasOneOwner /\ PurgesExpired)'
  BY <1>12 DEF Expire, handlerVars, IInv, MarkHasOneOwner, PurgesExpired, Holds
<1>13. CASE Restart
  BY <1>13 DEF Restart, MarkHasOneOwner, PurgesExpired, Holds
<1>14. CASE NetMeasured \/ UNCHANGED vars
  BY <1>14 DEF NetMeasured, vars, handlerVars, IInv, MarkHasOneOwner, PurgesExpired, Holds
<1> QED
  BY <1>1, <1>2, <1>3, <1>4, <1>5, <1>6, <1>7, <1>8, <1>9, <1>10, <1>11, <1>12,
     <1>13, <1>14, <1>15, <1>16 DEF Next, Handle

LEMMA Invariant == Spec => []IInv
<1>1. Init => IInv
  BY MaxRestartsAssumption
     DEF Init, IInv, TypeOK, NoKey, MarkHasOneOwner, PurgesExpired, Holds, Holding, GenSteps
<1>2. IInv /\ [Next]_vars => IInv'
  BY TypeStep, OwnerStep DEF IInv
<1> QED
  BY <1>1, <1>2, PTL DEF Spec

(* A valid bill is marked exactly when it has one holder, or is spent, or  *)
(* was abandoned by a failed token request, and it is one of these only.   *)
THEOREM OneOwner == Spec => []MarkHasOneOwner
<1>1. IInv => MarkHasOneOwner
  BY DEF IInv
<1> QED
  BY <1>1, Invariant, PTL

-----------------------------------------------------------------------------
(* Only DownOpen serves a bill, and the handler that takes it holds it, so *)
(* a valid bill is not spent already.                                      *)
ServedAgain == \E b \in Bills : b \in spent \ expired /\ served'[b] # served[b]

LEMMA ServeStep == IInv /\ [Next]_vars => ~ ServedAgain
<1> SUFFICES ASSUME IInv, [Next]_vars, served' # served PROVE ~ ServedAgain
  BY DEF ServedAgain
<1>1. PICK p \in Handlers : DownOpen(p)
  BY DEF Next, Handle, GenStart, AuthStart, Purge, GenClaim, GenCheckKey, GenNewKey,
         GenEncrypt, GenFails, GenFinish, AuthCheckKey, AuthNewKey, AuthDecrypt, CheckKey,
         NewKey,
         DownCheck, DownClaim, DownHit, DownProgress, NetMeasured,
         Release, OrdersClean, Expire, Restart, vars
<1>2. bill[p] \in Bills /\ Holds(p, bill[p])
  BY <1>1 DEF DownOpen, IInv, TypeOK, Holds, Holding
<1>3. bill[p] \notin spent \ expired
  BY <1>2 DEF IInv, MarkHasOneOwner
<1>4. \A b \in Bills : b # bill[p] => served'[b] = served[b]
  BY <1>1, <1>2 DEF DownOpen, IInv, TypeOK
<1> QED
  BY <1>3, <1>4 DEF ServedAgain

(* A valid bill is served once in the life of the process.                 *)
THEOREM ServedOnce == Spec => ServedAgainOnlyExpired
<1>1. IInv /\ [Next]_vars
      => [\A b \in Bills : (b \in spent /\ served'[b] # served[b]) => b \in expired]_vars
  BY ServeStep DEF ServedAgain
<1> QED
  BY <1>1, Invariant, PTL DEF Spec, ServedAgainOnlyExpired

-----------------------------------------------------------------------------
(* Every step on the table, the handlers and the clock is a step of the    *)
(* ledger or leaves it as it is.                                           *)
LEMMA LedgerSame ==
    ASSUME UNCHANGED expired,
           \A b \in Bills \ expired :
               /\ b \in tickets' <=> b \in tickets
               /\ b \in tickets => /\ b \in spent' <=> b \in spent
                                   /\ b \in abandoned' <=> b \in abandoned
    PROVE  ledger' = ledger
  BY DEF ledger

LEMMA LedgerMoves ==
    ASSUME NEW b \in Bills \ expired, UNCHANGED expired,
           \A c \in Bills \ {b} : /\ c \in tickets' <=> c \in tickets
                                  /\ c \in spent' <=> c \in spent
                                  /\ c \in abandoned' <=> c \in abandoned
    PROVE  LET held == b \in tickets \ (spent \cup abandoned)
           IN  /\ b \notin tickets /\ b \in tickets' \ (spent' \cup abandoned')
                  => Ledger!Claim(b)
               /\ held /\ b \notin tickets' => Ledger!Refund(b)
               /\ held /\ b \in tickets' \cap spent' => Ledger!Spend(b)
               /\ held /\ b \in (tickets' \cap abandoned') \ spent' => Ledger!Lose(b)
<1> DEFINE to == IF b \notin tickets' THEN "free"
                 ELSE IF b \in spent' THEN "spent"
                 ELSE IF b \in abandoned' THEN "lost" ELSE "claimed"
<1>1. ledger' = [ledger EXCEPT ![b] = to]
  BY DEF ledger
<1>2. ledger[b] = IF b \notin tickets THEN "free"
                  ELSE IF b \in spent THEN "spent"
                  ELSE IF b \in abandoned THEN "lost" ELSE "claimed"
  BY DEF ledger
<1> QED
  BY <1>1, <1>2 DEF Ledger!Claim, Ledger!Refund, Ledger!Spend, Ledger!Lose, Ledger!Move

LEMMA ClaimMoves ==
    ASSUME IInv, NEW p \in Handlers, NEW s, TicketBeUsed(p, s), pc[p] # "idle",
           UNCHANGED <<expired, spent, abandoned>>
    PROVE  Ledger!Next \/ UNCHANGED ledger
<1>1. bill[p] \in Bills /\ tickets' = tickets \cup {bill[p]}
  BY DEF IInv, TypeOK, TicketBeUsed
<1>2. CASE bill[p] \in tickets \cup expired
  BY <1>1, <1>2, LedgerSame
<1>3. CASE bill[p] \notin tickets \cup expired
  <2>1. bill[p] \notin spent \cup abandoned
    BY <1>1, <1>3 DEF IInv, MarkHasOneOwner
  <2>2. Ledger!Claim(bill[p])
    BY <1>1, <1>3, <2>1, LedgerMoves
  <2> QED
    BY <1>1, <2>2 DEF Ledger!Next
<1> QED
  BY <1>2, <1>3

LEMMA HolderMoves ==
    ASSUME IInv, NEW p \in Handlers, pc[p] \in Holding, UNCHANGED expired,
           \/ tickets' = tickets \ {bill[p]} /\ UNCHANGED <<spent, abandoned>>
           \/ spent' = spent \cup {bill[p]} /\ UNCHANGED <<tickets, abandoned>>
           \/ abandoned' = abandoned \cup {bill[p]} /\ UNCHANGED <<tickets, spent>>
    PROVE  Ledger!Next \/ UNCHANGED ledger
<1>1. bill[p] \in Bills /\ Holds(p, bill[p])
  BY DEF IInv, TypeOK, Holds, Holding, GenSteps
<1>2. CASE bill[p] \in expired
  BY <1>2, LedgerSame
<1>3. CASE bill[p] \notin expired
  <2>1. bill[p] \in tickets \ (spent \cup abandoned)
    BY <1>1, <1>3 DEF IInv, MarkHasOneOwner
  <2>2. Ledger!Refund(bill[p]) \/ Ledger!Spend(bill[p]) \/ Ledger!Lose(bill[p])
    BY <1>1, <1>3, <2>1, LedgerMoves
  <2> QED
    BY <1>1, <2>2 DEF Ledger!Next
<1> QED
  BY <1>2, <1>3

LEMMA LedgerStep == IInv /\ [Next]_vars => [Ledger!Next]_ledger
<1> SUFFICES ASSUME IInv, [Next]_vars PROVE Ledger!Next \/ UNCHANGED ledger
  OBVIOUS
<1>1. CASE UNCHANGED <<tickets, expired, spent, abandoned>>
  BY <1>1, LedgerSame
<1>2. ASSUME NEW p \in Handlers, GenClaim(p) \/ DownClaim(p)
      PROVE  Ledger!Next \/ UNCHANGED ledger
  BY <1>2, ClaimMoves DEF GenClaim, DownClaim
<1>3. ASSUME NEW p \in Handlers, GenFinish(p) \/ GenFails(p) \/ Release(p)
      PROVE  Ledger!Next \/ UNCHANGED ledger
  BY <1>3, HolderMoves DEF GenFinish, GenFails, Release, Holding, GenSteps
<1>4. ASSUME NEW p \in Handlers, DownOpen(p)
      PROVE  Ledger!Next \/ UNCHANGED ledger
  BY <1>1, <1>4, HolderMoves DEF DownOpen, Holding
<1>5. ASSUME NEW p \in Handlers, Purge(p)
      PROVE  Ledger!Next \/ UNCHANGED ledger
  BY <1>5, LedgerSame DEF Purge, IInv, PurgesExpired
<1>6. ASSUME NEW b \in Bills, OrdersClean(b)
      PROVE  Ledger!Next \/ UNCHANGED ledger
  BY <1>6, LedgerSame DEF OrdersClean
<1>7. ASSUME NEW b \in Bills, Expire(b)
      PROVE  Ledger!Next \/ UNCHANGED ledger
  <2>1. ledger' = [ledger EXCEPT ![b] = "expired"]
    BY <1>7 DEF Expire, ledger
  <2> QED
    BY <2>1 DEF Ledger!Next, Ledger!Expire
<1>8. CASE Restart
  <2>1. ledger' = [b \in Bills |-> IF ledger[b] = "expired" THEN "expired" ELSE "free"]
    BY <1>8 DEF Restart, ledger
  <2> QED
    BY <2>1 DEF Ledger!Next, Ledger!Restart
<1> QED
  BY <1>1, <1>2, <1>3, <1>4, <1>5, <1>6, <1>7, <1>8
     DEF Next, Handle, GenStart, AuthStart, GenCheckKey, GenNewKey, GenEncrypt,
         AuthCheckKey, AuthNewKey, AuthDecrypt, CheckKey, NewKey, DownCheck, DownHit,
         DownProgress, NetMeasured, vars

(* The table, its handlers and its cleaning server implement the ledger.   *)
THEOREM ImplementsLedger == Spec => KeepsLedger
<1>1. Init => Ledger!Init
  BY DEF Init, Ledger!Init, ledger
<1> QED
  BY <1>1, LedgerStep, Invariant, PTL DEF Spec, KeepsLedger, Ledger!Spec
-----------------------------------------------------------------------------
(* Only NewKey changes the key of a process that goes on, and a handler    *)
(* gets to it by CheckKey alone, which has seen that there is no key.      *)
LEMMA KeyStep ==
    TypeOK /\ [Next]_vars /\ Settled /\ restarts' = restarts
    => Settled' /\ aesKey' = aesKey
<1> SUFFICES ASSUME TypeOK, [Next]_vars, Settled, restarts' = restarts
             PROVE  Settled' /\ aesKey' = aesKey
  OBVIOUS
<1>1. ~ Restart
  BY DEF Restart, TypeOK
<1>2. ASSUME NEW p \in Handlers, NEW s, s \notin {"genNewKey", "authNewKey"}, Goto(p, s),
             aesKey' = aesKey
      PROVE  Settled' /\ aesKey' = aesKey
  BY <1>2 DEF Settled, Goto, TypeOK
<1>3. ASSUME NEW p \in Handlers, Handle(p)
      PROVE  Settled' /\ aesKey' = aesKey
  <2>1. PICK s : s \notin {"genNewKey", "authNewKey"} /\ Goto(p, s) /\ aesKey' = aesKey
    BY <1>3 DEF Handle, Settled, GenClaim, TicketBeUsed, GenCheckKey, AuthCheckKey,
           CheckKey, GenNewKey, AuthNewKey, GenEncrypt, GenFails, GenFinish, AuthDecrypt,
           DownCheck,
           DownClaim, DownHit, DownProgress, DownOpen, Release, Purge, Return
  <2> QED
    BY <2>1, <1>2
<1>4. ASSUME NEW p \in Handlers,
             (\E b \in Bills : GenStart(p, b)) \/ (\E t \in tokens : AuthStart(p, t))
      PROVE  Settled' /\ aesKey' = aesKey
  BY <1>2, <1>4 DEF GenStart, AuthStart
<1>5. CASE NetMeasured \/ UNCHANGED vars \/ \E b \in Bills : OrdersClean(b) \/ Expire(b)
  BY <1>5 DEF NetMeasured, OrdersClean, Expire, vars, handlerVars, Settled
<1> QED
  BY <1>1, <1>3, <1>4, <1>5 DEF Next

(* Once the key has settled, tokens stay good until the process ends.      *)
THEOREM KeyStays == Spec => KeySettles
<1>1. TypeOK /\ [Next]_vars
      => [Settled /\ restarts' = restarts => Settled' /\ aesKey' = aesKey]_vars
  BY KeyStep
<1> QED
  BY <1>1, TypeCorrect, PTL DEF Spec, KeySettles
=============================================================================
