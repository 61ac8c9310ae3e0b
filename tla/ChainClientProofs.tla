-------------------------- MODULE ChainClientProofs --------------------------
(***************************************************************************)
(* The connection, and what a command reports, for any number of           *)
(* goroutines and of retries.                                              *)
(*                                                                         *)
(* A command has one goroutine, and no check of its own leaves it with a   *)
(* nil api (Connected): that keeps every recovered panic out of its way.   *)
(* Its extrinsics all have one nonce (OneNonce), and what is executed is   *)
(* behind the chain's next nonce (LandedPast).                             *)
(***************************************************************************)
EXTENDS ChainClient, FiniteSetTheorems, TLAPS

Asking == {"idle", "health", "forget", "dial", "assign", "read"}

(* A server submits nothing.                                               *)
ServerAsks ==
    mode = "server" =>
        /\ pool = {}
        /\ \A c \in Callers : why[c] = "meta" /\ pc[c] \in Asking /\ answer[c] # "success"

CommandAlone == mode = "command" => \A c \in Callers \ {Commander} : pc[c] = "idle"

Connected ==
    mode = "command" /\ pc[Commander] \notin {"dial", "assign", "done"} => api = "open"

OneNonce ==
    /\ pool \subseteq {nonce}
    /\ pc[Commander] \in Asking \cup {"submit"} => pool = {} /\ nonce = 0

LandedPast ==
    /\ \A n \in landed : n < next
    /\ pc[Commander] = "events" => landed # {}

Parts ==
    /\ LostOnlyWhenRefused /\ SuccessLanded
    /\ ServerAsks /\ CommandAlone /\ Connected /\ OneNonce /\ LandedPast

IInv == TypeOK /\ Parts

-----------------------------------------------------------------------------
(* A client starts connected, with nothing submitted.                      *)
LEMMA InitInv == Init => IInv
<1> SUFFICES ASSUME Init PROVE IInv
  OBVIOUS
<1> USE CommanderAssumption, RetriesAssumption DEF Init
<1>1. TypeOK
  <2>1. tries \in 0..(Retries - 1) /\ nonce \in 0..1 /\ next \in 0..2
    OBVIOUS
  <2>2. pc \in [Callers -> Steps] /\ answer \in [Callers -> Answers]
    BY DEF Steps, Answers
  <2>3. why \in [Callers -> {"meta", "miner", "call", "account"}]
    OBVIOUS
  <2>4. reachable \in BOOLEAN /\ refused \in BOOLEAN /\ rival \in BOOLEAN
    OBVIOUS
  <2>5. api \in {"open", "nil"} /\ mode \in {"server", "command"}
    OBVIOUS
  <2>6. pool \subseteq 0..1 /\ landed \subseteq pool /\ block \subseteq {"own", "other"}
    OBVIOUS
  <2> QED
    BY <2>1, <2>2, <2>3, <2>4, <2>5, <2>6 DEF TypeOK
<1>2. LostOnlyWhenRefused /\ SuccessLanded /\ OneNonce /\ LandedPast
  BY DEF LostOnlyWhenRefused, SuccessLanded, OneNonce, LandedPast, Asking
<1>3. ServerAsks /\ CommandAlone /\ Connected
  BY DEF ServerAsks, CommandAlone, Connected, Asking
<1> QED
  BY <1>1, <1>2, <1>3 DEF IInv, Parts

(* Every step keeps the types.                                             *)
LEMMA TypeStep == TypeOK /\ [Next]_vars => TypeOK'
<1> SUFFICES ASSUME TypeOK, [Next]_vars PROVE TypeOK'
  OBVIOUS
<1> USE CommanderAssumption, RetriesAssumption
<1> USE DEF TypeOK, Steps, Answers, clientVars, callVars, chainVars
<1>1. ASSUME NEW c \in Callers, Ask(c) \/ Command(c) PROVE TypeOK'
  BY <1>1, ZenonT(30) DEF Ask, AskMeta, AskBill, Command, Check, Answer, Goto
<1>2. ASSUME NEW c \in Callers, Health(c) PROVE TypeOK'
  BY <1>2 DEF Health, Checked, Check, Goto
<1>3. ASSUME NEW c \in Callers, Forget(c) PROVE TypeOK'
  BY <1>3 DEF Forget, Goto
<1>4. ASSUME NEW c \in Callers, Dial(c) PROVE TypeOK'
  BY <1>4 DEF Dial, Answer, Goto
<1>5. ASSUME NEW c \in Callers, Assign(c) PROVE TypeOK'
  BY <1>5 DEF Assign, Checked, Check, Goto
<1>6. ASSUME NEW c \in Callers, Read(c) PROVE TypeOK'
  BY <1>6 DEF Read, Recovered, Found, Answer, Check, Goto
<1>7. ASSUME NEW c \in Callers, Submit(c) PROVE TypeOK'
  <2>1. pool' \subseteq 0..1 /\ landed' \subseteq pool'
    BY <1>7 DEF Submit, Submitted, NotSubmitted
  <2>4. nonce' \in 0..1
    BY <1>7 DEF Submit
  <2>2. tries' \in 0..(Retries - 1)
    BY <1>7 DEF Submit
  <2>3. pc' \in [Callers -> Steps] /\ answer' \in [Callers -> Answers]
    BY <1>7 DEF Submit, Answer, Goto
  <2> QED
    BY <1>7, <2>1, <2>2, <2>3, <2>4 DEF Submit
<1>8. ASSUME NEW c \in Callers, Retry(c) PROVE TypeOK'
  <2>1. pool' \subseteq 0..1 /\ landed' \subseteq pool' /\ nonce' \in 0..1
    BY <1>8 DEF Retry, Submitted, NotSubmitted, TryAgain
  <2>2. tries' \in 0..(Retries - 1)
    BY <1>8 DEF Retry, TryAgain
  <2>3. pc' \in [Callers -> Steps] /\ answer' \in [Callers -> Answers]
    BY <1>8 DEF Retry, TryAgain, Answer, Goto
  <2> QED
    BY <1>8, <2>1, <2>2, <2>3 DEF Retry
<1>9. ASSUME NEW c \in Callers, Watch(c) \/ Events(c) PROVE TypeOK'
  BY <1>9 DEF Watch, Events, Answer, Goto
<1>10. CASE RivalLands
  BY <1>10 DEF RivalLands
<1>11. CASE Land
  BY <1>11 DEF Land
<1>12. CASE NodeChanges
  BY <1>12 DEF NodeChanges
<1>13. CASE UNCHANGED vars
  BY <1>13 DEF vars
<1> QED
  BY <1>1, <1>2, <1>3, <1>4, <1>5, <1>6, <1>7, <1>8, <1>9, <1>10, <1>11, <1>12, <1>13
  DEF Next, Call

(* Every step keeps the invariant.                                         *)
LEMMA InvStep == IInv /\ [Next]_vars => IInv'
<1> SUFFICES ASSUME IInv, [Next]_vars PROVE IInv'
  OBVIOUS
<1> USE CommanderAssumption
<1>t. TypeOK'
  BY TypeStep DEF IInv
<1> USE DEF IInv, TypeOK, Parts, LostOnlyWhenRefused, SuccessLanded, ServerAsks, CommandAlone,
            Connected, OneNonce, LandedPast, Asking, Steps, clientVars, callVars, chainVars
<1>1. ASSUME NEW c \in Callers, Ask(c) \/ Command(c) PROVE Parts'
  <2>1. CASE AskMeta(c)
    BY <2>1 DEF AskMeta, Check, Goto
  <2>2. CASE AskBill(c)
    BY <2>2 DEF AskBill, Answer, Goto
  <2>3. CASE Command(c)
    BY <2>3 DEF Command, Check, Goto
  <2> QED
    BY <1>1, <2>1, <2>2, <2>3 DEF Ask
<1>2. ASSUME NEW c \in Callers, Health(c) PROVE Parts'
  BY <1>2 DEF Health, Checked, Check, Goto
<1>3. ASSUME NEW c \in Callers, Forget(c) PROVE Parts'
  BY <1>3 DEF Forget, Goto
<1>4. ASSUME NEW c \in Callers, Dial(c) PROVE Parts'
  BY <1>4 DEF Dial, Answer, Goto
<1>5. ASSUME NEW c \in Callers, Assign(c) PROVE Parts'
  BY <1>5 DEF Assign, Checked, Check, Goto
<1>6. ASSUME NEW c \in Callers, Read(c) PROVE Parts'
  BY <1>6 DEF Read, Recovered, Found, Answer, Check, Goto
<1>7. ASSUME NEW c \in Callers, Submit(c) PROVE Parts'
  BY <1>7, ZenonT(30) DEF Submit, Submitted, NotSubmitted, Answer, Goto
<1>8. ASSUME NEW c \in Callers, Retry(c) PROVE Parts'
  BY <1>8, ZenonT(30) DEF Retry, Submitted, NotSubmitted, TryAgain, Answer, Goto
<1>9. ASSUME NEW c \in Callers, Watch(c) \/ Events(c) PROVE Parts'
  <2>1. CASE Watch(c)
    BY <2>1 DEF Watch, Answer, Goto
  <2>2. CASE Events(c)
    BY <2>2 DEF Events, Answer, Goto
  <2> QED
    BY <1>9, <2>1, <2>2
<1>10. ASSUME RivalLands PROVE Parts'
  BY <1>10 DEF RivalLands
<1>11. ASSUME Land PROVE Parts'
  <2>1. next \in pool /\ landed' = landed \cup {next} /\ next' = next + 1
    BY <1>11 DEF Land
  <2>2. pool = {next}
    BY <2>1
  <2>3. landed = {}
    BY <2>2
  <2>4. landed' = {next} /\ pool # {} /\ next \in 0..2 /\ next' = next + 1
    BY <2>1, <2>2, <2>3
  <2>5. mode = "command" /\ pc[Commander] \notin Asking
    BY <2>4
  <2>6. SuccessLanded' /\ LandedPast'
    BY <1>11, <2>3, <2>4 DEF Land
  <2> QED
    BY <1>11, <2>5, <2>6 DEF Land
<1>12. ASSUME NodeChanges PROVE Parts'
  BY <1>12 DEF NodeChanges
<1>13. ASSUME UNCHANGED vars PROVE Parts'
  BY <1>13 DEF vars
<1> HIDE DEF IInv, TypeOK, Parts, LostOnlyWhenRefused, SuccessLanded, ServerAsks, CommandAlone,
            Connected, OneNonce, LandedPast, Asking, Steps, clientVars, callVars, chainVars
<1>14. ASSUME NEW c \in Callers, Call(c) PROVE Parts'
  BY <1>2, <1>3, <1>4, <1>5, <1>6, <1>7, <1>8, <1>9, <1>14 DEF Call
<1>15. ASSUME Next PROVE Parts'
  BY <1>1, <1>10, <1>11, <1>12, <1>14, <1>15 DEF Next
<1>16. Parts'
  BY <1>13, <1>15
<1> QED
  BY <1>t, <1>16 DEF IInv

(* What the invariant holds apart is one nonce at most.                    *)
LEMMA OneLanding == IInv => LandsOnce
<1> SUFFICES ASSUME IInv PROVE LandsOnce
  OBVIOUS
<1>1. landed \subseteq {nonce}
  BY DEF IInv, TypeOK, Parts, OneNonce
<1>2. landed = {} \/ landed = {nonce}
  BY <1>1
<1>3. Cardinality({}) = 0 /\ Cardinality({nonce}) = 1
  BY FS_EmptySet, FS_Singleton
<1> QED
  BY <1>2, <1>3 DEF LandsOnce

LEMMA Invariant == Spec => []IInv
<1> QED
  BY InitInv, InvStep, PTL DEF Spec

(* The variables of the client keep their types.                           *)
THEOREM TypeCorrect == Spec => []TypeOK
<1>1. IInv => TypeOK
  BY DEF IInv
<1> QED
  BY Invariant, <1>1, PTL

(* However many goroutines renew the connection over one another, it is    *)
(* gone only while one makes a new one or after one failed to.             *)
THEOREM KeepsConnection == Spec => []LostOnlyWhenRefused
<1>1. IInv => LostOnlyWhenRefused
  BY DEF IInv, Parts
<1> QED
  BY Invariant, <1>1, PTL

(* A command reports success only for an extrinsic that is in a block.     *)
THEOREM SuccessIsReal == Spec => []SuccessLanded
<1>1. IInv => SuccessLanded
  BY DEF IInv, Parts
<1> QED
  BY Invariant, <1>1, PTL

(* A command's extrinsic is executed once at most, for any number of       *)
(* retries.                                                                *)
THEOREM ExecutedOnce == Spec => []LandsOnce
  BY Invariant, OneLanding, PTL
=============================================================================
