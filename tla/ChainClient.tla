----------------------------- MODULE ChainClient -----------------------------
(***************************************************************************)
(* The client of the chain: base/chain/client.go, chainstate.go and        *)
(* transaction.go.                                                         *)
(*                                                                         *)
(* All goroutines share one client, whose field api is the connection to   *)
(* a node.  Before each read IsChainClientOk asks the node for its health, *)
(* and when it gets no answer sets api to nil and connects anew; no lock   *)
(* is held.  A nil api panics where it is used, and the functions recover: *)
(* those without named results then return no data and no error.           *)
(*                                                                         *)
(* The client lives in a server, whose goroutines ask for metadata and     *)
(* bills, or in a command (register, update, logout), whose one goroutine  *)
(* submits one extrinsic and waits for its block.                          *)
(***************************************************************************)
EXTENDS Naturals, FiniteSets

CONSTANTS
    Callers,    \* goroutines of a server
    Commander,  \* the one of them a command has
    Retries     \* how often SubmitExtrinsic tries the next nonce (20)

ASSUME CommanderAssumption == Commander \in Callers
ASSUME RetriesAssumption == Retries \in Nat \ {0}

VARIABLES
    mode,       \* the process is a "server" or a "command"
    api,        \* the field api: "open" or "nil"
    reachable,  \* the node answers
    refused,    \* history: a reconnection has failed
    pc, why,    \* per caller: next step, and what IsChainClientOk is called for
    answer,     \* per caller: what its last call returned
    tries,      \* the loop variable of SubmitExtrinsic
    nonce,      \* the nonce of the extrinsic, counted from the account's
    pool,       \* nonces of the command's extrinsics a node has accepted
    rival,      \* another process has sent an extrinsic with nonce 0
    next,       \* the nonce the chain executes next
    landed,     \* nonces of the command's extrinsics that are in a block
    block       \* whose events of this kind that block has: "own", "other"

clientVars == <<api, refused>>
callVars == <<tries, nonce>>
chainVars == <<pool, rival, next, landed, block>>
vars == <<mode, reachable, clientVars, pc, why, answer, callVars, chainVars>>

Steps == {"idle", "health", "forget", "dial", "assign", "read", "submit", "retry", "watch",
          "events", "done"}
Answers == {"none", "data", "blank", "error", "panic", "success"}

TypeOK ==
    /\ mode \in {"server", "command"}
    /\ api \in {"open", "nil"} /\ reachable \in BOOLEAN /\ refused \in BOOLEAN
    /\ pc \in [Callers -> Steps]
    /\ why \in [Callers -> {"meta", "miner", "call", "account"}]
    /\ answer \in [Callers -> Answers]
    /\ tries \in 0..(Retries - 1) /\ nonce \in 0..1
    /\ pool \subseteq 0..1 /\ rival \in BOOLEAN /\ next \in 0..2
    /\ landed \subseteq pool
    /\ block \subseteq {"own", "other"}

(* NewChainClient has connected.                                           *)
Init ==
    /\ mode \in {"server", "command"}
    /\ api = "open" /\ reachable = TRUE /\ refused = FALSE
    /\ pc = [c \in Callers |-> "idle"]
    /\ why = [c \in Callers |-> "meta"]
    /\ answer = [c \in Callers |-> "none"]
    /\ tries = 0 /\ nonce = 0
    /\ rival \in BOOLEAN /\ (rival => mode = "command")
    /\ pool = {} /\ next = 0 /\ landed = {} /\ block = {}

-----------------------------------------------------------------------------
Goto(c, step) == pc' = [pc EXCEPT ![c] = step]

(* A call returns: the command is over, the goroutine of a server goes on. *)
Answer(c, a) ==
    /\ answer' = [answer EXCEPT ![c] = a]
    /\ Goto(c, IF mode = "command" THEN "done" ELSE "idle")

Check(c, what) ==
    /\ Goto(c, "health")
    /\ why' = [why EXCEPT ![c] = what]

(* IsChainClientOk returned true.                                          *)
Checked(c) ==
    IF why[c] = "call"
    THEN Check(c, "account")
    ELSE Goto(c, "read") /\ UNCHANGED why

(* GetFileMetaInfo is called by a server.                                  *)
AskMeta(c) ==
    /\ mode = "server" /\ pc[c] = "idle"
    /\ Check(c, "meta")
    /\ UNCHANGED <<mode, reachable, clientVars, answer, callVars, chainVars>>

(* GetBill reads without a check, and recovers from nothing: the HTTP      *)
(* server does.  The node may not have the bill.                           *)
AskBill(c) ==
    /\ mode = "server" /\ pc[c] = "idle"
    /\ \/ api = "nil" /\ Answer(c, "panic")
       \/ api = "open" /\ reachable /\ Answer(c, "data")
       \/ api = "open" /\ Answer(c, "error")
    /\ UNCHANGED <<mode, reachable, clientVars, why, callVars, chainVars>>

(* Update looks itself up before SubmitExtrinsic; Register and Logout do   *)
(* not.                                                                    *)
Command(c) ==
    /\ mode = "command" /\ c = Commander /\ pc[c] = "idle"
    /\ \E what \in {"miner", "call"} : Check(c, what)
    /\ UNCHANGED <<mode, reachable, clientVars, answer, callVars, chainVars>>

-----------------------------------------------------------------------------
(* IsChainClientOk.                                                        *)

(* healthchek recovers from the panic on a nil api, and reports no error.  *)
Health(c) ==
    /\ pc[c] = "health"
    /\ IF api = "nil" \/ reachable
       THEN Checked(c)
       ELSE Goto(c, "forget") /\ UNCHANGED why
    /\ UNCHANGED <<mode, reachable, clientVars, answer, callVars, chainVars>>

Forget(c) ==
    /\ pc[c] = "forget"
    /\ api' = "nil"
    /\ Goto(c, "dial")
    /\ UNCHANGED <<mode, reachable, refused, why, answer, callVars, chainVars>>

(* Mutant of Dial: the result of reconnectChainClient is not looked at.    *)
MutDialBlind(c) ==
    /\ pc[c] = "dial"
    /\ refused' = (refused \/ ~ reachable)
    /\ IF reachable
       THEN Goto(c, "assign") /\ UNCHANGED why
       ELSE Checked(c)
    /\ UNCHANGED <<mode, reachable, api, answer, callVars, chainVars>>

(* A failed reconnection leaves api nil.                                   *)
Dial(c) ==
    /\ pc[c] = "dial"
    /\ \/ reachable /\ Goto(c, "assign") /\ UNCHANGED <<refused, answer>>
       \/ ~ reachable /\ refused' = TRUE /\ Answer(c, "error")
    /\ UNCHANGED <<mode, reachable, api, why, callVars, chainVars>>

(* Mutant of Assign: the new client shadows the field.                     *)
MutAssignShadows(c) ==
    /\ pc[c] = "assign"
    /\ Checked(c)
    /\ UNCHANGED <<mode, reachable, clientVars, answer, callVars, chainVars>>

Assign(c) ==
    /\ pc[c] = "assign"
    /\ api' = "open"
    /\ Checked(c)
    /\ UNCHANGED <<mode, reachable, refused, answer, callVars, chainVars>>

-----------------------------------------------------------------------------
(* GetStorageFromChain after the check, and what its caller makes of it.   *)

(* No data and no error is a file with no blocks to GetFileMetaInfo, a     *)
(* registered cacher to Update and an account with nonce 0.                *)
Recovered(c) ==
    \/ why[c] = "meta" /\ Answer(c, "blank") /\ UNCHANGED why
    \/ why[c] = "miner" /\ Check(c, "call") /\ UNCHANGED answer
    \/ why[c] = "account" /\ Goto(c, "submit") /\ UNCHANGED <<why, answer>>

Found(c) ==
    \/ why[c] = "meta" /\ Answer(c, "data") /\ UNCHANGED why
    \/ why[c] = "miner" /\ Check(c, "call") /\ UNCHANGED answer
    \/ why[c] = "account" /\ Goto(c, "submit") /\ UNCHANGED <<why, answer>>

(* The node may not answer, or not know the key.                           *)
Read(c) ==
    /\ pc[c] = "read"
    /\ \/ api = "nil" /\ Recovered(c)
       \/ api = "open" /\ reachable /\ Found(c)
       \/ api = "open" /\ Answer(c, "error") /\ UNCHANGED why
    /\ UNCHANGED <<mode, reachable, clientVars, callVars, chainVars>>

-----------------------------------------------------------------------------
(* SubmitExtrinsic.                                                        *)

Taken(n) == n \in pool \/ (n = 0 /\ rival /\ next = 0)

CanAccept == api = "open" /\ reachable /\ nonce >= next /\ ~ Taken(nonce)

Submitted == CanAccept /\ pool' = pool \cup {nonce}
NotSubmitted == api = "open" /\ ~ CanAccept /\ UNCHANGED pool

(* SubmitAndWatchExtrinsic: the node accepts the extrinsic, and its answer *)
(* may be lost; or it refuses it.  "Priority is too low" says that another *)
(* one has the nonce.  The panic on a nil api leaves no error.             *)
Submit(c) ==
    /\ pc[c] = "submit"
    /\ \/ Submitted /\ Goto(c, "watch") /\ UNCHANGED <<answer, callVars>>
       \/ (Submitted \/ NotSubmitted) /\ Answer(c, "error") /\ UNCHANGED callVars
       \/ /\ NotSubmitted /\ reachable /\ Taken(nonce)
          /\ Goto(c, "retry") /\ nonce' = 1 /\ tries' = 0 /\ UNCHANGED answer
       \/ api = "nil" /\ Answer(c, "success") /\ UNCHANGED <<pool, callVars>>
    /\ UNCHANGED <<mode, reachable, clientVars, why, rival, next, landed, block>>

(* Mutant of TryAgain: i <= 20.                                            *)
MutTryAgainOnceMore(c) ==
    \/ tries < Retries /\ tries' = tries + 1 /\ UNCHANGED <<pc, answer, nonce>>
    \/ tries = Retries /\ Answer(c, "error") /\ UNCHANGED callVars

(* Mutant of TryAgain: until there is no error.                            *)
MutTryAgainForever(c) == UNCHANGED <<pc, answer, callVars>>

(* Mutant of TryAgain: each try takes the nonce after the last one.        *)
MutTryAgainNextNonce(c) ==
    \/ tries + 1 < Retries /\ tries' = tries + 1 /\ nonce' = nonce + 1
       /\ UNCHANGED <<pc, answer>>
    \/ tries + 1 = Retries /\ Answer(c, "error") /\ UNCHANGED callVars

(* Any error in the loop, a lost answer too, is followed by another try    *)
(* with the same nonce.                                                    *)
TryAgain(c) ==
    \/ tries + 1 < Retries /\ tries' = tries + 1 /\ UNCHANGED <<pc, answer, nonce>>
    \/ tries + 1 = Retries /\ Answer(c, "error") /\ UNCHANGED callVars

Retry(c) ==
    /\ pc[c] = "retry"
    /\ \/ Submitted /\ Goto(c, "watch") /\ UNCHANGED <<answer, callVars>>
       \/ (Submitted \/ NotSubmitted) /\ TryAgain(c)
       \/ api = "nil" /\ Answer(c, "success") /\ UNCHANGED <<pool, callVars>>
    /\ UNCHANGED <<mode, reachable, clientVars, why, rival, next, landed, block>>

(* The status that it is in a block; or the subscription breaks; or the    *)
(* timer ends the wait.  Any other status changes nothing.                 *)
Watch(c) ==
    /\ pc[c] = "watch"
    /\ \/ nonce \in landed /\ reachable /\ Goto(c, "events") /\ UNCHANGED answer
       \/ Answer(c, "error")
    /\ UNCHANGED <<mode, reachable, clientVars, why, callVars, chainVars>>

(* The events of the whole block are read and decoded, as far as that goes *)
(* without an error nobody looks at; one of the kind is enough.            *)
Events(c) ==
    /\ pc[c] = "events"
    /\ \/ reachable /\ \E decoded \in SUBSET block : decoded # {} /\ Answer(c, "success")
       \/ Answer(c, "error")
    /\ UNCHANGED <<mode, reachable, clientVars, why, callVars, chainVars>>

-----------------------------------------------------------------------------
(* The chain executes extrinsics of the account in the order of nonces.    *)
RivalLands ==
    /\ rival /\ next = 0
    /\ next' = 1
    /\ UNCHANGED <<mode, reachable, clientVars, pc, why, answer, callVars, pool, rival,
                   landed, block>>

(* The command's extrinsic succeeds or fails in its block, which may have  *)
(* the events of other accounts.                                           *)
Land ==
    /\ next \in pool
    /\ landed' = landed \cup {next}
    /\ next' = next + 1
    /\ block' \in SUBSET {"own", "other"}
    /\ UNCHANGED <<mode, reachable, clientVars, pc, why, answer, callVars, pool, rival>>

NodeChanges ==
    /\ reachable' = ~ reachable
    /\ UNCHANGED <<mode, clientVars, pc, why, answer, callVars, chainVars>>

-----------------------------------------------------------------------------
(* The steps of a call that was made.                                      *)
Call(c) ==
    \/ Health(c) \/ Forget(c) \/ Dial(c) \/ Assign(c) \/ Read(c)
    \/ Submit(c) \/ Retry(c) \/ Watch(c) \/ Events(c)

Ask(c) == AskMeta(c) \/ AskBill(c)

Next ==
    \/ \E c \in Callers : Ask(c) \/ Command(c) \/ Call(c)
    \/ RivalLands \/ Land \/ NodeChanges

Spec == Init /\ [][Next]_vars

(* Goroutines run, and every remote call comes back.  Neither the node nor *)
(* the chain has to do anything.                                           *)
FairSpec == Spec /\ \A c \in Callers : WF_vars(Call(c))

-----------------------------------------------------------------------------
(* The connection is gone only while some goroutine makes a new one, or    *)
(* after one could not: goroutines that forget and assign over one another *)
(* (client.go:138-143) lose no connection that was made.  After one that   *)
(* could not it stays gone: the health check panics on the nil api, and    *)
(* recovers without an error (client.go:165-171).                          *)
LostOnlyWhenRefused ==
    api = "nil" => refused \/ \E c \in Callers : pc[c] \in {"dial", "assign"}

(* A command that reports a success has its extrinsic in a block with an   *)
(* event of its kind: none of the recovered panics (transaction.go:34,     *)
(* chainstate.go:54, client.go:166), which leave no error, gets there.     *)
SuccessLanded == answer[Commander] = "success" => landed # {} /\ block # {}

(* However often the command tries (transaction.go:80-90), lost answers    *)
(* included, the chain executes its extrinsic at most once.                *)
LandsOnce == Cardinality(landed) <= 1

(* A command comes to an end, as long as every remote call returns: whether*)
(* the node can be reached, answers are lost or the chain executes nothing *)
(* (transaction.go:97-119).                                                *)
CommandEnds == pc[Commander] = "health" /\ mode = "command" ~> pc[Commander] = "done"
=============================================================================
