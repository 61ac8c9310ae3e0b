-------------------------- MODULE SliceCacheProofs --------------------------
(***************************************************************************)
(* The slice cache keeps its table, its files and its tasks in order, for  *)
(* every set of slices and clients, every size of the cache and of its     *)
(* channels, and whatever fails.                                           *)
(***************************************************************************)
EXTENDS SliceCache, SizeTheorems

CQP == INSTANCE HashQueueProofs WITH
    Senders <- Clients, filter <- cqFilter, queue <- cqQueue,
    sending <- cqSending, taken <- cqTaken
DQP == INSTANCE HashQueueProofs WITH
    Senders <- {Strategy} \cup Hashes, filter <- dqFilter, queue <- dqQueue,
    sending <- dqSending, taken <- dqTaken

LEMMA QueueAssumptions ==
    /\ CQP!CapacityAssumption /\ CQP!NoHashAssumption
    /\ DQP!CapacityAssumption /\ DQP!NoHashAssumption
  BY BoundsAssumption, NamesAssumption
     DEF CQP!CapacityAssumption, CQP!NoHashAssumption,
         DQP!CapacityAssumption, DQP!NoHashAssumption

-----------------------------------------------------------------------------
(* Who changes what: the actions that touch each part of the state.        *)

(* A client that asks: all its steps but a send that was blocked.          *)
ClientMove(c) ==
    \/ \E h \in Hashes : Miss(c, h)
    \/ QueryQueue(c) \/ StatFile(c) \/ InsertRequest(c) \/ LoadInCache(c)

LEMMA ThreadsMove ==
    ASSUME [Next]_vars
    PROVE  \/ UNCHANGED threadVars
           \/ \E c \in Clients : ClientMove(c)
           \/ \E h \in Hashes : FileDispatch(h) \/ TaskStep(h)
           \/ Divide
  BY DEF Next, vars, ClientMove, Hit, ClientStep, SendRequest, FileLoop, FileReceive,
     RemoverStep, Remove, RemoveFails, Unmark, ClearFailed, StrategyStep, Tick, Plan, PlanAll,
     PickedEnough, QueueVictim, SendVictim, EndRound, Pick, Evict, CleanLoop, DelReceive,
     DelDispatch, threadVars

LEMMA DiskMoves ==
    ASSUME [Next]_vars
    PROVE  \/ UNCHANGED disk
           \/ \E h \in Hashes : Fetch(h) \/ Transfer(h) \/ Remove(h)
  BY DEF Next, vars, Hit, Miss, ClientStep, QueryQueue, StatFile, InsertRequest, SendRequest,
     LoadInCache, LoadEntry, Account, Store, FileLoop, FileReceive, FileDispatch, TaskStep,
     Lock, Measure, RemoverStep, RemoveFails, Unmark, ClearFailed, StrategyStep, Tick, Plan,
     PlanAll, Divide, Die, PickedEnough, QueueVictim, SendVictim, EndRound, Pick, Evict,
     CleanLoop, DelReceive, DelDispatch

LEMMA TableMoves ==
    ASSUME [Next]_vars
    PROVE  \/ UNCHANGED cacheVars
           \/ \E t \in Threads : Account(t) \/ Store(t)
           \/ \E h \in Hashes : Evict(h)
           \/ Divide
  BY DEF Next, vars, Hit, Miss, ClientStep, QueryQueue, StatFile, InsertRequest, SendRequest,
     LoadInCache, LoadEntry, Threads, FileLoop, FileReceive, FileDispatch, TaskStep,
     Lock, Fetch, Transfer, Measure, RemoverStep, Remove, RemoveFails, Unmark, ClearFailed,
     StrategyStep, Tick, Plan, PlanAll, PickedEnough, QueueVictim, SendVictim, EndRound,
     Pick, CleanLoop, DelReceive, DelDispatch, cacheVars

LEMMA HandsMove ==
    ASSUME [Next]_vars
    PROVE  \/ UNCHANGED handVars
           \/ \E h \in Hashes : \/ FileReceive(h) \/ FileDispatch(h)
                                \/ DelReceive(h) \/ DelDispatch(h) \/ RemoverStep(h)
           \/ Divide
  BY DEF Next, vars, Hit, Miss, ClientStep, QueryQueue, StatFile, InsertRequest, SendRequest,
     LoadInCache, LoadEntry, Account, Store, FileLoop, TaskStep,
     Lock, Fetch, Transfer, Measure, ClearFailed,
     StrategyStep, Tick, Plan, PlanAll, PickedEnough, QueueVictim, SendVictim, EndRound,
     Pick, Evict, CleanLoop, handVars

LEMMA RoundMoves ==
    ASSUME [Next]_vars
    PROVE  \/ UNCHANGED roundVars
           \/ StrategyStep
  BY DEF Next, vars, Hit, Miss, ClientStep, QueryQueue, StatFile, InsertRequest, SendRequest,
     LoadInCache, LoadEntry, Account, Store, FileLoop, FileReceive, FileDispatch, TaskStep,
     Lock, Fetch, Transfer, Measure, ClearFailed, CleanLoop, DelReceive, DelDispatch,
     RemoverStep, Remove, RemoveFails, Unmark, roundVars

LEMMA NotesMove ==
    ASSUME [Next]_vars
    PROVE  /\ failed' \subseteq failed \cup Hashes
           /\ requests' = requests \/ (requests < MaxRequests /\ requests' = requests + 1)
  BY DEF Next, vars, Hit, Miss, ClientStep, QueryQueue, StatFile, InsertRequest, SendRequest,
     LoadInCache, LoadEntry, Account, Store, FileLoop, FileReceive, FileDispatch, TaskStep,
     Lock, Fetch, Transfer, Measure, FailTask, ClearFailed, CleanLoop, DelReceive, DelDispatch,
     RemoverStep, Remove, RemoveFails, Unmark, StrategyStep, Tick, Plan, PlanAll, Divide, Die,
     PickedEnough, QueueVictim, SendVictim, EndRound, Pick, Evict

LEMMA RequestsMove ==
    ASSUME [Next]_vars
    PROVE  \/ UNCHANGED cqVars
           \/ \E c \in Clients : InsertRequest(c) \/ SendRequest(c)
           \/ \E h \in Hashes : FileReceive(h)
           \/ Divide
  BY DEF Next, vars, Hit, Miss, ClientStep, QueryQueue, StatFile,
     LoadInCache, LoadEntry, Account, Store, FileLoop, FileDispatch, TaskStep,
     Lock, Fetch, Transfer, Measure, ClearFailed, CleanLoop, DelReceive, DelDispatch,
     RemoverStep, Remove, RemoveFails, Unmark, StrategyStep, Tick, Plan, PlanAll,
     PickedEnough, QueueVictim, SendVictim, EndRound, Pick, Evict, cqVars

LEMMA RemovalsMove ==
    ASSUME [Next]_vars
    PROVE  \/ UNCHANGED dqVars
           \/ QueueVictim \/ SendVictim
           \/ \E h \in Hashes : DelReceive(h) \/ RemoveFails(h) \/ Unmark(h)
           \/ Divide
  BY DEF Next, vars, Hit, Miss, ClientStep, QueryQueue, StatFile, InsertRequest, SendRequest,
     LoadInCache, LoadEntry, Account, Store, FileLoop, FileReceive, FileDispatch, TaskStep,
     Lock, Fetch, Transfer, Measure, ClearFailed, CleanLoop, DelDispatch,
     RemoverStep, Remove, StrategyStep, Tick, Plan, PlanAll,
     PickedEnough, EndRound, Pick, Evict, dqVars

-----------------------------------------------------------------------------
(* Types.                                                                  *)

(* Where clients and download tasks can be.  A client that is not idle has *)
(* a slice in hand, and a task is the task of the slice it is named by.    *)
Places ==
    /\ \A c \in Clients :
        /\ pc[c] \in {"idle", "query", "stat", "insert", "load", "account", "store", "dead"}
        /\ pc[c] \notin {"idle", "dead"} => arg[c] \in Hashes
    /\ \A h \in Hashes :
        /\ pc[h] \in {"none", "start", "fetch", "receive", "measure",
                      "load", "account", "store", "dead"}
        /\ arg[h] = h

TypeInv == TypeOK /\ Places /\ CQP!IInv /\ DQP!IInv

(* Words: what the size becomes is one.                                    *)
LEMMA Wraps ==
    /\ Word \in Nat \ {0}
    /\ \A x \in Int : x % Word \in Size
    /\ 0 \in Size
  BY SizesAssumption DEF Size

LEMMA ThreadsKeepTypes ==
    ASSUME TypeOK, Places, [Next]_vars
    PROVE  /\ pc' \in [Threads -> {"idle", "query", "stat", "insert", "none", "start", "fetch",
                                   "receive", "measure", "load", "account", "store", "dead"}]
           /\ arg' \in [Threads -> Hashes \cup {NoHash}]
           /\ fsize' \in [Threads -> Size] /\ old' \in [Threads -> Size]
           /\ Places'
<1> DEFINE Goal ==
           /\ pc' \in [Threads -> {"idle", "query", "stat", "insert", "none", "start", "fetch",
                                   "receive", "measure", "load", "account", "store", "dead"}]
           /\ arg' \in [Threads -> Hashes \cup {NoHash}]
           /\ fsize' \in [Threads -> Size] /\ old' \in [Threads -> Size]
           /\ Places'
<1> SUFFICES Goal
  OBVIOUS
<1> USE NamesAssumption, Wraps DEF TypeOK, Places, Goto, Finish, Threads, Absent, NoFile
<1>1. CASE UNCHANGED threadVars
  BY <1>1 DEF threadVars
<1>2. ASSUME NEW c \in Clients, NEW h \in Hashes, Miss(c, h) PROVE Goal
  BY <1>2 DEF Miss
<1>3. ASSUME NEW c \in Clients, QueryQueue(c) PROVE Goal
  BY <1>3 DEF QueryQueue
<1>4. ASSUME NEW c \in Clients, StatFile(c) PROVE Goal
  <2>1. SliceSize[arg[c]] \in Size
    <3>1. arg[c] \in Hashes
      BY <1>4 DEF StatFile
    <3>2. \A h \in Hashes : SliceSize[h] \in Size
      BY SizesAssumption DEF Size
    <3> QED
      BY <3>1, <3>2
  <2> QED
    BY <1>4, <2>1, SMTT(20) DEF StatFile
<1>5. ASSUME NEW c \in Clients, InsertRequest(c) PROVE Goal
  BY <1>5 DEF InsertRequest
<1>6. ASSUME NEW t \in Threads, LoadInCache(t) PROVE Goal
  <2>1. CASE LoadEntry(t)
    BY <2>1, SMTT(20) DEF LoadEntry
  <2>2. CASE Account(t)
    BY <2>2 DEF Account
  <2>3. CASE Store(t)
    BY <2>3 DEF Store
  <2> QED
    BY <1>6, <2>1, <2>2, <2>3 DEF LoadInCache
<1>7. ASSUME NEW h \in Hashes, FileDispatch(h) PROVE Goal
  BY <1>7 DEF FileDispatch
<1>8. ASSUME NEW h \in Hashes, Lock(h) PROVE Goal
  BY <1>8 DEF Lock
<1>9. ASSUME NEW h \in Hashes, Fetch(h) PROVE Goal
  BY <1>9 DEF Fetch, FailTask
<1>10. ASSUME NEW h \in Hashes, Transfer(h) PROVE Goal
  BY <1>10 DEF Transfer, FailTask
<1>11. ASSUME NEW h \in Hashes, Measure(h) PROVE Goal
  <2>1. disk[h] # NoFile => disk[h] \in Size
    BY DEF Size
  <2> QED
    BY <1>11, <2>1, SMTT(20) DEF Measure, FailTask
<1>12. CASE Divide
  <2>1. CASE Die
    <3>1. /\ pc' = [t \in Threads |-> "dead"]
          /\ arg' = arg /\ fsize' = fsize /\ old' = old
      BY <2>1 DEF Die
    <3> QED
      BY <3>1
  <2>2. CASE UNCHANGED threadVars
    BY <2>2, <1>1
  <2> QED
    BY <1>12, <2>1, <2>2 DEF Divide
<1> QED
  <2> HIDE DEF Goal
  <2> QED
    BY ThreadsMove, <1>1, <1>2, <1>3, <1>4, <1>5, <1>6, <1>7, <1>8, <1>9, <1>10, <1>11, <1>12
       DEF ClientMove, TaskStep

LEMMA TableKeepsTypes ==
    ASSUME TypeOK, Places, [Next]_vars
    PROVE  /\ hashMap' \in [Hashes -> Size] /\ size' \in Size
           /\ disk' \in [Hashes -> NoFile..Word-1]
<1> USE Wraps DEF TypeOK
<1>1. hashMap' \in [Hashes -> Size] /\ size' \in Size
  <2>1. ASSUME NEW t \in Threads, Account(t)
        PROVE  hashMap' \in [Hashes -> Size] /\ size' \in Size
    <3>1. size - old[t] + fsize[t] \in Int
      BY DEF Size
    <3> QED
      BY <2>1, <3>1 DEF Account
  <2>2. ASSUME NEW t \in Threads, Store(t)
        PROVE  hashMap' \in [Hashes -> Size] /\ size' \in Size
    BY <2>2 DEF Store
  <2>3. ASSUME NEW h \in Hashes, Evict(h)
        PROVE  hashMap' \in [Hashes -> Size] /\ size' \in Size
    <3>1. size - hashMap[h] \in Int
      BY DEF Size
    <3> QED
      BY <2>3, <3>1 DEF Evict, Absent
  <2>4. ASSUME Divide PROVE hashMap' \in [Hashes -> Size] /\ size' \in Size
    <3>1. CASE Die
      BY <3>1 DEF Die, Absent
    <3> QED
      BY <2>4, <3>1 DEF Divide, cacheVars
  <2> QED
    BY TableMoves, <2>1, <2>2, <2>3, <2>4 DEF cacheVars
<1>2. disk' \in [Hashes -> NoFile..Word-1]
  <2>1. ASSUME NEW h \in Hashes, Fetch(h) PROVE disk' \in [Hashes -> NoFile..Word-1]
    BY <2>1, SizesAssumption DEF Fetch, NoFile
  <2>2. ASSUME NEW h \in Hashes, Transfer(h) PROVE disk' \in [Hashes -> NoFile..Word-1]
    <3>1. \A n \in 0..SliceSize[h] : n \in NoFile..Word-1
      BY SizesAssumption DEF NoFile
    <3>2. PICK n \in 0..SliceSize[h] : Written(h, n)
      BY <2>2 DEF Transfer
    <3> QED
      BY <3>1, <3>2, SizesAssumption DEF Written, NoFile
  <2>3. ASSUME NEW h \in Hashes, Remove(h) PROVE disk' \in [Hashes -> NoFile..Word-1]
    BY <2>3, SizesAssumption DEF Remove, NoFile
  <2> QED
    BY DiskMoves, <2>1, <2>2, <2>3
<1> QED
  BY <1>1, <1>2

LEMMA HandsKeepTypes ==
    ASSUME TypeOK, [Next]_vars
    PROVE  /\ fileHand' \in Hashes \cup {NoHash} /\ delHand' \in Hashes \cup {NoHash}
           /\ remover' \in [Hashes -> {"none", "remove", "unmark"}]
<1> DEFINE Goal ==
           /\ fileHand' \in Hashes \cup {NoHash} /\ delHand' \in Hashes \cup {NoHash}
           /\ remover' \in [Hashes -> {"none", "remove", "unmark"}]
<1> USE DEF TypeOK
<1>1. ASSUME NEW h \in Hashes, \/ FileReceive(h) \/ FileDispatch(h)
                               \/ DelReceive(h) \/ DelDispatch(h) \/ RemoverStep(h)
      PROVE  Goal
  BY <1>1 DEF FileReceive, FileDispatch, DelReceive, DelDispatch, RemoverStep,
              Remove, RemoveFails, Unmark
<1>2. ASSUME Divide PROVE Goal
  <2>1. CASE Die
    BY <2>1 DEF Die
  <2> QED
    BY <1>2, <2>1 DEF Divide, handVars
<1> QED
  BY HandsMove, <1>1, <1>2 DEF handVars

LEMMA RoundKeepsTypes ==
    ASSUME TypeOK, [Next]_vars
    PROVE  /\ strategy' \in {"idle", "plan", "all", "divide", "pick", "evict", "panic"}
           /\ goal' \in Size /\ need' \in Size /\ done' \in Nat
           /\ picked' \in [Hashes -> Size]
           /\ victim' \in Hashes \cup {NoHash} /\ evicted' \subseteq Hashes
<1> DEFINE Goal ==
           /\ strategy' \in {"idle", "plan", "all", "divide", "pick", "evict", "panic"}
           /\ goal' \in Size /\ need' \in Size /\ done' \in Nat
           /\ picked' \in [Hashes -> Size]
           /\ victim' \in Hashes \cup {NoHash} /\ evicted' \subseteq Hashes
<1> USE Wraps DEF TypeOK
<1>1. ASSUME Tick PROVE Goal
  <2>1. size - LowWater \in Int
    BY SizesAssumption DEF Size
  <2> QED
    BY <1>1, <2>1 DEF Tick
<1>2. ASSUME Plan PROVE Goal
  <2>1. 3 * goal \in Int
    BY DEF Size
  <2> QED
    BY <1>2, <2>1 DEF Plan
<1>3. ASSUME PlanAll PROVE Goal
  BY <1>3 DEF PlanAll
<1>4. ASSUME Divide PROVE Goal
  <2>1. CASE Die
    BY <2>1 DEF Die
  <2> QED
    BY <1>4, <2>1 DEF Divide
<1>5. ASSUME PickedEnough PROVE Goal
  BY <1>5 DEF PickedEnough
<1>6. ASSUME QueueVictim PROVE Goal
  BY <1>6 DEF QueueVictim
<1>7. ASSUME SendVictim \/ UNCHANGED roundVars PROVE Goal
  BY <1>7 DEF SendVictim, roundVars
<1>8. ASSUME EndRound PROVE Goal
  BY <1>8 DEF EndRound, Absent
<1>9. ASSUME NEW h \in Hashes, Pick(h) PROVE Goal
  BY <1>9 DEF Pick
<1>10. ASSUME NEW h \in Hashes, Evict(h) PROVE Goal
  <2>1. done + picked[h] \in Nat
    BY DEF Size
  <2> QED
    BY <1>10, <2>1 DEF Evict, Absent
<1> QED
  BY RoundMoves, <1>1, <1>2, <1>3, <1>4, <1>5, <1>6, <1>7, <1>8, <1>9, <1>10 DEF StrategyStep

LEMMA EmptyQueues == CQP!Init /\ DQP!Init => CQP!IInv /\ DQP!IInv
  BY QueueAssumptions, CQP!InitInv, DQP!InitInv

(* A step of the cache is a step of both queues, or the end of the         *)
(* process, which empties them.                                            *)
LEMMA QueuesKeep ==
    ASSUME TypeInv, [Next]_vars
    PROVE  CQP!IInv' /\ DQP!IInv'
<1> USE QueueAssumptions
<1>1. CASE Die
  <2>1. CQP!Init' /\ DQP!Init'
    BY <1>1 DEF Die, CQP!Init, DQP!Init
  <2>2. (CQP!Init /\ DQP!Init => CQP!IInv /\ DQP!IInv)'
    BY EmptyQueues, PTL
  <2> QED
    BY <2>1, <2>2
<1>2. CASE ~Die
  <2>1. [CQP!Next]_CQP!vars
    <3>1. CASE UNCHANGED cqVars
      BY <3>1 DEF cqVars, CQP!vars
    <3>2. ASSUME NEW c \in Clients, InsertRequest(c) PROVE CQP!Next
      <4>1. arg[c] \in Hashes /\ CQP!Insert(c, arg[c])
        BY <3>2 DEF InsertRequest, TypeInv, Places, CQ!Insert, CQP!Insert
      <4> QED
        BY <4>1 DEF CQP!Next
    <3>3. ASSUME NEW c \in Clients, SendRequest(c) PROVE CQP!Next
      BY <3>3 DEF SendRequest, CQP!Next, CQ!Send, CQP!Send
    <3>4. ASSUME NEW h \in Hashes, FileReceive(h) PROVE CQP!Next
      BY <3>4 DEF FileReceive, CQP!Next, CQ!Receive, CQP!Receive
    <3>5. ASSUME Divide PROVE UNCHANGED cqVars
      BY <1>2, <3>5 DEF Divide
    <3> QED
      BY RequestsMove, <3>1, <3>2, <3>3, <3>4, <3>5
  <2>2. [DQP!Next]_DQP!vars
    <3>1. CASE UNCHANGED dqVars
      BY <3>1 DEF dqVars, DQP!vars
    <3>2. ASSUME QueueVictim PROVE DQP!Next
      <4>1. victim \in Hashes /\ DQP!Insert(Strategy, victim)
        BY <3>2 DEF QueueVictim, TypeInv, TypeOK, DQ!Insert, DQP!Insert
      <4> QED
        BY <4>1 DEF DQP!Next
    <3>3. ASSUME SendVictim PROVE DQP!Next
      BY <3>3 DEF SendVictim, DQP!Next, DQ!Send, DQP!Send
    <3>4. ASSUME NEW h \in Hashes, DelReceive(h) PROVE DQP!Next
      BY <3>4 DEF DelReceive, DQP!Next, DQ!Receive, DQP!Receive
    <3>5. ASSUME NEW h \in Hashes, RemoveFails(h) PROVE DQP!Next
      BY <3>5 DEF RemoveFails, DQP!Next, DQ!Insert, DQP!Insert
    <3>6. ASSUME NEW h \in Hashes, Unmark(h) PROVE DQP!Next
      BY <3>6 DEF Unmark, DQP!Next, DQ!Delete, DQP!Delete
    <3>7. ASSUME Divide PROVE UNCHANGED dqVars
      BY <1>2, <3>7 DEF Divide
    <3> QED
      BY RemovalsMove, <3>1, <3>2, <3>3, <3>4, <3>5, <3>6, <3>7
  <2> QED
    BY <2>1, <2>2, CQP!StepKeeps, DQP!StepKeeps DEF TypeInv
<1> QED
  BY <1>1, <1>2

(* A slice that is in the table at the start is whole and on disk.         *)
LEMMA FoundFiles ==
    ASSUME Reorganized
    PROVE  /\ hashMap = [h \in Hashes |-> hashMap[h]] /\ disk = [h \in Hashes |-> disk[h]]
           /\ \A h \in Hashes :
                \/ hashMap[h] = SliceSize[h] /\ disk[h] = SliceSize[h]
                \/ hashMap[h] = Absent /\ disk[h] \in {SliceSize[h], SliceSize[h] - 1, NoFile}
<1>1. PICK cached \in SUBSET Hashes :
        \E whole, partial \in SUBSET (Hashes \ cached) :
          /\ hashMap = [h \in Hashes |-> IF h \in cached THEN SliceSize[h] ELSE Absent]
          /\ disk = [h \in Hashes |-> CASE h \in cached \cup whole -> SliceSize[h]
                                       [] h \in partial \ whole -> SliceSize[h] - 1
                                       [] OTHER -> NoFile]
  BY DEF Reorganized
<1>2. PICK whole \in SUBSET (Hashes \ cached), partial \in SUBSET (Hashes \ cached) :
        disk = [h \in Hashes |-> CASE h \in cached \cup whole -> SliceSize[h]
                                  [] h \in partial \ whole -> SliceSize[h] - 1
                                  [] OTHER -> NoFile]
  BY <1>1
<1> QED
  BY <1>1, <1>2

LEMMA InitTypes == Init => TypeInv
<1> SUFFICES ASSUME Init PROVE TypeInv
  OBVIOUS
<1> USE Wraps
<1>1. CQP!IInv /\ DQP!IInv
  BY EmptyQueues DEF Init, CQ!Init, DQ!Init, CQP!Init, DQP!Init
<1>2. CQ!TypeOK /\ DQ!TypeOK
  BY <1>1 DEF CQP!IInv, DQP!IInv, CQP!TypeOK, DQP!TypeOK, CQ!TypeOK, DQ!TypeOK
<1>3. hashMap \in [Hashes -> Size] /\ disk \in [Hashes -> NoFile..Word-1]
  <2>1. \A h \in Hashes : SliceSize[h] \in Size /\ SliceSize[h] \in NoFile..Word-1
                          /\ SliceSize[h] - 1 \in NoFile..Word-1 /\ NoFile \in NoFile..Word-1
    BY SizesAssumption DEF Size, NoFile
  <2>2. Reorganized
    BY DEF Init
  <2> QED
    BY <2>1, <2>2, FoundFiles DEF Absent
<1>4. Places
  BY NamesAssumption DEF Init, Places, Threads
<1>5. TypeOK
  <2>1. /\ failed \subseteq Hashes /\ size \in Size
        /\ fileHand \in Hashes \cup {NoHash} /\ delHand \in Hashes \cup {NoHash}
        /\ remover \in [Hashes -> {"none", "remove", "unmark"}]
        /\ requests \in 0..MaxRequests
    BY BoundsAssumption DEF Init
  <2>2. /\ strategy \in {"idle", "plan", "all", "divide", "pick", "evict", "panic"}
        /\ goal \in Size /\ need \in Size /\ done \in Nat
        /\ picked \in [Hashes -> Size]
        /\ victim \in Hashes \cup {NoHash} /\ evicted \subseteq Hashes
    BY DEF Init, Absent
  <2>3. /\ pc \in [Threads -> {"idle", "query", "stat", "insert", "none", "start", "fetch",
                               "receive", "measure", "load", "account", "store", "dead"}]
        /\ arg \in [Threads -> Hashes \cup {NoHash}]
        /\ fsize \in [Threads -> Size] /\ old \in [Threads -> Size]
    BY DEF Init, Absent, Threads
  <2> QED
    BY <1>2, <1>3, <2>1, <2>2, <2>3 DEF TypeOK
<1> QED
  BY <1>1, <1>4, <1>5 DEF TypeInv

LEMMA StepTypes == TypeInv /\ [Next]_vars => TypeInv'
<1> SUFFICES ASSUME TypeInv, [Next]_vars PROVE TypeInv'
  OBVIOUS
<1>1. CQP!IInv' /\ DQP!IInv'
  BY QueuesKeep
<1>2. CQ!TypeOK' /\ DQ!TypeOK'
  BY <1>1 DEF CQP!IInv, DQP!IInv, CQP!TypeOK, DQP!TypeOK, CQ!TypeOK, DQ!TypeOK
<1>3. failed' \subseteq Hashes /\ requests' \in 0..MaxRequests
  BY NotesMove, BoundsAssumption DEF TypeInv, TypeOK
<1>4. TypeOK' /\ Places'
  BY <1>2, <1>3, ThreadsKeepTypes, TableKeepsTypes, HandsKeepTypes, RoundKeepsTypes
     DEF TypeInv, TypeOK
<1> QED
  BY <1>1, <1>4 DEF TypeInv

(* The variables keep their types.                                         *)
THEOREM TypeCorrect == Spec => []TypeOK
<1>1. TypeInv => TypeOK
  BY DEF TypeInv
<1> QED
  BY <1>1, InitTypes, StepTypes, PTL DEF Spec

-----------------------------------------------------------------------------
(* One task per slice.                                                     *)

(* A goroutine moves itself only.                                          *)
LEMMA OthersStay ==
    ASSUME TypeOK, NEW t \in Threads,
           (t \in Clients /\ ClientMove(t)) \/ (t \in Hashes /\ TaskStep(t))
    PROVE  \A u \in Threads \ {t} : /\ pc'[u] = pc[u] /\ arg'[u] = arg[u]
                                    /\ fsize'[u] = fsize[u] /\ old'[u] = old[u]
  BY DEF TypeOK, ClientMove, Miss, QueryQueue, StatFile, InsertRequest, TaskStep, Lock, Fetch,
     Transfer, Measure, FailTask, LoadInCache, LoadEntry, Account, Store, Goto, Finish

LEMMA FilesMove ==
    ASSUME [Next]_vars
    PROVE  \/ UNCHANGED <<threadVars, fileHand, cqTaken>>
           \/ \E c \in Clients : ClientMove(c) /\ UNCHANGED <<fileHand, cqTaken>>
           \/ \E h \in Hashes : \/ FileReceive(h)
                                \/ FileDispatch(h)
                                \/ TaskStep(h) /\ UNCHANGED <<fileHand, cqTaken>>
           \/ Divide
<1>1. CASE \E c \in Clients, h \in Hashes : Hit(c, h) \/ Miss(c, h)
  BY <1>1 DEF Hit, Miss, ClientMove, vars, handVars, cqVars
<1>2. CASE \E c \in Clients : ClientStep(c)
  BY <1>2 DEF ClientStep, ClientMove, QueryQueue, StatFile, InsertRequest, SendRequest,
     CQ!Insert, CQ!Send, LoadInCache, LoadEntry, Account, Store, threadVars, handVars, cqVars
<1>3. CASE FileLoop
  BY <1>3 DEF FileLoop
<1>4. CASE \E h \in Hashes : TaskStep(h)
  BY <1>4 DEF TaskStep, Lock, Fetch, Transfer, Measure, LoadInCache, LoadEntry, Account, Store,
     handVars, cqVars
<1>5. CASE \E h \in Hashes : RemoverStep(h) \/ ClearFailed(h)
  BY <1>5 DEF RemoverStep, Remove, RemoveFails, Unmark, ClearFailed, threadVars, handVars, cqVars
<1>6. CASE StrategyStep
  BY <1>6 DEF StrategyStep, Tick, Plan, PlanAll, PickedEnough, QueueVictim, SendVictim,
     EndRound, Pick, Evict, threadVars, handVars, cqVars
<1>7. CASE CleanLoop
  BY <1>7 DEF CleanLoop, DelReceive, DelDispatch, threadVars, cqVars
<1>8. CASE UNCHANGED vars
  BY <1>8 DEF vars, threadVars, handVars, cqVars
<1> QED
  BY <1>1, <1>2, <1>3, <1>4, <1>5, <1>6, <1>7, <1>8 DEF Next

LEMMA CleanMoves ==
    ASSUME [Next]_vars
    PROVE  \/ UNCHANGED <<delHand, remover, dqTaken>>
           \/ \E h \in Hashes : \/ DelReceive(h) \/ DelDispatch(h)
                                \/ Remove(h) \/ RemoveFails(h) \/ Unmark(h)
           \/ Divide
  BY DEF Next, vars, Hit, Miss, ClientStep, QueryQueue, StatFile, InsertRequest,
     SendRequest, LoadInCache, LoadEntry, Account, Store, FileLoop, FileReceive, FileDispatch,
     TaskStep, Lock, Fetch, Transfer, Measure, RemoverStep, ClearFailed,
     StrategyStep, Tick, Plan, PlanAll, PickedEnough, QueueVictim, SendVictim, EndRound, Pick,
     Evict, CleanLoop, handVars, dqVars, DQ!Insert, DQ!Send

(* What the file loop holds, and what a task downloads, was received from  *)
(* cacheQueue and its mark was not deleted; the loop holds no slice that   *)
(* has a task.                                                             *)
FilesInHand ==
    /\ fileHand # NoHash => fileHand \in cqTaken /\ pc[fileHand] = "none"
    /\ \A h \in Hashes : pc[h] \notin {"none", "dead"} => h \in cqTaken

(* The same of the clean loop, the removal tasks and delQueue.             *)
RemovalsInHand ==
    /\ delHand # NoHash => delHand \in dqTaken /\ remover[delHand] = "none"
    /\ \A h \in Hashes : remover[h] # "none" => h \in dqTaken

(* The process ends as a whole, and with it what was under way.            *)
Ended ==
    /\ \A t \in Threads : pc[t] = "dead" => strategy = "panic"
    /\ strategy = "panic" =>
        /\ \A t \in Threads : pc[t] = "dead"
        /\ fileHand = NoHash /\ cqQueue = <<>> /\ \A c \in Clients : cqSending[c] = NoHash

WorkInv == FilesInHand /\ RemovalsInHand /\ Ended

(* What comes out of a queue was not taken from it before.                 *)
LEMMA HeadIsNew ==
    ASSUME TypeInv, NEW h
    PROVE  /\ CQ!Receive(h) => h \in Hashes /\ h \notin cqTaken
           /\ DQ!Receive(h) => h \in Hashes /\ h \notin dqTaken
<1>1. ASSUME CQ!Receive(h) PROVE h \in Hashes /\ h \notin cqTaken
  <2>1. 1 \in 1..Len(cqQueue) /\ h = cqQueue[1] /\ cqQueue \in Seq(Hashes)
    BY <1>1 DEF TypeInv, TypeOK, CQ!TypeOK, CQ!Receive
  <2> QED
    BY <2>1 DEF TypeInv, CQP!IInv, CQP!OnePlace
<1>2. ASSUME DQ!Receive(h) PROVE h \in Hashes /\ h \notin dqTaken
  <2>1. 1 \in 1..Len(dqQueue) /\ h = dqQueue[1] /\ dqQueue \in Seq(Hashes)
    BY <1>2 DEF TypeInv, TypeOK, DQ!TypeOK, DQ!Receive
  <2> QED
    BY <2>1 DEF TypeInv, DQP!IInv, DQP!OnePlace
<1> QED
  BY <1>1, <1>2

LEMMA FilesStayInHand ==
    ASSUME TypeInv, FilesInHand, Ended, [Next]_vars
    PROVE  FilesInHand'
<1> USE NamesAssumption DEF FilesInHand, TypeInv, TypeOK, Threads
<1>1. CASE UNCHANGED <<threadVars, fileHand, cqTaken>>
  BY <1>1 DEF threadVars
<1>2. ASSUME NEW c \in Clients, ClientMove(c), UNCHANGED <<fileHand, cqTaken>>
      PROVE  FilesInHand'
  BY <1>2, OthersStay
<1>3. ASSUME NEW h \in Hashes, FileReceive(h) PROVE FilesInHand'
  <2>1. h \notin cqTaken /\ cqTaken' = cqTaken \cup {h} /\ fileHand' = h /\ pc' = pc
    BY <1>3, HeadIsNew DEF FileReceive, CQ!Receive, threadVars
  <2>2. pc[h] # "dead"
    BY <1>3 DEF Ended, FileReceive, CQ!Receive
  <2> QED
    BY <2>1, <2>2
<1>4. ASSUME NEW h \in Hashes, FileDispatch(h) PROVE FilesInHand'
  <2>1. fileHand = h /\ fileHand' = NoHash /\ cqTaken' = cqTaken
        /\ (pc' = pc \/ pc' = [pc EXCEPT ![h] = "start"])
    BY <1>4 DEF FileDispatch, cqVars, Goto
  <2> QED
    BY <2>1
<1>5. ASSUME NEW h \in Hashes, TaskStep(h), UNCHANGED <<fileHand, cqTaken>>
      PROVE  FilesInHand'
  <2>1. pc[h] \notin {"none", "dead"}
    BY <1>5 DEF TaskStep, Lock, Fetch, Transfer, Measure, LoadInCache, LoadEntry, Account, Store
  <2>2. \A g \in Hashes \ {h} : pc'[g] = pc[g]
    BY <1>5, OthersStay
  <2> QED
    BY <1>5, <2>1, <2>2
<1>6. ASSUME Divide PROVE FilesInHand'
  <2>1. CASE Die
    BY <2>1 DEF Die
  <2> QED
    BY <1>6, <2>1 DEF Divide, threadVars, handVars, cqVars
<1> QED
  BY FilesMove, <1>1, <1>2, <1>3, <1>4, <1>5, <1>6

LEMMA RemovalsStayInHand ==
    ASSUME TypeInv, RemovalsInHand, [Next]_vars
    PROVE  RemovalsInHand'
<1> USE NamesAssumption DEF RemovalsInHand, TypeInv, TypeOK
<1>1. CASE UNCHANGED <<delHand, remover, dqTaken>>
  BY <1>1
<1>2. ASSUME NEW h \in Hashes, DelReceive(h) PROVE RemovalsInHand'
  <2>1. h \notin dqTaken /\ dqTaken' = dqTaken \cup {h} /\ delHand' = h /\ remover' = remover
    BY <1>2, HeadIsNew DEF DelReceive, DQ!Receive
  <2> QED
    BY <2>1
<1>3. ASSUME NEW h \in Hashes, DelDispatch(h) PROVE RemovalsInHand'
  BY <1>3 DEF DelDispatch, dqVars
<1>4. ASSUME NEW h \in Hashes, Remove(h) PROVE RemovalsInHand'
  BY <1>4 DEF Remove, dqVars
<1>5. ASSUME NEW h \in Hashes, RemoveFails(h) PROVE RemovalsInHand'
  BY <1>5 DEF RemoveFails, DQ!Insert
<1>6. ASSUME NEW h \in Hashes, Unmark(h) PROVE RemovalsInHand'
  BY <1>6 DEF Unmark, DQ!Delete
<1>7. ASSUME Divide PROVE RemovalsInHand'
  <2>1. CASE Die
    BY <2>1 DEF Die
  <2> QED
    BY <1>7, <2>1 DEF Divide, handVars, dqVars
<1> QED
  BY CleanMoves, <1>1, <1>2, <1>3, <1>4, <1>5, <1>6, <1>7

LEMMA EndStays ==
    ASSUME TypeInv, Ended, [Next]_vars
    PROVE  Ended'
<1> USE NamesAssumption DEF TypeInv, TypeOK
<1>1. CASE Die
  BY <1>1 DEF Die, Ended
<1>2. CASE ~Die /\ strategy = "panic"
  <2>1. strategy' = "panic"
    BY <1>2, RoundMoves DEF roundVars, StrategyStep, Tick, Plan, PlanAll, Divide, PickedEnough,
       QueueVictim, SendVictim, EndRound, RoundOver, Pick, Evict
  <2>2. /\ \A t \in Threads : pc[t] = "dead"
        /\ fileHand = NoHash /\ cqQueue = <<>> /\ \A c \in Clients : cqSending[c] = NoHash
    BY <1>2 DEF Ended
  <2>3. ~Divide /\ \A c \in Clients : ~ClientMove(c) /\ ~SendRequest(c) /\ ~InsertRequest(c)
    BY <1>2, <2>2 DEF Threads, ClientMove, Miss, QueryQueue, StatFile, InsertRequest,
       LoadInCache, LoadEntry, Account, Store, SendRequest, CQ!Send, Divide
  <2>4. \A h \in Hashes : ~FileReceive(h) /\ ~FileDispatch(h) /\ ~TaskStep(h)
    BY <2>2 DEF Threads, FileReceive, CQ!Receive, FileDispatch, TaskStep, Lock, Fetch, Transfer,
       Measure, LoadInCache, LoadEntry, Account, Store
  <2>5. pc' = pc /\ fileHand' = fileHand /\ cqQueue' = cqQueue /\ cqSending' = cqSending
    BY <2>3, <2>4, FilesMove, RequestsMove DEF threadVars, cqVars
  <2> QED
    BY <2>1, <2>2, <2>5 DEF Ended
<1>3. CASE ~Die /\ strategy # "panic"
  <2>1. strategy' # "panic"
    BY <1>3, RoundMoves DEF roundVars, StrategyStep, Tick, Plan, PlanAll, Divide, PickedEnough,
       QueueVictim, SendVictim, EndRound, Pick, Evict
  <2>2. \A t \in Threads : pc[t] # "dead"
    BY <1>3 DEF Ended
  <2>3. \A t \in Threads : pc'[t] # "dead"
    <3>1. ASSUME NEW c \in Clients, ClientMove(c) PROVE \A t \in Threads : pc'[t] # "dead"
      <4>1. pc'[c] # "dead"
        BY <2>2, <3>1 DEF Threads, ClientMove, Miss, QueryQueue, StatFile, InsertRequest,
           LoadInCache, LoadEntry, Account, Store, Goto, Finish
      <4> QED
        BY <2>2, <3>1, <4>1, OthersStay DEF Threads
    <3>2. ASSUME NEW h \in Hashes, TaskStep(h) PROVE \A t \in Threads : pc'[t] # "dead"
      <4>1. pc'[h] # "dead"
        BY <2>2, <3>2 DEF Threads, TaskStep, Lock, Fetch, Transfer, Measure, FailTask,
           LoadInCache, LoadEntry, Account, Store, Goto, Finish
      <4> QED
        BY <2>2, <3>2, <4>1, OthersStay DEF Threads
    <3>3. ASSUME NEW h \in Hashes, FileDispatch(h) PROVE \A t \in Threads : pc'[t] # "dead"
      BY <2>2, <3>3 DEF FileDispatch, Goto
    <3>4. ASSUME Divide PROVE pc' = pc
      BY <1>3, <3>4 DEF Divide, threadVars
    <3> QED
      BY <2>2, <3>1, <3>2, <3>3, <3>4, ThreadsMove DEF threadVars
  <2> QED
    BY <2>1, <2>3 DEF Ended
<1> QED
  BY <1>1, <1>2, <1>3

LEMMA InitWork == Init => WorkInv
  BY NamesAssumption DEF Init, CQ!Init, DQ!Init, WorkInv,
    FilesInHand, RemovalsInHand, Ended, Threads

LEMMA StepWork == TypeInv /\ WorkInv /\ [Next]_vars => WorkInv'
  BY FilesStayInHand, RemovalsStayInHand, EndStays DEF WorkInv

(* The file loop never holds a slice whose download still runs, nor the    *)
(* clean loop one whose removal does: a queue gives a slice out once for   *)
(* each mark, and the mark outlives the task.                              *)
THEOREM TasksAreAlone == Spec => []OneTaskPerHash
<1>1. WorkInv => OneTaskPerHash
  BY DEF WorkInv, FilesInHand, RemovalsInHand, OneTaskPerHash
<1> QED
  BY <1>1, InitTypes, StepTypes, InitWork, StepWork, PTL DEF Spec

-----------------------------------------------------------------------------
(* The files the table and the tasks speak of.                             *)

LEMMA LoadsMove ==
    ASSUME [Next]_vars
    PROVE  \/ UNCHANGED <<threadVars, disk, hashMap, evicted>>
           \/ \E c \in Clients : ClientMove(c)
           \/ \E h \in Hashes : FileDispatch(h) \/ TaskStep(h) \/ Remove(h) \/ Evict(h)
           \/ Divide
  BY DEF Next, vars, ClientMove, Hit, ClientStep, SendRequest, FileLoop, FileReceive,
     RemoverStep, RemoveFails, Unmark, ClearFailed, StrategyStep, Tick, Plan, PlanAll,
     PickedEnough, QueueVictim, SendVictim, EndRound, Pick, CleanLoop, DelReceive,
     DelDispatch, threadVars, cacheVars, roundVars

LEMMA TargetStaysFresh ==
    ASSUME TypeInv, FreshTarget, [Next]_vars
    PROVE  FreshTarget'
<1> USE NamesAssumption DEF TypeInv, TypeOK, FreshTarget, Threads, Places
<1>1. CASE UNCHANGED <<threadVars, disk, hashMap, evicted>>
  BY <1>1 DEF threadVars
<1>2. ASSUME NEW c \in Clients, ClientMove(c) PROVE FreshTarget'
  <2>1. disk' = disk
    BY <1>2 DEF ClientMove, Miss, QueryQueue, StatFile, InsertRequest, LoadInCache, LoadEntry,
       Account, Store
  <2> QED
    BY <1>2, <2>1, OthersStay
<1>3. ASSUME NEW h \in Hashes, FileDispatch(h) PROVE FreshTarget'
  BY <1>3 DEF FileDispatch, Goto
<1>4. ASSUME NEW h \in Hashes, TaskStep(h) PROVE FreshTarget'
  <2>1. \A g \in Hashes \ {h} : pc'[g] = pc[g] /\ disk'[g] = disk[g]
    <3>1. \A g \in Hashes \ {h} : disk'[g] = disk[g]
      BY <1>4 DEF TaskStep, Lock, Fetch, Transfer, Written, Measure, LoadInCache, LoadEntry,
         Account, Store
    <3> QED
      BY <1>4, <3>1, OthersStay
  <2>2. pc'[h] \in {"start", "fetch"} => disk'[h] = NoFile
    <3>1. CASE Lock(h)
      BY <3>1 DEF Lock
    <3>2. CASE ~Lock(h)
      BY <1>4, <3>2 DEF TaskStep, Fetch, Transfer, Measure, FailTask, LoadInCache,
         LoadEntry, Account, Store, Goto, Finish
    <3> QED
      BY <3>1, <3>2
  <2> QED
    BY <2>1, <2>2
<1>5. ASSUME NEW h \in Hashes, Remove(h) PROVE FreshTarget'
  BY <1>5 DEF Remove, threadVars
<1>6. ASSUME NEW h \in Hashes, Evict(h) PROVE FreshTarget'
  BY <1>6 DEF Evict, threadVars
<1>7. ASSUME Divide PROVE FreshTarget'
  <2>1. CASE Die
    BY <2>1 DEF Die
  <2> QED
    BY <1>7, <2>1 DEF Divide, threadVars
<1> QED
  BY LoadsMove, <1>1, <1>2, <1>3, <1>4, <1>5, <1>6, <1>7

(* A download task finds no file until it has created it.                  *)
THEOREM TargetIsFresh == Spec => []FreshTarget
<1>1. Init => FreshTarget
  BY NamesAssumption DEF Init, FreshTarget, Threads
<1>2. TypeInv /\ FreshTarget /\ [Next]_vars => FreshTarget'
  BY TargetStaysFresh
<1> QED
  BY <1>1, <1>2, InitTypes, StepTypes, PTL DEF Spec

(* The steps of LoadInCache, in which a goroutine acts on what it read.    *)
Loading == {"load", "account", "store"}

(* What is loaded, and what a successful download left, is whole.  Without *)
(* the second part a load could put a partial size into the table.         *)
WholeLoads ==
    /\ \A h \in Hashes : hashMap[h] \in {Absent, SliceSize[h]}
    /\ \A t \in Threads : pc[t] \in Loading => fsize[t] = SliceSize[arg[t]]
    /\ \A h \in Hashes : pc[h] = "measure" => disk[h] \in {NoFile, SliceSize[h]}

LEMMA LoadsStayWhole ==
    ASSUME TypeInv, WholeLoads, "short" \notin Faults, [Next]_vars
    PROVE  WholeLoads'
<1> USE NamesAssumption DEF TypeInv, TypeOK, WholeLoads, Threads, Places, Loading
<1>1. CASE UNCHANGED <<threadVars, disk, hashMap, evicted>>
  BY <1>1 DEF threadVars
<1>2. ASSUME NEW t \in Threads, LoadInCache(t),
             \A u \in Threads \ {t} : /\ pc'[u] = pc[u] /\ arg'[u] = arg[u]
                                      /\ fsize'[u] = fsize[u] /\ old'[u] = old[u]
      PROVE  WholeLoads'
  <2>1. disk' = disk
    BY <1>2 DEF LoadInCache, LoadEntry, Account, Store
  <2>2. \A h \in Hashes : hashMap'[h] \in {Absent, SliceSize[h]}
    BY <1>2 DEF LoadInCache, LoadEntry, Account, Store, cacheVars
  <2>3. pc'[t] \in Loading => fsize'[t] = SliceSize[arg'[t]]
    BY <1>2 DEF LoadInCache, LoadEntry, Account, Store, Goto, Finish
  <2>4. pc'[t] # "measure"
    BY <1>2 DEF LoadInCache, LoadEntry, Account, Store, Goto, Finish
  <2> QED
    BY <1>2, <2>1, <2>2, <2>3, <2>4
<1>3. ASSUME NEW c \in Clients, ClientMove(c), ~LoadInCache(c) PROVE WholeLoads'
  <2>1. disk' = disk /\ hashMap' = hashMap
    BY <1>3 DEF ClientMove, Miss, QueryQueue, StatFile, InsertRequest, cacheVars
  <2>2. pc'[c] \in Loading => fsize'[c] = SliceSize[arg'[c]]
    BY <1>3 DEF ClientMove, Miss, QueryQueue, StatFile, InsertRequest, Goto, Finish
  <2> QED
    BY <1>3, <2>1, <2>2, OthersStay
<1>4. ASSUME NEW h \in Hashes, FileDispatch(h) PROVE WholeLoads'
  BY <1>4 DEF FileDispatch, Goto, cacheVars
<1>5. ASSUME NEW h \in Hashes, TaskStep(h), ~LoadInCache(h) PROVE WholeLoads'
  <2>1. hashMap' = hashMap /\ \A g \in Hashes \ {h} : disk'[g] = disk[g]
    BY <1>5 DEF TaskStep, Lock, Fetch, Transfer, Written, Measure, cacheVars
  <2>2. pc'[h] = "measure" => disk'[h] \in {NoFile, SliceSize[h]}
    BY <1>5 DEF TaskStep, Lock, Fetch, Transfer, Written, Measure, FailTask, Goto, Finish
  <2>3. pc'[h] \in Loading => fsize'[h] = SliceSize[arg'[h]]
    BY <1>5 DEF TaskStep, Lock, Fetch, Transfer, Measure, FailTask, Goto, Finish
  <2> QED
    BY <1>5, <2>1, <2>2, <2>3, OthersStay
<1>6. ASSUME NEW h \in Hashes, Remove(h) PROVE WholeLoads'
  BY <1>6 DEF Remove, threadVars, cacheVars
<1>7. ASSUME NEW h \in Hashes, Evict(h) PROVE WholeLoads'
  BY <1>7 DEF Evict, threadVars
<1>8. ASSUME Divide PROVE WholeLoads'
  <2>1. CASE Die
    BY <2>1 DEF Die
  <2> QED
    BY <1>8, <2>1 DEF Divide, threadVars, cacheVars
<1>9. ASSUME NEW c \in Clients, LoadInCache(c) PROVE WholeLoads'
  BY <1>9, <1>2, OthersStay DEF ClientMove
<1>10. ASSUME NEW h \in Hashes, LoadInCache(h) PROVE WholeLoads'
  BY <1>10, <1>2, OthersStay DEF TaskStep
<1> QED
  BY LoadsMove, <1>1, <1>3, <1>4, <1>5, <1>6, <1>7, <1>8, <1>9, <1>10

LEMMA InitWhole == Init => WholeLoads
<1> SUFFICES ASSUME Init PROVE WholeLoads
  OBVIOUS
<1>1. \A h \in Hashes : hashMap[h] \in {Absent, SliceSize[h]}
  BY FoundFiles DEF Init
<1>2. \A t \in Threads : pc[t] \notin Loading \cup {"measure"}
  BY DEF Init, Threads, Loading
<1> QED
  BY <1>1, <1>2 DEF WholeLoads, Threads

(* While the storage miners report honestly, the table vouches for whole   *)
(* slices only.                                                            *)
THEOREM TableIsWhole == Spec => []OnlyWholeSlices
<1> DEFINE Inv == "short" \notin Faults => WholeLoads
<1>1. Init => Inv
  BY InitWhole
<1>2. TypeInv /\ Inv /\ [Next]_vars => Inv'
  BY LoadsStayWhole
<1>3. Inv => OnlyWholeSlices
  BY DEF WholeLoads, OnlyWholeSlices
<1> QED
  BY <1>1, <1>2, <1>3, InitTypes, StepTypes, PTL DEF Spec

(* Only files of evicted slices are ever removed: a slice is marked in     *)
(* delQueue after its eviction, or again when its removal failed.          *)
RemovesEvicted == dqFilter \subseteq evicted /\ (victim # NoHash => victim \in evicted)

(* The marks of slices on their way to removal.                            *)
LEMMA RemovalIsMarked ==
    ASSUME TypeInv, RemovalsInHand, NEW h \in Hashes, remover[h] # "none"
    PROVE  h \in dqFilter
  BY DEF RemovalsInHand, TypeInv, DQP!IInv, DQP!Marked

LEMMA StillRemovesEvicted ==
    ASSUME TypeInv, RemovalsInHand, RemovesEvicted, [Next]_vars
    PROVE  RemovesEvicted'
<1>1. evicted \subseteq evicted'
      /\ (victim' = victim \/ victim' = NoHash \/ victim' \in evicted')
  BY RoundMoves DEF roundVars, StrategyStep, Tick, Plan, PlanAll, Divide, Die, PickedEnough,
     QueueVictim, SendVictim, EndRound, Pick, Evict
<1>2. dqFilter' \subseteq evicted
  <2>1. ASSUME QueueVictim PROVE dqFilter' \subseteq evicted
    BY <2>1 DEF QueueVictim, DQ!Insert, RemovesEvicted
  <2>2. ASSUME NEW h \in Hashes, RemoveFails(h) PROVE dqFilter' \subseteq evicted
    <3>1. h \in dqFilter
      BY <2>2, RemovalIsMarked DEF RemoveFails
    <3> QED
      BY <2>2, <3>1 DEF RemoveFails, DQ!Insert, RemovesEvicted
  <2>3. ASSUME Divide PROVE dqFilter' \subseteq evicted
    <3>1. CASE Die
      BY <3>1 DEF Die
    <3> QED
      BY <2>3, <3>1 DEF Divide, dqVars, RemovesEvicted
  <2> QED
    BY RemovalsMove, <2>1, <2>2, <2>3 DEF dqVars, RemovesEvicted, SendVictim, DQ!Send,
       DelReceive, DQ!Receive, Unmark, DQ!Delete
<1> QED
  BY <1>1, <1>2 DEF RemovesEvicted

(* What the table says of a slice that was never evicted is what is on     *)
(* disk, and so is what goroutines noted that are about to store it; a     *)
(* client only notes whole slices, and a file is empty until something was *)
(* received: so no file that was looked at is written to.                  *)
VouchedFiles ==
    /\ VouchedFileIsThere
    /\ \A t \in Threads :
         pc[t] \in Loading /\ arg[t] \notin evicted => fsize[t] = disk[arg[t]]
    /\ \A c \in Clients : pc[c] \in Loading => fsize[c] # 0
    /\ \A h \in Hashes \ evicted : pc[h] = "receive" => disk[h] = 0

LEMMA FilesStayVouched ==
    ASSUME TypeInv, RemovalsInHand, RemovesEvicted, FreshTarget, VouchedFiles, [Next]_vars
    PROVE  VouchedFiles'
<1> USE NamesAssumption, SizesAssumption
    DEF TypeInv, TypeOK, VouchedFiles, VouchedFileIsThere, Threads, Places, Loading, Absent
<1>1. CASE UNCHANGED <<threadVars, disk, hashMap, evicted>>
  BY <1>1 DEF threadVars
<1>2. ASSUME NEW t \in Threads, LoadInCache(t),
             \A u \in Threads \ {t} : /\ pc'[u] = pc[u] /\ arg'[u] = arg[u]
                                      /\ fsize'[u] = fsize[u] /\ old'[u] = old[u]
      PROVE  VouchedFiles'
  <2>1. disk' = disk /\ evicted' = evicted
    BY <1>2 DEF LoadInCache, LoadEntry, Account, Store, roundVars
  <2>2. \A h \in Hashes \ evicted : hashMap'[h] \in {Absent, disk[h]}
    BY <1>2 DEF LoadInCache, LoadEntry, Account, Store, cacheVars
  <2>3. pc'[t] \in Loading => /\ pc[t] \in Loading
                              /\ fsize'[t] = fsize[t] /\ arg'[t] = arg[t]
    BY <1>2 DEF LoadInCache, LoadEntry, Account, Store, Goto, Finish
  <2>4. pc'[t] # "receive"
    BY <1>2 DEF LoadInCache, LoadEntry, Account, Store, Goto, Finish
  <2> QED
    BY <1>2, <2>1, <2>2, <2>3, <2>4
<1>3. ASSUME NEW c \in Clients, ClientMove(c), ~LoadInCache(c) PROVE VouchedFiles'
  <2>1. disk' = disk /\ hashMap' = hashMap /\ evicted' = evicted
    BY <1>3 DEF ClientMove, Miss, QueryQueue, StatFile, InsertRequest, cacheVars, roundVars
  <2>2. pc'[c] \in Loading => fsize'[c] = disk[arg'[c]] /\ fsize'[c] # 0
    BY <1>3 DEF ClientMove, Miss, QueryQueue, StatFile, InsertRequest, Goto, Finish
  <2> QED
    BY <1>3, <2>1, <2>2, OthersStay
<1>4. ASSUME NEW h \in Hashes, FileDispatch(h) PROVE VouchedFiles'
  BY <1>4 DEF FileDispatch, Goto, cacheVars, roundVars
<1>5. ASSUME NEW h \in Hashes, TaskStep(h), ~LoadInCache(h) PROVE VouchedFiles'
  <2>1. /\ hashMap' = hashMap /\ evicted' = evicted
        /\ \A g \in Hashes \ {h} : disk'[g] = disk[g]
    BY <1>5 DEF TaskStep, Lock, Fetch, Transfer, Written, Measure, cacheVars, roundVars
  <2>2. disk'[h] # disk[h] =>
          h \in evicted \/ /\ hashMap[h] = Absent
                           /\ \A c \in Clients : pc[c] \in Loading => arg[c] # h
    <3>1. disk'[h] = disk[h] \/ Fetch(h) \/ Transfer(h)
      BY <1>5 DEF TaskStep, Lock, Measure
    <3>2. ASSUME h \notin evicted, Fetch(h) \/ Transfer(h)
          PROVE  /\ hashMap[h] = Absent
                 /\ \A c \in Clients : pc[c] \in Loading => arg[c] # h
      <4>1. disk[h] = NoFile \/ disk[h] = 0
        BY <3>2 DEF Fetch, Transfer, FreshTarget
      <4> QED
        BY <3>2, <4>1 DEF NoFile, Size
    <3> QED
      BY <3>1, <3>2
  <2>3. pc'[h] = "receive" => disk'[h] = 0
    BY <1>5 DEF TaskStep, Lock, Fetch, Transfer, Measure, FailTask, Goto, Finish
  <2>4. pc'[h] \in Loading => fsize'[h] = disk'[h] /\ arg'[h] = h
    BY <1>5 DEF TaskStep, Lock, Fetch, Transfer, Measure, FailTask, Goto, Finish
  <2>5. \A u \in Threads \ {h} : pc'[u] = pc[u] /\ arg'[u] = arg[u] /\ fsize'[u] = fsize[u]
    BY <1>5, OthersStay
  <2>6. \A t \in Threads :
          pc'[t] \in Loading /\ arg'[t] \notin evicted => fsize'[t] = disk'[arg'[t]]
    BY <2>1, <2>2, <2>4, <2>5
  <2>7. \A g \in Hashes \ evicted : hashMap[g] \in {Absent, disk'[g]}
    BY <2>1, <2>2
  <2> QED
    BY <2>1, <2>3, <2>5, <2>6, <2>7
<1>6. ASSUME NEW h \in Hashes, Remove(h) PROVE VouchedFiles'
  <2>1. h \in evicted
    BY <1>6, RemovalIsMarked DEF Remove, RemovesEvicted
  <2>2. hashMap' = hashMap /\ evicted' = evicted /\ UNCHANGED threadVars
    BY <1>6 DEF Remove, cacheVars, roundVars
  <2>3. \A g \in Hashes \ {h} : disk'[g] = disk[g]
    BY <1>6 DEF Remove
  <2> QED
    BY <2>1, <2>2, <2>3 DEF threadVars
<1>7. ASSUME NEW h \in Hashes, Evict(h) PROVE VouchedFiles'
  BY <1>7 DEF Evict, threadVars
<1>8. ASSUME Divide PROVE VouchedFiles'
  <2>1. CASE Die
    BY <2>1 DEF Die
  <2> QED
    BY <1>8, <2>1 DEF Divide, threadVars, cacheVars
<1>9. ASSUME NEW c \in Clients, LoadInCache(c) PROVE VouchedFiles'
  BY <1>9, <1>2, OthersStay DEF ClientMove
<1>10. ASSUME NEW h \in Hashes, LoadInCache(h) PROVE VouchedFiles'
  BY <1>10, <1>2, OthersStay DEF TaskStep
<1> QED
  BY LoadsMove, <1>1, <1>3, <1>4, <1>5, <1>6, <1>7, <1>8, <1>9, <1>10

(* What the table vouches for is on disk, until it is evicted.             *)
THEOREM FileIsThere == Spec => []VouchedFileIsThere
<1>1. Init => RemovesEvicted /\ VouchedFiles
  <2> SUFFICES ASSUME Init PROVE RemovesEvicted /\ VouchedFiles
    OBVIOUS
  <2>1. \A h \in Hashes : hashMap[h] \in {Absent, disk[h]}
    BY FoundFiles DEF Init
  <2>2. \A t \in Threads : pc[t] \notin Loading \cup {"receive"}
    BY DEF Init, Threads, Loading
  <2>3. RemovesEvicted
    BY DEF Init, DQ!Init, RemovesEvicted
  <2> QED
    BY <2>1, <2>2, <2>3 DEF VouchedFiles, VouchedFileIsThere, Threads
<1>2. TypeInv /\ WorkInv /\ RemovesEvicted /\ [Next]_vars => RemovesEvicted'
  BY StillRemovesEvicted DEF WorkInv
<1>3. TypeInv /\ WorkInv /\ RemovesEvicted /\ FreshTarget /\ VouchedFiles /\ [Next]_vars
        => VouchedFiles'
  BY FilesStayVouched DEF WorkInv
<1>4. VouchedFiles => VouchedFileIsThere
  BY DEF VouchedFiles
<1> QED
  BY <1>1, <1>2, <1>3, <1>4, InitTypes, StepTypes, InitWork, StepWork, TargetIsFresh,
     PTL DEF Spec

-----------------------------------------------------------------------------
(* The size.                                                               *)

(* What the loads that were accounted for still have to store.             *)
Pending == [t \in Threads |-> IF pc[t] = "store" THEN fsize[t] - old[t] ELSE 0]

LEMMA SumsAreNumbers ==
    ASSUME TypeOK
    PROVE  /\ IsFiniteSet(Hashes) /\ IsFiniteSet(Threads)
           /\ hashMap \in [Hashes -> Int] /\ Pending \in [Threads -> Int] /\ size \in Int
<1>1. IsFiniteSet(Threads)
  BY FiniteAssumption, FS_Union DEF Threads
<1> QED
  BY <1>1, FiniteAssumption DEF TypeOK, Size, Pending

(* Word arithmetic on the size.                                            *)
LEMMA DriftOfWord ==
    ASSUME NEW a \in Int, NEW s \in Int, NEW p \in Int
    PROVE  ((a % Word) - s - p) % Word = (a - s - p) % Word
<1>1. Word \in Nat \ {0} /\ s + p \in Int /\ a % Word \in Int
  BY SizesAssumption
<1>2. ((a % Word) - (s + p)) % Word = (a - (s + p)) % Word
  BY <1>1, WordMinus
<1>3. a - (s + p) = a - s - p /\ (a % Word) - (s + p) = (a % Word) - s - p
  BY <1>1
<1> QED
  BY <1>2, <1>3

(* What the sums become when one entry, or one load, changes.              *)
LEMMA SumsChange ==
    ASSUME TypeOK
    PROVE  /\ SumFunction(hashMap) \in Int /\ SumFunction(Pending) \in Int
           /\ \A h \in Hashes, v \in Int :
                SumFunction([hashMap EXCEPT ![h] = v]) = SumFunction(hashMap) - hashMap[h] + v
           /\ \A t \in Threads, v \in Int :
                SumFunction([Pending EXCEPT ![t] = v]) = SumFunction(Pending) - Pending[t] + v
<1>1. /\ IsFiniteSet(Hashes) /\ IsFiniteSet(Threads)
      /\ hashMap \in [Hashes -> Int] /\ Pending \in [Threads -> Int]
  BY SumsAreNumbers
<1>2. \A h \in Hashes, v \in Int :
        SumFunction([hashMap EXCEPT ![h] = v]) = SumFunction(hashMap) - hashMap[h] + v
  BY <1>1, SumExcept
<1>3. \A t \in Threads, v \in Int :
        SumFunction([Pending EXCEPT ![t] = v]) = SumFunction(Pending) - Pending[t] + v
  BY <1>1, SumExcept
<1>4. SumFunction(hashMap) \in Int /\ SumFunction(Pending) \in Int
  <2>1. SumFunction(hashMap) = SumFunctionOnSet(hashMap, Hashes)
        /\ SumFunction(Pending) = SumFunctionOnSet(Pending, Threads)
    BY <1>1 DEF SumFunction
  <2>2. (\A h \in Hashes : hashMap[h] \in Int) /\ (\A t \in Threads : Pending[t] \in Int)
    BY <1>1
  <2> QED
    BY <1>1, <2>1, <2>2, SumInt
<1> QED
  BY <1>2, <1>3, <1>4

(* The size moves with the load that is under way,                         *)
LEMMA AccountKeepsDrift ==
    ASSUME TypeInv, NEW t \in Threads, Account(t)
    PROVE  Drift' = Drift
<1> DEFINE f == fsize[t]
           o == old[t]
           s == SumFunction(hashMap)
           p == SumFunction(Pending)
<1>1. f \in Int /\ o \in Int /\ size \in Int
  BY DEF TypeInv, TypeOK, Size
<1>2. size' = (size - o + f) % Word /\ hashMap' = hashMap
  BY DEF Account
<1>3. Pending' = [Pending EXCEPT ![t] = f - o] /\ Pending[t] = 0
  BY DEF Account, Goto, Pending, TypeInv, TypeOK
<1>4. SumFunction(Pending') = p - 0 + (f - o) /\ p \in Int /\ s \in Int
  <2> HIDE DEF f, o
  <2>1. f - o \in Int
    BY <1>1
  <2> QED
    BY <1>3, <2>1, SumsChange DEF TypeInv
<1>5. Drift = (size - s - p) % Word
  BY DEF Drift, Pending
<1>6. Drift' = (size' - SumFunction(hashMap') - SumFunction(Pending')) % Word
  BY DEF Drift, Pending
<1> DEFINE a == size - o + f
           q == p - 0 + (f - o)
<1> HIDE DEF f, o, s, p
<1>7. a \in Int /\ q \in Int /\ a - s - q = size - s - p
  BY <1>1, <1>4
<1>8. Drift' = ((a % Word) - s - q) % Word
  BY <1>2, <1>4, <1>6 DEF s
<1> HIDE DEF a, q
<1>9. Drift' = (a - s - q) % Word
  BY <1>4, <1>7, <1>8, DriftOfWord
<1> QED
  BY <1>5, <1>7, <1>9

(* the entry with the load, if it is what the load found,                  *)
LEMMA StoreKeepsDrift ==
    ASSUME TypeInv, NEW t \in Threads, Store(t), arg[t] \in Hashes, hashMap[arg[t]] = old[t]
    PROVE  Drift' = Drift
<1> DEFINE f == fsize[t]
           o == old[t]
           s == SumFunction(hashMap)
           p == SumFunction(Pending)
<1>1. f \in Int /\ o \in Int /\ size \in Int
  BY DEF TypeInv, TypeOK, Size
<1>2. size' = size /\ hashMap' = [hashMap EXCEPT ![arg[t]] = f]
  BY DEF Store
<1>3. Pending' = [Pending EXCEPT ![t] = 0] /\ Pending[t] = f - o
  BY DEF Store, Finish, Goto, Pending, TypeInv, TypeOK
<1>4. SumFunction(Pending') = p - (f - o) + 0 /\ p \in Int /\ s \in Int
  <2> HIDE DEF f, o
  <2>1. 0 \in Int
    OBVIOUS
  <2>2. SumFunction([Pending EXCEPT ![t] = 0]) = SumFunction(Pending) - Pending[t] + 0
    BY <2>1, SumsChange, Zenon DEF TypeInv
  <2> QED
    BY <1>3, <2>2, SumsChange DEF TypeInv
<1>5. SumFunction(hashMap') = s - o + f
  <2> HIDE DEF f
  <2> QED
    BY <1>1, <1>2, SumsChange DEF TypeInv
<1>6. Drift = (size - s - p) % Word
  BY DEF Drift, Pending
<1>7. Drift' = (size' - SumFunction(hashMap') - SumFunction(Pending')) % Word
  BY DEF Drift, Pending
<1> HIDE DEF f, o, s, p
<1>8. size - (s - o + f) - (p - (f - o) + 0) = size - s - p
  BY <1>1, <1>4
<1> QED
  BY <1>2, <1>4, <1>5, <1>6, <1>7, <1>8

(* and the size with the entry that is evicted.                            *)
LEMMA EvictKeepsDrift ==
    ASSUME TypeInv, NEW h \in Hashes, Evict(h)
    PROVE  Drift' = Drift
<1> DEFINE m == hashMap[h]
           s == SumFunction(hashMap)
           p == SumFunction(Pending)
<1>1. m \in Int /\ size \in Int
  BY DEF TypeInv, TypeOK, Size
<1>2. size' = (size - m) % Word /\ hashMap' = [hashMap EXCEPT ![h] = 0]
  BY DEF Evict, Absent
<1>3. Pending' = Pending
  BY DEF Evict, threadVars, Pending
<1>4. SumFunction(hashMap') = s - m + 0 /\ p \in Int /\ s \in Int
  <2>1. 0 \in Int
    OBVIOUS
  <2>2. SumFunction([hashMap EXCEPT ![h] = 0]) = SumFunction(hashMap) - hashMap[h] + 0
    BY <2>1, SumsChange, Zenon DEF TypeInv
  <2> QED
    BY <1>2, <2>2, SumsChange DEF TypeInv
<1>5. Drift = (size - s - p) % Word
  BY DEF Drift, Pending
<1>6. Drift' = (size' - SumFunction(hashMap') - SumFunction(Pending')) % Word
  BY DEF Drift, Pending
<1> DEFINE a == size - m
           r == s - m + 0
<1> HIDE DEF m, s, p
<1>7. a \in Int /\ r \in Int /\ a - r - p = size - s - p
  BY <1>1, <1>4
<1>8. Drift' = ((a % Word) - r - p) % Word
  BY <1>2, <1>3, <1>4, <1>6 DEF p
<1> HIDE DEF a, r
<1>9. Drift' = (a - r - p) % Word
  BY <1>4, <1>7, <1>8, DriftOfWord
<1> QED
  BY <1>5, <1>7, <1>9

(* What the loads that were accounted for are about to store stays.         *)
LoadsKeep ==
    \A t \in Threads : /\ (pc'[t] = "store") <=> (pc[t] = "store")
                       /\ pc[t] = "store" => fsize'[t] = fsize[t] /\ old'[t] = old[t]

LEMMA SizesMove ==
    ASSUME TypeInv, [Next]_vars
    PROVE  \/ UNCHANGED cacheVars /\ LoadsKeep
           \/ \E t \in Threads :
                /\ Account(t) \/ Store(t)
                /\ arg[t] \in Hashes
                /\ \A u \in Threads \ {t} : /\ pc'[u] = pc[u] /\ arg'[u] = arg[u]
                                            /\ fsize'[u] = fsize[u] /\ old'[u] = old[u]
           \/ \E h \in Hashes : Evict(h) /\ UNCHANGED threadVars
           \/ Die
<1> DEFINE Moves ==
      \E t \in Threads :
        /\ Account(t) \/ Store(t)
        /\ arg[t] \in Hashes
        /\ \A u \in Threads \ {t} : /\ pc'[u] = pc[u] /\ arg'[u] = arg[u]
                                    /\ fsize'[u] = fsize[u] /\ old'[u] = old[u]
           Keeps == UNCHANGED cacheVars /\ LoadsKeep
<1> USE NamesAssumption DEF TypeInv, TypeOK, Threads, Places
<1>1. ASSUME UNCHANGED <<cacheVars, threadVars>> PROVE Keeps
  BY <1>1 DEF threadVars, LoadsKeep
<1>2. ASSUME NEW c \in Clients, ClientMove(c) PROVE Moves \/ Keeps
  <2>1. \A u \in Threads \ {c} : /\ pc'[u] = pc[u] /\ arg'[u] = arg[u]
                                 /\ fsize'[u] = fsize[u] /\ old'[u] = old[u]
    BY <1>2, OthersStay
  <2>2. CASE Account(c) \/ Store(c)
    BY <2>1, <2>2 DEF Account, Store
  <2>3. CASE ~Account(c) /\ ~Store(c)
    <3>1. UNCHANGED cacheVars /\ pc[c] # "store" /\ pc'[c] # "store"
      BY <1>2, <2>3 DEF ClientMove, Miss, QueryQueue, StatFile, InsertRequest, LoadInCache,
         LoadEntry, Goto, Finish
    <3> QED
      BY <2>1, <3>1 DEF LoadsKeep
  <2> QED
    BY <2>2, <2>3
<1>3. ASSUME NEW h \in Hashes, TaskStep(h) PROVE Moves \/ Keeps
  <2>1. \A u \in Threads \ {h} : /\ pc'[u] = pc[u] /\ arg'[u] = arg[u]
                                 /\ fsize'[u] = fsize[u] /\ old'[u] = old[u]
    BY <1>3, OthersStay
  <2>2. CASE Account(h) \/ Store(h)
    BY <2>1, <2>2
  <2>3. CASE ~Account(h) /\ ~Store(h)
    <3>1. UNCHANGED cacheVars /\ pc[h] # "store" /\ pc'[h] # "store"
      BY <1>3, <2>3 DEF TaskStep, Lock, Fetch, Transfer, Measure, FailTask, LoadInCache,
         LoadEntry, Goto, Finish
    <3> QED
      BY <2>1, <3>1 DEF LoadsKeep
  <2> QED
    BY <2>2, <2>3
<1>4. ASSUME NEW h \in Hashes, FileDispatch(h) PROVE Keeps
  <2>1. /\ UNCHANGED <<cacheVars, arg, fsize, old>>
        /\ pc' = pc \/ (pc[h] # "store" /\ pc' = [pc EXCEPT ![h] = "start"])
    BY <1>4 DEF FileDispatch, Locked, Goto
  <2> QED
    BY <2>1 DEF LoadsKeep
<1>5. ASSUME Divide, ~Die PROVE Keeps
  BY <1>1, <1>5 DEF Divide
<1>6. ASSUME NEW h \in Hashes, Evict(h) PROVE UNCHANGED threadVars
  BY <1>6 DEF Evict
<1>7. ASSUME NEW t \in Threads, Account(t) \/ Store(t) PROVE Moves
  <2>1. CASE t \in Clients
    <3>1. ClientMove(t) /\ ~Keeps
      BY <1>7, <2>1 DEF ClientMove, LoadInCache, LoadsKeep, Account, Store, Goto, Finish
    <3> QED
      BY <1>2, <2>1, <3>1
  <2>2. CASE t \in Hashes
    <3>1. TaskStep(t) /\ ~Keeps
      BY <1>7, <2>2 DEF TaskStep, LoadInCache, LoadsKeep, Account, Store, Goto, Finish
    <3> QED
      BY <1>3, <2>2, <3>1
  <2> QED
    BY <2>1, <2>2
<1>8. UNCHANGED cacheVars \/ Moves \/ (\E h \in Hashes : Evict(h)) \/ Divide
  BY TableMoves, <1>7
<1> QED
  <2> HIDE DEF Moves, Keeps
  <2>1. Moves \/ Keeps \/ (\E h \in Hashes : Evict(h)) \/ Die
    BY ThreadsMove, <1>1, <1>2, <1>3, <1>4, <1>5, <1>8
  <2> QED
    BY <1>6, <2>1 DEF Moves, Keeps

(* A load that stores over an entry another goroutine changed since it     *)
(* looked.                                                                 *)
StaleStore ==
    \E t \in Threads : pc[t] = "store" /\ pc'[t] # "store" /\ hashMap[arg[t]] # old[t]

LEMMA DriftStays ==
    ASSUME TypeInv, [Next]_vars, ~StaleStore, strategy' # "panic"
    PROVE  Drift' = Drift
<1>1. ASSUME UNCHANGED cacheVars, LoadsKeep PROVE Drift' = Drift
  <2>1. Pending' = Pending /\ hashMap' = hashMap /\ size' = size
    BY <1>1 DEF LoadsKeep, Pending, cacheVars
  <2> QED
    BY <2>1 DEF Drift, Pending
<1>2. ASSUME NEW t \in Threads, Store(t), arg[t] \in Hashes PROVE Drift' = Drift
  <2>1. pc[t] = "store" /\ pc'[t] # "store"
    BY <1>2 DEF Store, Finish, Goto, TypeInv, TypeOK
  <2>2. hashMap[arg[t]] = old[t]
    BY <2>1 DEF StaleStore
  <2> QED
    BY <1>2, <2>2, StoreKeepsDrift
<1>3. ~Die
  BY DEF Die
<1> QED
  BY SizesMove, AccountKeepsDrift, EvictKeepsDrift, <1>1, <1>2, <1>3

(* The size is the sum of the entries, but for loads that store over an    *)
(* entry another goroutine changed.                                        *)
THEOREM DriftIsStale == Spec => DriftOnlyFromStaleStore
<1>1. TypeInv /\ [Next]_vars
        => (Drift' # Drift /\ strategy' # "panic" =>
              \E t \in Threads : pc[t] = "store" /\ pc'[t] # "store" /\ hashMap[arg[t]] # old[t])
  BY DriftStays DEF StaleStore
<1> QED
  BY <1>1, InitTypes, StepTypes, PTL DEF Spec, DriftOnlyFromStaleStore

-----------------------------------------------------------------------------
(* What is loaded while a round reads the size.                            *)

(* A load that was accounted for is about to store less than it found.     *)
Shrinks(t) == pc[t] = "store" /\ fsize[t] < old[t]

(* What a load found was whole too.                                        *)
WholeFinds ==
    \A t \in Threads : pc[t] \in {"account", "store"} => old[t] \in {Absent, SliceSize[arg[t]]}

LEMMA FindsStayWhole ==
    ASSUME TypeInv, WholeLoads, WholeFinds, [Next]_vars
    PROVE  WholeFinds'
<1> USE NamesAssumption DEF TypeInv, TypeOK, WholeFinds, Threads
<1>1. ASSUME NEW c \in Clients, ClientMove(c) PROVE WholeFinds'
  <2>1. pc'[c] \in {"account", "store"} => old'[c] \in {Absent, SliceSize[arg'[c]]}
    BY <1>1 DEF ClientMove, Miss, QueryQueue, StatFile, InsertRequest, LoadInCache, LoadEntry,
       Account, Store, Goto, Finish, WholeLoads, Places
  <2> QED
    BY <1>1, <2>1, OthersStay
<1>2. ASSUME NEW h \in Hashes, TaskStep(h) PROVE WholeFinds'
  <2>1. pc'[h] \in {"account", "store"} => old'[h] \in {Absent, SliceSize[arg'[h]]}
    BY <1>2 DEF TaskStep, Lock, Fetch, Transfer, Measure, FailTask, LoadInCache, LoadEntry,
       Account, Store, Goto, Finish, WholeLoads, Places
  <2> QED
    BY <1>2, <2>1, OthersStay
<1>3. ASSUME NEW h \in Hashes, FileDispatch(h) PROVE WholeFinds'
  BY <1>3 DEF FileDispatch, Goto
<1>4. ASSUME Divide PROVE WholeFinds'
  <2>1. CASE Die
    BY <2>1 DEF Die
  <2> QED
    BY <1>4, <2>1 DEF Divide, threadVars
<1> QED
  BY ThreadsMove, <1>1, <1>2, <1>3, <1>4 DEF threadVars

(* What honest miners bring about.                                         *)
Honest == "short" \notin Faults => WholeLoads /\ WholeFinds

LEMMA InitHonest == Init => Honest
<1>1. Init => WholeFinds
  <2> SUFFICES ASSUME Init, NEW t \in Threads PROVE pc[t] \notin {"account", "store"}
    BY DEF WholeFinds
  <2> QED
    BY DEF Init, Threads
<1> QED
  BY <1>1, InitWhole DEF Honest

LEMMA HonestLoadsFit ==
    ASSUME TypeInv, Honest, "short" \notin Faults
    PROVE  \A t \in Threads : ~Shrinks(t)
<1> SUFFICES ASSUME NEW t \in Threads, pc[t] = "store" PROVE ~(fsize[t] < old[t])
  BY DEF Shrinks
<1>1. fsize[t] = SliceSize[arg[t]] /\ old[t] \in {0, SliceSize[arg[t]]}
  BY DEF Honest, WholeLoads, WholeFinds, Loading, Absent
<1>2. fsize[t] \in Nat
  BY DEF TypeInv, TypeOK, Size
<1> QED
  BY <1>1, <1>2

LEMMA StepHonest == TypeInv /\ Honest /\ [Next]_vars => Honest'
  BY LoadsStayWhole, FindsStayWhole DEF Honest

(* Nothing is counted with more than its size on the chain, or as nothing. *)
Fits ==
    /\ \A h \in Hashes : hashMap[h] <= SliceSize[h] /\ disk[h] <= SliceSize[h]
    /\ \A t \in Threads : pc[t] \in Loading => fsize[t] <= SliceSize[arg[t]]
    /\ \A t \in Threads : pc[t] \in {"account", "store"} => fsize[t] # 0

LEMMA StillFits ==
    ASSUME TypeInv, Fits, [Next]_vars
    PROVE  Fits'
<1> USE NamesAssumption, SizesAssumption
    DEF TypeInv, TypeOK, Fits, Threads, Places, Loading, Size, NoFile, Absent
<1>1. CASE UNCHANGED <<threadVars, disk, hashMap, evicted>>
  BY <1>1 DEF threadVars
<1>2. ASSUME NEW t \in Threads, LoadInCache(t), arg[t] \in Hashes,
             \A u \in Threads \ {t} : /\ pc'[u] = pc[u] /\ arg'[u] = arg[u]
                                      /\ fsize'[u] = fsize[u] /\ old'[u] = old[u]
      PROVE  Fits'
  <2>1. disk' = disk
    BY <1>2 DEF LoadInCache, LoadEntry, Account, Store
  <2>2. \A h \in Hashes : hashMap'[h] <= SliceSize[h]
    BY <1>2 DEF LoadInCache, LoadEntry, Account, Store, cacheVars
  <2>3. /\ pc'[t] \in Loading => fsize'[t] <= SliceSize[arg'[t]]
        /\ pc'[t] \in {"account", "store"} => fsize'[t] # 0
    BY <1>2 DEF LoadInCache, LoadEntry, Account, Store, Goto, Finish
  <2> QED
    BY <1>2, <2>1, <2>2, <2>3
<1>3. ASSUME NEW c \in Clients, ClientMove(c), ~LoadInCache(c) PROVE Fits'
  <2>1. disk' = disk /\ hashMap' = hashMap
    BY <1>3 DEF ClientMove, Miss, QueryQueue, StatFile, InsertRequest, cacheVars
  <2>2. /\ pc'[c] \in Loading => fsize'[c] <= SliceSize[arg'[c]]
        /\ pc'[c] \notin {"account", "store"}
    BY <1>3 DEF ClientMove, Miss, QueryQueue, StatFile, InsertRequest, Goto, Finish
  <2> QED
    BY <1>3, <2>1, <2>2, OthersStay
<1>4. ASSUME NEW h \in Hashes, FileDispatch(h) PROVE Fits'
  BY <1>4 DEF FileDispatch, Goto, cacheVars
<1>5. ASSUME NEW h \in Hashes, TaskStep(h), ~LoadInCache(h) PROVE Fits'
  <2>1. hashMap' = hashMap /\ \A g \in Hashes \ {h} : disk'[g] = disk[g]
    BY <1>5 DEF TaskStep, Lock, Fetch, Transfer, Written, Measure, cacheVars
  <2>2. disk'[h] <= SliceSize[h]
    BY <1>5 DEF TaskStep, Lock, Fetch, Transfer, Written, Measure
  <2>3. /\ pc'[h] \in Loading => fsize'[h] <= SliceSize[arg'[h]]
        /\ pc'[h] \notin {"account", "store"}
    BY <1>5 DEF TaskStep, Lock, Fetch, Transfer, Measure, FailTask, Goto, Finish
  <2> QED
    BY <1>5, <2>1, <2>2, <2>3, OthersStay
<1>6. ASSUME NEW h \in Hashes, Remove(h) PROVE Fits'
  BY <1>6 DEF Remove, threadVars, cacheVars
<1>7. ASSUME NEW h \in Hashes, Evict(h) PROVE Fits'
  BY <1>7 DEF Evict, threadVars
<1>8. ASSUME Divide PROVE Fits'
  <2>1. CASE Die
    BY <2>1 DEF Die
  <2> QED
    BY <1>8, <2>1 DEF Divide, threadVars, cacheVars
<1>9. ASSUME NEW c \in Clients, LoadInCache(c) PROVE Fits'
  <2>1. arg[c] \in Hashes
    BY <1>9 DEF LoadInCache, LoadEntry, Account, Store
  <2> QED
    BY <1>9, <2>1, <1>2, OthersStay DEF ClientMove
<1>10. ASSUME NEW h \in Hashes, LoadInCache(h) PROVE Fits'
  BY <1>10, <1>2, OthersStay DEF TaskStep
<1> QED
  BY LoadsMove, <1>1, <1>3, <1>4, <1>5, <1>6, <1>7, <1>8, <1>9, <1>10

LEMMA InitFits == Init => Fits
<1> SUFFICES ASSUME Init PROVE Fits
  OBVIOUS
<1>1. \A h \in Hashes : hashMap[h] <= SliceSize[h] /\ disk[h] <= SliceSize[h]
  BY FoundFiles, SizesAssumption DEF Init, NoFile, Absent
<1>2. \A t \in Threads : pc[t] \notin Loading
  BY DEF Init, Threads, Loading
<1> QED
  BY <1>1, <1>2 DEF Fits, Loading

AllBytes == SumFunction(SliceSize)

(* The words are wide enough.                                              *)
LEMMA Room ==
    /\ AllBytes \in Nat /\ AllBytes * Cardinality(Threads) \in Nat
    /\ LowWater + AllBytes * Cardinality(Threads) + 3 * AllBytes < Word
    /\ \A H \in SUBSET Hashes : SumFunctionOnSet(SliceSize, H) \in 0..AllBytes
    /\ \A h \in Hashes : SliceSize[h] \in 1..AllBytes
<1>1. IsFiniteSet(Hashes) /\ IsFiniteSet(Threads)
  BY FiniteAssumption, FS_Union DEF Threads
<1>2. \A h \in Hashes : SliceSize[h] \in Nat /\ SliceSize[h] >= 1
  BY SizesAssumption
<1>3. AllBytes = SumFunctionOnSet(SliceSize, Hashes)
  BY SizesAssumption DEF AllBytes, SumFunction
<1>4. \A H \in SUBSET Hashes : SumFunctionOnSet(SliceSize, H) \in Nat
  BY <1>1, <1>2, SumNat
<1>5. \A H \in SUBSET Hashes : SumFunctionOnSet(SliceSize, H) <= AllBytes
  BY <1>1, <1>2, <1>3, SumWider
<1>6. \A h \in Hashes : SliceSize[h] <= AllBytes
  BY <1>1, <1>2, <1>3, SumOfOne
<1>7. AllBytes \in Nat
  BY <1>3, <1>4
<1>8. Cardinality(Threads) \in Nat
  BY <1>1, FS_CardinalityType
<1>9. LowWater + (Cardinality(Threads) + 3) * AllBytes < Word
  BY RoomAssumption DEF AllBytes
<1> DEFINE n == Cardinality(Threads)
<1> HIDE DEF n
<1>10. (n + 3) * AllBytes = AllBytes * n + 3 * AllBytes /\ AllBytes * n \in Nat
  BY <1>7, <1>8 DEF n
<1>11. LowWater + AllBytes * n + 3 * AllBytes < Word
  <2>1. 3 * AllBytes \in Nat /\ LowWater \in Nat
    BY <1>7, SizesAssumption
  <2> QED
    BY <1>9, <1>10, <2>1 DEF n
<1> QED
  BY <1>2, <1>4, <1>5, <1>6, <1>7, <1>10, <1>11 DEF n

(* So the entries, with the loads under way, make no whole word.           *)
LEMMA BytesFit ==
    ASSUME TypeInv, Fits
    PROVE  /\ SumFunction(hashMap) \in Nat /\ SumFunction(Pending) \in Int
           /\ SumFunction(hashMap) + SumFunction(Pending) < Word
           /\ \A h \in Hashes : hashMap[h] <= SumFunction(hashMap)
           /\ (\A t \in Threads : ~Shrinks(t)) => SumFunction(Pending) \in Nat
<1>1. IsFiniteSet(Hashes) /\ IsFiniteSet(Threads) /\ SumFunction(Pending) \in Int
  BY SumsAreNumbers, SumsChange DEF TypeInv
<1>2. /\ SumFunction(hashMap) = SumFunctionOnSet(hashMap, Hashes)
      /\ SumFunction(Pending) = SumFunctionOnSet(Pending, Threads)
      /\ AllBytes = SumFunctionOnSet(SliceSize, Hashes)
  BY SizesAssumption DEF TypeInv, TypeOK, Pending, SumFunction, AllBytes
<1>3. \A h \in Hashes : hashMap[h] \in Nat
  BY DEF TypeInv, TypeOK, Size
<1>4. SumFunction(hashMap) \in Nat /\ \A h \in Hashes : hashMap[h] <= SumFunction(hashMap)
  BY <1>1, <1>2, <1>3, SumNat, SumOfOne
<1>5. SumFunction(hashMap) <= AllBytes
  <2>1. /\ \A h \in Hashes : hashMap[h] \in Int /\ SliceSize[h] \in Int
        /\ \A h \in Hashes : hashMap[h] <= SliceSize[h]
    BY <1>3, SizesAssumption DEF Fits
  <2> QED
    BY <1>1, <1>2, <2>1, SumGrows
<1>6. \A t \in Threads : /\ Pending[t] \in Int
                         /\ Pending[t] <= AllBytes
                         /\ ~Shrinks(t) => Pending[t] \in Nat
  <2> SUFFICES ASSUME NEW t \in Threads, pc[t] = "store"
               PROVE  /\ fsize[t] - old[t] <= AllBytes
                      /\ fsize[t] - old[t] \in Int
                      /\ ~Shrinks(t) => fsize[t] - old[t] \in Nat
    BY Room DEF Pending
  <2>1. fsize[t] \in Nat /\ old[t] \in Nat
    BY DEF TypeInv, TypeOK, Size
  <2>2. arg[t] \in Hashes /\ fsize[t] <= SliceSize[arg[t]]
    BY DEF Fits, Loading, TypeInv, Places, Threads
  <2>3. AllBytes \in Nat /\ SliceSize[arg[t]] \in 1..AllBytes
    BY <2>2, Room
  <2> QED
    BY <2>1, <2>2, <2>3 DEF Shrinks
<1>7. SumFunction(Pending) <= AllBytes * Cardinality(Threads)
  <2>1. AllBytes \in Int
    BY Room
  <2> QED
    BY <1>1, <1>2, <1>6, <2>1, SumBound
<1>8. (\A t \in Threads : ~Shrinks(t)) => SumFunction(Pending) \in Nat
  BY <1>1, <1>2, <1>6, SumNat
<1>9. SumFunction(hashMap) + SumFunction(Pending) < Word
  <2>1. /\ AllBytes \in Nat /\ AllBytes * Cardinality(Threads) \in Nat /\ LowWater \in Nat
        /\ LowWater + AllBytes * Cardinality(Threads) + 3 * AllBytes < Word /\ Word \in Nat
    BY Room, SizesAssumption
  <2> DEFINE n == AllBytes * Cardinality(Threads)
             s == SumFunction(hashMap)
             p == SumFunction(Pending)
  <2>2. n \in Nat /\ p <= n /\ s <= AllBytes /\ s \in Nat /\ p \in Int
        /\ LowWater + n + 3 * AllBytes < Word
    BY <1>1, <1>4, <1>5, <1>7, <2>1
  <2> HIDE DEF n, s, p
  <2>3. s + p < Word
    BY <2>1, <2>2
  <2> QED
    BY <2>3 DEF s, p
<1> QED
  BY <1>1, <1>4, <1>8, <1>9

-----------------------------------------------------------------------------
(* A round that draws.                                                     *)

Drawing == {"plan", "all", "divide"}

(* While GetRandomList reads the total, there are bytes to be found, but   *)
(* for the exceptions DiesOnlyFromDrift makes.                             *)
BytesLeft ==
    strategy \in Drawing /\ HighWater # 0 =>
        \/ Drift # 0
        \/ \E t \in Threads : Shrinks(t)
        \/ SumFunction(hashMap) + SumFunction(Pending) > 0

(* What the size is, when it has not drifted.                              *)
LEMMA SizeIsSum ==
    ASSUME TypeInv, Fits, Drift = 0, \A t \in Threads : ~Shrinks(t)
    PROVE  size = SumFunction(hashMap) + SumFunction(Pending)
<1> DEFINE s == SumFunction(hashMap)
           p == SumFunction(Pending)
<1>1. s \in Nat /\ p \in Nat /\ s + p < Word
  BY BytesFit
<1>2. (size - s - p) % Word = 0
  BY DEF Drift, Pending
<1>3. size \in 0..Word-1 /\ Word \in Nat \ {0}
  BY Wraps DEF TypeInv, TypeOK, Size
<1> HIDE DEF s, p
<1> DEFINE a == size - s - p
<1>4. a \in Int
  BY <1>1, <1>3
<1>5. a = 0 \/ a >= Word \/ 0 - a >= Word
  <2> HIDE DEF a
  <2>1. a % Word = 0
    BY <1>2 DEF a
  <2> QED
    BY <1>3, <1>4, <2>1, MultipleIsFar
<1> QED
  BY <1>1, <1>3, <1>5 DEF s, p

LEMMA BytesStayLeft ==
    ASSUME TypeInv, Fits, BytesLeft, [Next]_vars
    PROVE  BytesLeft'
<1> SUFFICES ASSUME strategy' \in Drawing, HighWater # 0, ~(Drift' # 0),
                    \A t \in Threads : ~Shrinks(t)'
             PROVE  SumFunction(hashMap') + SumFunction(Pending') > 0
  BY DEF BytesLeft
<1>1. TypeInv' /\ Fits'
  BY StepTypes, StillFits
<1>2. /\ SumFunction(hashMap') \in Nat /\ SumFunction(Pending') \in Nat
      /\ \A h \in Hashes : hashMap'[h] <= SumFunction(hashMap')
  <2>1. (TypeInv /\ Fits /\ (\A t \in Threads : ~Shrinks(t))
          => /\ SumFunction(hashMap) \in Nat /\ SumFunction(Pending) \in Nat
             /\ \A h \in Hashes : hashMap[h] <= SumFunction(hashMap))'
    BY BytesFit, PTL
  <2> QED
    BY <1>1, <2>1
<1>3. CASE Tick
  <2>1. (TypeInv /\ Fits /\ Drift = 0 /\ (\A t \in Threads : ~Shrinks(t))
          => size = SumFunction(hashMap) + SumFunction(Pending))'
    BY SizeIsSum, PTL
  <2>2. size' > 0
    BY <1>3, SizesAssumption DEF Tick, cacheVars, TypeInv, TypeOK, Size
  <2> QED
    BY <1>1, <2>1, <2>2
<1>4. CASE strategy \in Drawing
  <2>1. BytesLeft => \/ Drift # 0
                     \/ \E t \in Threads : Shrinks(t)
                     \/ SumFunction(hashMap) + SumFunction(Pending) > 0
    BY <1>4 DEF BytesLeft
  <2>2. ASSUME UNCHANGED cacheVars, LoadsKeep
        PROVE  SumFunction(hashMap') + SumFunction(Pending') > 0
    <3>1. Pending' = Pending /\ hashMap' = hashMap /\ size' = size
      BY <2>2 DEF LoadsKeep, Pending, cacheVars
    <3>2. \A t \in Threads : Shrinks(t)' <=> Shrinks(t)
      BY <2>2 DEF LoadsKeep, Shrinks
    <3>3. Drift' = Drift
      BY <3>1 DEF Drift, Pending
    <3> QED
      BY <2>1, <3>1, <3>2, <3>3
  <2>3. ASSUME NEW t \in Threads, Store(t), arg[t] \in Hashes
        PROVE  SumFunction(hashMap') + SumFunction(Pending') > 0
    <3>1. hashMap'[arg[t]] = fsize[t] /\ fsize[t] \in Nat \ {0}
      BY <2>3 DEF Store, Fits, TypeInv, TypeOK, Size
    <3> QED
      BY <1>2, <2>3, <3>1
  <2>4. ASSUME NEW t \in Threads, Account(t), arg[t] \in Hashes,
               \A u \in Threads \ {t} : /\ pc'[u] = pc[u] /\ arg'[u] = arg[u]
                                        /\ fsize'[u] = fsize[u] /\ old'[u] = old[u]
        PROVE  SumFunction(hashMap') + SumFunction(Pending') > 0
    <3>1. Drift' = Drift
      BY <2>4, AccountKeepsDrift
    <3>2. \A u \in Threads : ~Shrinks(u)
      BY <2>4 DEF Shrinks, Account
    <3>3. hashMap' = hashMap
      BY <2>4 DEF Account
    <3> DEFINE d == fsize[t] - old[t]
    <3>4. Pending' = [Pending EXCEPT ![t] = d] /\ Pending[t] = 0
      BY <2>4 DEF Account, Goto, Pending, TypeInv, TypeOK
    <3>5. d \in Nat
      <4>1. pc'[t] = "store" /\ fsize'[t] = fsize[t] /\ old'[t] = old[t]
        BY <2>4 DEF Account, Goto, TypeInv, TypeOK
      <4>2. ~(fsize[t] < old[t])
        BY <4>1 DEF Shrinks
      <4>3. fsize[t] \in Nat /\ old[t] \in Nat
        BY DEF TypeInv, TypeOK, Size
      <4> QED
        BY <4>2, <4>3
    <3> HIDE DEF d
    <3>6. SumFunction(Pending') = SumFunction(Pending) - 0 + d
      <4>1. d \in Int
        BY <3>5
      <4> QED
        BY <3>4, <4>1, SumsChange DEF TypeInv
    <3>7. SumFunction(hashMap) \in Nat /\ SumFunction(Pending) \in Nat
      BY <3>2, BytesFit
    <3>8. SumFunction(hashMap) + SumFunction(Pending) > 0
      BY <2>1, <3>1, <3>2
    <3> DEFINE s == SumFunction(hashMap)
               p == SumFunction(Pending)
    <3>9. s \in Nat /\ p \in Nat /\ d \in Nat /\ s + p > 0
          /\ SumFunction(Pending') = p - 0 + d /\ SumFunction(hashMap') = s
      BY <3>3, <3>5, <3>6, <3>7, <3>8
    <3> HIDE DEF s, p
    <3> QED
      BY <3>9
  <2>5. ~Die /\ \A h \in Hashes : ~Evict(h)
    BY <1>4 DEF Die, Evict, Drawing
  <2> QED
    BY SizesMove, <2>2, <2>3, <2>4, <2>5
<1>5. Tick \/ strategy \in Drawing
  BY RoundMoves DEF Drawing, roundVars, StrategyStep, Plan, PlanAll, Divide, Die, PickedEnough,
     QueueVictim, SendVictim, EndRound, Pick, Evict
<1> QED
  BY <1>3, <1>4, <1>5

(* A division by an empty cache ends the process only when the size has    *)
(* drifted, or a storage miner cut a slice short, or the cache is not to   *)
(* hold anything.                                                          *)
THEOREM DiesFromDrift == Spec => DiesOnlyFromDrift
<1>1. Init => BytesLeft
  BY DEF Init, BytesLeft, Drawing
<1>2. TypeInv /\ Fits /\ BytesLeft /\ [Next]_vars => BytesLeft'
  BY BytesStayLeft
<1>3. TypeInv /\ Fits /\ [Next]_vars => Fits'
  BY StillFits
<1>4. TypeInv /\ Fits /\ BytesLeft /\ Honest /\ [Next]_vars
        => (strategy' = "panic" /\ strategy # "panic" =>
              \/ HighWater = 0 \/ Drift # 0
              \/ /\ "short" \in Faults
                 /\ \E t \in Threads : pc[t] = "store" /\ fsize[t] < old[t])
  <2> SUFFICES ASSUME TypeInv, Fits, BytesLeft, [Next]_vars,
                      strategy' = "panic", strategy # "panic",
                      HighWater # 0, Drift = 0, \A t \in Threads : ~Shrinks(t)
               PROVE  FALSE
    BY HonestLoadsFit DEF Shrinks
  <2>1. Divide /\ Die
    BY RoundMoves DEF roundVars, StrategyStep, Tick, Plan, PlanAll, Divide, PickedEnough,
       QueueVictim, SendVictim, EndRound, Pick, Evict
  <2>2. strategy = "divide" /\ size = 0
    BY <2>1 DEF Divide, Die
  <2>3. SumFunction(hashMap) + SumFunction(Pending) > 0
    BY <2>2 DEF BytesLeft, Drawing
  <2> QED
    BY <2>2, <2>3, SizeIsSum
<1> QED
  BY <1>1, <1>2, <1>3, <1>4, InitTypes, StepTypes, InitFits, InitHonest, StepHonest,
     PTL DEF Spec, DiesOnlyFromDrift

-----------------------------------------------------------------------------
(* A round that was begun reaches its goal.                                *)

(* Without an eviction, a goroutine adds a slice to the size at most once: *)
(* it looked, or can yet look, while there was no entry, and it stores one *)
(* before it looks again.                                                  *)
MayAdd(t, h) ==
    \/ hashMap[h] = Absent /\ ~(pc[t] = "store" /\ arg[t] = h)
    \/ pc[t] = "account" /\ arg[t] = h /\ old[t] = Absent

MayAddAll == [t \in Threads |-> {h \in Hashes : MayAdd(t, h)}]

(* The bytes of what may be added, m being what each goroutine may add.    *)
BytesOf(m) == SumFunction([t \in Threads |-> SumFunctionOnSet(SliceSize, m[t])])

LEMMA BytesOfTable ==
    ASSUME NEW m \in [Threads -> SUBSET Hashes]
    PROVE  /\ BytesOf(m) \in 0..(AllBytes * Cardinality(Threads))
           /\ [t \in Threads |-> SumFunctionOnSet(SliceSize, m[t])] \in [Threads -> Int]
<1> DEFINE f == [t \in Threads |-> SumFunctionOnSet(SliceSize, m[t])]
<1>1. IsFiniteSet(Threads)
  BY FiniteAssumption, FS_Union DEF Threads
<1>2. \A t \in Threads : f[t] \in Nat /\ f[t] <= AllBytes
  <2>1. \A t \in Threads : m[t] \in SUBSET Hashes
    OBVIOUS
  <2>2. \A H \in SUBSET Hashes : /\ SumFunctionOnSet(SliceSize, H) \in Nat
                                 /\ SumFunctionOnSet(SliceSize, H) <= AllBytes
    BY Room
  <2> QED
    BY <2>1, <2>2
<1>3. BytesOf(m) = SumFunctionOnSet(f, Threads)
  BY DEF BytesOf, SumFunction
<1> HIDE DEF f
<1>4. SumFunctionOnSet(f, Threads) \in Nat
  BY <1>1, <1>2, SumNat
<1>5. SumFunctionOnSet(f, Threads) <= AllBytes * Cardinality(Threads)
  <2>1. AllBytes \in Int /\ \A t \in Threads : f[t] \in Int
    BY <1>2, Room
  <2> QED
    BY <1>1, <1>2, <2>1, SumBound
<1>6. BytesOf(m) \in 0..(AllBytes * Cardinality(Threads))
  BY <1>3, <1>4, <1>5, Room
<1>7. f \in [Threads -> Int]
  BY <1>2 DEF f
<1> QED
  BY <1>6, <1>7 DEF f

LEMMA BytesOfLess ==
    ASSUME NEW m \in [Threads -> SUBSET Hashes], NEW n \in [Threads -> SUBSET Hashes],
           \A t \in Threads : n[t] \subseteq m[t]
    PROVE  /\ BytesOf(n) <= BytesOf(m)
           /\ \A t \in Threads : \A h \in m[t] \ n[t] : BytesOf(n) + SliceSize[h] <= BytesOf(m)
<1> DEFINE f == [t \in Threads |-> SumFunctionOnSet(SliceSize, m[t])]
           g == [t \in Threads |-> SumFunctionOnSet(SliceSize, n[t])]
<1>1. IsFiniteSet(Threads) /\ IsFiniteSet(Hashes)
  BY FiniteAssumption, FS_Union DEF Threads
<1>2. BytesOf(n) = SumFunctionOnSet(g, Threads) /\ BytesOf(m) = SumFunctionOnSet(f, Threads)
  BY DEF BytesOf, SumFunction
<1>3. \A h \in Hashes : SliceSize[h] \in Nat /\ SliceSize[h] \in Int
  BY SizesAssumption
<1>4. f \in [Threads -> Int] /\ g \in [Threads -> Int]
  BY BytesOfTable
<1>5. \A t \in Threads : g[t] <= f[t]
  <2> SUFFICES ASSUME NEW t \in Threads
               PROVE  SumFunctionOnSet(SliceSize, n[t]) <= SumFunctionOnSet(SliceSize, m[t])
    OBVIOUS
  <2>1. m[t] \in SUBSET Hashes /\ n[t] \in SUBSET Hashes /\ n[t] \subseteq m[t]
    OBVIOUS
  <2> QED
    BY <1>1, <1>3, <2>1, SumWider
<1>6. ASSUME NEW t \in Threads, NEW h \in m[t] \ n[t] PROVE g[t] + SliceSize[h] <= f[t]
  <2>1. m[t] \in SUBSET Hashes /\ n[t] \in SUBSET (m[t] \ {h}) /\ h \in m[t]
    OBVIOUS
  <2>2. SumFunctionOnSet(SliceSize, m[t])
          = SliceSize[h] + SumFunctionOnSet(SliceSize, m[t] \ {h})
    BY <1>1, <1>3, <2>1, SumRemove
  <2>3. SumFunctionOnSet(SliceSize, n[t]) <= SumFunctionOnSet(SliceSize, m[t] \ {h})
    <3>1. n[t] \in SUBSET Hashes /\ m[t] \ {h} \in SUBSET Hashes /\ n[t] \subseteq m[t] \ {h}
      BY <2>1
    <3> QED
      BY <1>1, <1>3, <3>1, SumWider
  <2>4. /\ SumFunctionOnSet(SliceSize, n[t]) \in Nat
        /\ SumFunctionOnSet(SliceSize, m[t] \ {h}) \in Nat /\ SliceSize[h] \in Nat
    BY <1>3, <2>1, Room
  <2> QED
    BY <2>2, <2>3, <2>4
<1> HIDE DEF f, g
<1>7. \A t \in Threads : f[t] \in Int /\ g[t] \in Int
  BY <1>4
<1>8. SumFunctionOnSet(g, Threads) <= SumFunctionOnSet(f, Threads)
  BY <1>1, <1>5, <1>7, SumGrows
<1>9. ASSUME NEW t \in Threads, NEW h \in m[t] \ n[t]
      PROVE  BytesOf(n) + SliceSize[h] <= BytesOf(m)
  <2> DEFINE v == g[t] + SliceSize[h]
             k == [g EXCEPT ![t] = v]
  <2>1. v \in Int /\ h \in Hashes /\ SliceSize[h] \in Int
    BY <1>3, <1>7
  <2>2. SumFunction(k) = SumFunction(g) - g[t] + v /\ SumFunction(g) \in Int
    <3> HIDE DEF v
    <3> QED
      BY <1>1, <1>4, <2>1, SumExcept
  <2>3. \A u \in Threads : k[u] \in Int /\ k[u] <= f[u]
    BY <1>4, <1>5, <1>6, <1>7, <2>1
  <2>4. SumFunction(k) = SumFunctionOnSet(k, Threads)
        /\ SumFunction(g) = SumFunctionOnSet(g, Threads)
    BY <1>4 DEF SumFunction
  <2>5. g[t] \in Int
    BY <1>7
  <2>6. SumFunctionOnSet(k, Threads) <= SumFunctionOnSet(f, Threads)
    <3> HIDE DEF k
    <3>1. \A u \in Threads : k[u] \in Int
      BY <2>3
    <3> QED
      BY <1>1, <1>7, <2>3, <3>1, SumGrows
  <2>7. SumFunction(k) = SumFunction(g) + SliceSize[h]
    BY <2>1, <2>2, <2>5
  <2> HIDE DEF k, v
  <2> QED
    BY <1>2, <2>4, <2>6, <2>7
<1> QED
  BY <1>2, <1>8, <1>9

LEMMA MayAddLess ==
    ASSUME TypeInv, Fits, [Next]_vars, ~Divide, \A h \in Hashes : ~Evict(h)
    PROVE  \A t \in Threads, h \in Hashes : MayAdd(t, h)' => MayAdd(t, h)
<1> DEFINE Goal == \A t \in Threads, h \in Hashes : MayAdd(t, h)' => MayAdd(t, h)
<1> USE NamesAssumption DEF TypeInv, TypeOK, Threads, Places, MayAdd
<1>1. ASSUME UNCHANGED <<threadVars, hashMap>> PROVE Goal
  BY <1>1 DEF threadVars
<1>2. ASSUME NEW t \in Threads, LoadInCache(t), arg[t] \in Hashes,
             \A u \in Threads \ {t} : /\ pc'[u] = pc[u] /\ arg'[u] = arg[u]
                                      /\ fsize'[u] = fsize[u] /\ old'[u] = old[u]
      PROVE  Goal
  <2>1. CASE LoadEntry(t)
    <3>1. hashMap' = hashMap /\ pc[t] = "load"
      BY <2>1 DEF LoadEntry, cacheVars
    <3>2. pc'[t] = "account" => old'[t] = hashMap[arg[t]] /\ arg'[t] = arg[t]
      BY <2>1 DEF LoadEntry, Finish, Goto
    <3> QED
      BY <1>2, <3>1, <3>2
  <2>2. CASE Account(t)
    <3>1. hashMap' = hashMap /\ pc'[t] = "store" /\ arg' = arg
      BY <2>2 DEF Account, Goto
    <3> QED
      BY <1>2, <3>1
  <2>3. CASE Store(t)
    <3>1. hashMap' = [hashMap EXCEPT ![arg[t]] = fsize[t]] /\ fsize[t] # Absent
          /\ pc'[t] # "account"
      BY <2>3 DEF Store, Finish, Goto, Fits, Absent
    <3>2. \A h \in Hashes : hashMap'[h] = Absent => h # arg[t] /\ hashMap[h] = Absent
      BY <1>2, <3>1
    <3> QED
      BY <1>2, <3>1, <3>2
  <2> QED
    BY <1>2, <2>1, <2>2, <2>3 DEF LoadInCache
<1>3. ASSUME NEW c \in Clients, ClientMove(c) PROVE Goal
  <2>1. CASE LoadInCache(c)
    <3>1. arg[c] \in Hashes
      BY <2>1 DEF LoadInCache, LoadEntry, Account, Store
    <3> QED
      BY <1>2, <1>3, <2>1, <3>1, OthersStay
  <2>2. CASE ~LoadInCache(c)
    <3>1. hashMap' = hashMap /\ pc[c] \notin {"account", "store"}
          /\ pc'[c] \notin {"account", "store"}
      BY <1>3, <2>2 DEF ClientMove, Miss, QueryQueue, StatFile, InsertRequest, cacheVars,
         Goto, Finish
    <3> QED
      BY <1>3, <3>1, OthersStay
  <2> QED
    BY <2>1, <2>2
<1>4. ASSUME NEW h \in Hashes, TaskStep(h) PROVE Goal
  <2>1. CASE LoadInCache(h)
    BY <1>2, <1>4, <2>1, OthersStay
  <2>2. CASE ~LoadInCache(h)
    <3>1. hashMap' = hashMap /\ pc[h] \notin {"account", "store"}
          /\ pc'[h] \notin {"account", "store"}
      BY <1>4, <2>2 DEF TaskStep, Lock, Fetch, Transfer, Measure, FailTask, cacheVars,
         Goto, Finish
    <3> QED
      BY <1>4, <3>1, OthersStay
  <2> QED
    BY <2>1, <2>2
<1>5. ASSUME NEW h \in Hashes, FileDispatch(h) PROVE Goal
  <2>1. hashMap' = hashMap /\ arg' = arg /\ old' = old
        /\ (pc' = pc \/ (pc[h] = "none" /\ pc' = [pc EXCEPT ![h] = "start"])
                     \/ (pc[h] = "start" /\ pc' = [pc EXCEPT ![h] = "start"]))
    BY <1>5 DEF FileDispatch, Locked, Goto, cacheVars
  <2> QED
    BY <2>1
<1>6. ASSUME NEW h \in Hashes, Remove(h) PROVE Goal
  BY <1>1, <1>6 DEF Remove, cacheVars
<1> QED
  <2> HIDE DEF Goal
  <2>1. Goal
    BY LoadsMove, <1>1, <1>3, <1>4, <1>5, <1>6
  <2> QED
    BY <2>1 DEF Goal

(* What is drawn is not less than the goal.  While nothing is drawn yet,   *)
(* the size is not less than the goal, and what may be added to it does    *)
(* not make it wrap around.                                                *)
GoalInReach ==
    goal <= AllBytes =>
        /\ strategy \in {"plan", "all"} =>
            /\ size >= goal
            /\ size + BytesOf(MayAddAll)
                 <= LowWater + goal + AllBytes * Cardinality(Threads)
        /\ strategy \in {"divide", "pick"} => need >= goal
        /\ strategy = "evict" => done + Picked >= goal

(* A load that is accounted for before anything is drawn.                  *)
LEMMA AccountKeepsReach ==
    ASSUME TypeInv, Fits, WholeLoads, WholeFinds, NEW t \in Threads, Account(t),
           arg[t] \in Hashes, goal <= AllBytes, BytesOf(MayAddAll') <= BytesOf(MayAddAll),
           arg[t] \in MayAddAll[t] \ MayAddAll'[t] =>
             BytesOf(MayAddAll') + SliceSize[arg[t]] <= BytesOf(MayAddAll),
           BytesOf(MayAddAll) \in Nat, BytesOf(MayAddAll') \in Nat,
           size + BytesOf(MayAddAll) <= LowWater + goal + AllBytes * Cardinality(Threads)
    PROVE  /\ size' >= size
           /\ size' + BytesOf(MayAddAll')
                <= LowWater + goal + AllBytes * Cardinality(Threads)
<1> DEFINE x == SliceSize[arg[t]]
           m == BytesOf(MayAddAll)
           n == BytesOf(MayAddAll')
           c == AllBytes * Cardinality(Threads)
<1>1. fsize[t] = x /\ old[t] \in {0, x}
  BY DEF Account, WholeLoads, WholeFinds, Loading, Absent
<1>2. size' = (size - old[t] + fsize[t]) % Word
  BY DEF Account
<1>3. x \in Nat /\ x <= AllBytes /\ c \in Nat /\ AllBytes \in Nat
      /\ LowWater + c + 3 * AllBytes < Word
  BY Room
<1>4. size \in 0..Word-1 /\ goal \in Nat /\ LowWater \in Nat /\ Word \in Nat \ {0}
  BY Wraps, SizesAssumption DEF TypeInv, TypeOK, Size
<1>5. CASE old[t] = x
  <2>1. size - x + x = size
    BY <1>3, <1>4
  <2>2. size' = size
    BY <1>1, <1>2, <1>4, <1>5, <2>1, WordOfSmall
  <2> QED
    BY <1>3, <1>4, <2>2
<1>6. CASE old[t] = 0
  <2>1. arg[t] \in MayAddAll[t] \ MayAddAll'[t]
    BY <1>6 DEF MayAddAll, MayAdd, Account, Goto, Absent, TypeInv, TypeOK
  <2>2. n + x <= m
    BY <2>1
  <2> HIDE DEF x, m, n, c
  <2> DEFINE s == size + x
  <2>3. s \in 0..Word-1
    BY <1>3, <1>4 DEF m, c
  <2>4. size - 0 + x = s
    BY <1>3, <1>4
  <2>5. size' = s
    <3>1. s % Word = s
      <4> HIDE DEF s
      <4> QED BY <1>4, <2>3, WordOfSmall
    <3> QED
      BY <1>1, <1>2, <1>6, <2>4, <3>1
  <2> QED
    BY <1>3, <1>4, <2>2, <2>5 DEF m, n, c
<1> QED
  BY <1>1, <1>5, <1>6

LEMMA GoalStaysInReach ==
    ASSUME TypeInv, Fits, WholeLoads, WholeFinds, GoalInReach, [Next]_vars
    PROVE  GoalInReach'
<1> SUFFICES ASSUME goal' <= AllBytes
             PROVE  /\ strategy' \in {"plan", "all"} =>
                        /\ size' >= goal'
                        /\ size' + BytesOf(MayAddAll')
                             <= LowWater + goal' + AllBytes * Cardinality(Threads)
                    /\ strategy' \in {"divide", "pick"} => need' >= goal'
                    /\ strategy' = "evict" => done' + Picked' >= goal'
  BY DEF GoalInReach, BytesOf, AllBytes
<1>1. /\ goal \in Nat /\ size \in 0..Word-1 /\ Word \in Nat \ {0} /\ LowWater \in 0..Word-1
      /\ need \in Nat /\ done \in Nat
  BY Wraps, SizesAssumption DEF TypeInv, TypeOK, Size
<1>2. /\ BytesOf(MayAddAll) \in 0..(AllBytes * Cardinality(Threads))
      /\ BytesOf(MayAddAll') \in 0..(AllBytes * Cardinality(Threads))
      /\ MayAddAll \in [Threads -> SUBSET Hashes] /\ MayAddAll' \in [Threads -> SUBSET Hashes]
  <2>1. MayAddAll \in [Threads -> SUBSET Hashes] /\ MayAddAll' \in [Threads -> SUBSET Hashes]
    BY DEF MayAddAll
  <2>2. \A m \in [Threads -> SUBSET Hashes] :
          BytesOf(m) \in 0..(AllBytes * Cardinality(Threads))
    BY BytesOfTable
  <2> QED
    BY <2>1, <2>2
<1>3. /\ AllBytes \in Nat /\ AllBytes * Cardinality(Threads) \in Nat
      /\ LowWater + AllBytes * Cardinality(Threads) + 3 * AllBytes < Word
  BY Room
<1>4. CASE Tick
  <2>1. goal' = (size - LowWater) % Word /\ size' = size /\ strategy' = "plan"
    BY <1>4 DEF Tick, cacheVars
  <2>2. size = LowWater + goal'
    <3>1. LowWater + AllBytes < Word
      BY <1>1, <1>3
    <3> QED
      BY <1>1, <1>3, <2>1, <3>1, ExcessOfWord
  <2>3. goal' \in Nat
    BY <1>1, <2>1, Wraps DEF Size
  <2> DEFINE c == AllBytes * Cardinality(Threads)
             n == BytesOf(MayAddAll')
  <2>4. c \in Nat /\ n \in 0..c
    BY <1>2, <1>3
  <2> HIDE DEF c, n
  <2>5. size' >= goal' /\ size' + n <= LowWater + goal' + c
    BY <1>1, <2>1, <2>2, <2>3, <2>4
  <2> QED
    BY <2>1, <2>5 DEF c, n
<1>5. CASE Plan
  <2>1. goal' = goal /\ size' = size /\ MayAddAll' = MayAddAll /\ strategy = "plan"
    BY <1>5 DEF Plan, cacheVars, threadVars, MayAddAll, MayAdd
  <2>2. (3 * goal) % Word = 3 * goal
    <3> DEFINE g == 3 * goal
    <3>1. g \in 0..Word-1
      BY <1>1, <1>3, <2>1
    <3>2. g % Word = g
      <4> HIDE DEF g
      <4> QED BY <1>1, <3>1, WordOfSmall
    <3> QED
      BY <3>2
  <2>3. strategy' = "all" \/ (strategy' = "divide" /\ need' = 3 * goal)
    BY <1>5, <2>2 DEF Plan
  <2> QED
    BY <1>1, <2>1, <2>3 DEF GoalInReach
<1>6. CASE PlanAll
  BY <1>6 DEF PlanAll, GoalInReach
<1>7. CASE Divide
  BY <1>7 DEF Divide, Die, GoalInReach
<1>8. ASSUME NEW h \in Hashes, Pick(h) PROVE GoalInReach'
  <2>1. /\ goal' = goal /\ need' = need /\ strategy = "pick" /\ strategy' = "pick"
    BY <1>8 DEF Pick
  <2> QED
    BY <2>1 DEF GoalInReach
<1>9. CASE PickedEnough
  <2>1. Picked \in Int
    <3>1. picked \in [Hashes -> Int] /\ IsFiniteSet(Hashes)
      BY FiniteAssumption DEF TypeInv, TypeOK, Size
    <3>2. Picked = SumFunctionOnSet(picked, Hashes) /\ \A h \in Hashes : picked[h] \in Int
      BY <3>1 DEF Picked, SumFunction
    <3> QED
      BY <3>1, <3>2, SumInt
  <2>2. /\ goal' = goal /\ done' = done /\ Picked' = Picked /\ Picked >= need
        /\ strategy = "pick" /\ strategy' = "evict"
    BY <1>9 DEF PickedEnough, Picked
  <2> QED
    BY <1>1, <2>1, <2>2 DEF GoalInReach
<1>10. ASSUME NEW h \in Hashes, Evict(h) PROVE GoalInReach'
  <2>1. picked \in [Hashes -> Int] /\ IsFiniteSet(Hashes) /\ picked[h] \in Int /\ 0 \in Int
    BY FiniteAssumption DEF TypeInv, TypeOK, Size
  <2>2. Picked' = Picked - picked[h] + 0 /\ Picked \in Int
    <3>1. picked' = [picked EXCEPT ![h] = 0]
      BY <1>10 DEF Evict, Absent
    <3> QED
      BY <2>1, <3>1, SumExcept DEF Picked
  <2>3. done' = done + picked[h] /\ goal' = goal /\ strategy = "evict" /\ strategy' = "evict"
    BY <1>10 DEF Evict
  <2> QED
    BY <1>1, <2>1, <2>2, <2>3 DEF GoalInReach
<1>11. CASE EndRound
  BY <1>11 DEF EndRound
<1>12. CASE QueueVictim \/ SendVictim \/ UNCHANGED roundVars
  <2>1. UNCHANGED <<strategy, goal, need, done, picked>>
    BY <1>12 DEF QueueVictim, SendVictim, roundVars
  <2>2. Picked' = Picked
    BY <2>1 DEF Picked
  <2>3. CASE strategy \in {"plan", "all"}
    <3>1. ~Divide /\ (\A h \in Hashes : ~Evict(h)) /\ ~Die
      BY <2>1, <2>3 DEF Divide, Evict, Die
    <3>2. \A t \in Threads : MayAddAll'[t] \subseteq MayAddAll[t]
      BY <3>1, MayAddLess DEF MayAddAll
    <3>3. /\ BytesOf(MayAddAll') <= BytesOf(MayAddAll)
          /\ \A t \in Threads : \A h \in MayAddAll[t] \ MayAddAll'[t] :
               BytesOf(MayAddAll') + SliceSize[h] <= BytesOf(MayAddAll)
      <4> DEFINE m == MayAddAll
                 n == MayAddAll'
      <4>1. m \in [Threads -> SUBSET Hashes] /\ n \in [Threads -> SUBSET Hashes]
            /\ \A t \in Threads : n[t] \subseteq m[t]
        BY <1>2, <3>2
      <4> HIDE DEF m, n
      <4>2. /\ BytesOf(n) <= BytesOf(m)
            /\ \A t \in Threads : \A h \in m[t] \ n[t] :
                 BytesOf(n) + SliceSize[h] <= BytesOf(m)
        BY <4>1, BytesOfLess
      <4> QED
        BY <4>2 DEF m, n
    <3>4. BytesOf(MayAddAll) \in Nat /\ BytesOf(MayAddAll') \in Nat
      BY <1>2
    <3>5. /\ size >= goal
          /\ size + BytesOf(MayAddAll) <= LowWater + goal + AllBytes * Cardinality(Threads)
      BY <2>1, <2>3 DEF GoalInReach
    <3>6. ASSUME size' = size
          PROVE  /\ size' >= size
                 /\ size' + BytesOf(MayAddAll')
                      <= LowWater + goal + AllBytes * Cardinality(Threads)
      BY <1>1, <1>3, <3>3, <3>4, <3>5, <3>6
    <3>7. ASSUME NEW t \in Threads, Account(t), arg[t] \in Hashes
          PROVE  /\ size' >= size
                 /\ size' + BytesOf(MayAddAll')
                      <= LowWater + goal + AllBytes * Cardinality(Threads)
      BY <2>1, <3>3, <3>4, <3>5, <3>7, AccountKeepsReach
    <3>8. /\ size' >= size
          /\ size' + BytesOf(MayAddAll')
               <= LowWater + goal + AllBytes * Cardinality(Threads)
      BY SizesMove, <3>1, <3>6, <3>7 DEF cacheVars, Store
    <3>9. size' \in Nat
      BY TableKeepsTypes DEF TypeInv, Size
    <3> QED
      BY <1>1, <2>1, <2>3, <3>5, <3>8, <3>9
  <2>4. CASE strategy \notin {"plan", "all"}
    BY <2>1, <2>2, <2>4 DEF GoalInReach
  <2> QED
    BY <2>3, <2>4
<1>13. GoalInReach' => /\ strategy' \in {"plan", "all"} =>
                        /\ size' >= goal'
                        /\ size' + BytesOf(MayAddAll')
                             <= LowWater + goal' + AllBytes * Cardinality(Threads)
                       /\ strategy' \in {"divide", "pick"} => need' >= goal'
                       /\ strategy' = "evict" => done' + Picked' >= goal'
  BY DEF GoalInReach, BytesOf, AllBytes
<1> QED
  BY RoundMoves, <1>4, <1>5, <1>6, <1>7, <1>8, <1>9, <1>10, <1>11, <1>12, <1>13 DEF StrategyStep

(* A round that was begun on a size that had not wrapped around evicts as  *)
(* much as it set out to, while the storage miners report honestly.        *)
THEOREM RoundReaches == Spec => []RoundReachesGoal
<1> DEFINE Inv == "short" \notin Faults => GoalInReach
<1>1. Init => Inv
  BY DEF Init, GoalInReach
<1>2. TypeInv /\ Fits /\ Honest /\ Inv /\ [Next]_vars => Inv'
  BY GoalStaysInReach DEF Honest
<1>3. TypeInv /\ Fits /\ [Next]_vars => Fits'
  BY StillFits
<1>4. TypeInv /\ Inv => RoundReachesGoal
  <2> SUFFICES ASSUME TypeInv, GoalInReach, RoundOver, goal <= AllBytes
               PROVE  done >= goal
    BY DEF RoundReachesGoal, AllBytes
  <2>1. done + Picked >= goal /\ (done >= goal \/ Picked = 0)
    BY DEF GoalInReach, RoundOver
  <2> QED
    BY <2>1 DEF TypeInv, TypeOK
<1> QED
  BY <1>1, <1>2, <1>3, <1>4, InitTypes, StepTypes, InitFits, InitHonest, StepHonest, PTL DEF Spec
=============================================================================
