----------------------------- MODULE SliceCache -----------------------------
(***************************************************************************)
(* The slice cache of base/cache: the table of cached slices (hashMap) and *)
(* its size, the files on disk, and the goroutines that change them:       *)
(*                                                                         *)
(*   clients    HTTP handlers in HitOrLoad, which may load a file that is  *)
(*              on disk already, or queue the slice for download;          *)
(*   file loop  CacheFileServer, which starts one download task per hash;  *)
(*   strategy   StrategyServer, which evicts slices when the cache is full *)
(*              and queues their files for removal;                        *)
(*   clean loop CleanCacheServer, which starts one removal task per hash.  *)
(*                                                                         *)
(* The two queues between them are instances of HashQueue.  The table is a *)
(* sync.Map, the size has a lock of its own, and no lock covers both, nor  *)
(* the table and the disk: each read or write of one of them is a step.    *)
(***************************************************************************)
EXTENDS Integers, Sequences, FiniteSets, Functions

CONSTANTS
    Hashes,         \* slices, "<file hash>-<slice hash>" in the code
    Clients,        \* HTTP handlers
    Strategy,       \* the strategy goroutine, a sender of delQueue
    NoHash,         \* "no slice"
    SliceSize,      \* per slice, its size on the chain
    Capacity,       \* length of both queues' channels
    Word,           \* sizes are unsigned words: arithmetic is modulo Word
    HighWater,      \* MaxCacheSize * MaxCacheRate: eviction starts
    LowWater,       \* MaxCacheSize * Threshold: eviction stops
    Faults,         \* what may fail: see FaultKinds
    MaxRequests     \* bound on the requests that are not cache hits

FaultKinds ==
    {"chain",       \* GetFileMetaInfo fails
     "mkdir",       \* the directory of a file cannot be created
     "storage",     \* the storage miner refuses, breaks off or times out
     "short",       \* the storage miner reports success on a partial file
     "remove"}      \* os.Remove fails

ASSUME SizesAssumption ==
    /\ Word \in Nat
    /\ SliceSize \in [Hashes -> 1..Word-1]
    /\ HighWater \in 0..Word-1 /\ LowWater \in 0..Word-1
ASSUME FaultsAssumption == Faults \subseteq FaultKinds
ASSUME NamesAssumption ==
    /\ NoHash \notin Hashes
    /\ Clients \cap Hashes = {}
    /\ Strategy \notin Clients \cup Hashes
ASSUME BoundsAssumption == Capacity \in Nat \ {0} /\ MaxRequests \in Nat
ASSUME FiniteAssumption == IsFiniteSet(Hashes) /\ IsFiniteSet(Clients)

NoFile == -1        \* os.Stat finds nothing
Absent == 0         \* not in hashMap; no entry has size 0 (metadata.go:117)

(* A download or removal task is named by its hash, see OneTaskPerHash.    *)
Threads == Clients \cup Hashes

(* Words are wide: a size does not reach the end of a word by counting too *)
(* much, not even if every goroutine counted every slice once more.        *)
ASSUME RoomAssumption ==
    LowWater + (Cardinality(Threads) + 3) * SumFunction(SliceSize) < Word

VARIABLES
    hashMap,        \* per hash, the size in its entry, or Absent
    size,           \* Cache.size
    disk,           \* per hash, the size of its file, or NoFile
    failed,         \* keys of failedMap
    pc, arg,        \* per client or download task: next step, slice it works on
    fsize, old,     \* its file size as read, the entry as LoadInCache read it
    fileHand,       \* hash CacheFileServer received and not handed on yet
    delHand,        \* hash CleanCacheServer received and not handed on yet
    remover,        \* per hash, the step of its removal task
    strategy,       \* the step of the strategy
    goal,           \* RandomLRU's cleanSize
    need,           \* GetRandomList's pickSize
    picked,         \* randList: per hash the size noted when picked, or Absent
    done,           \* bytes this round has evicted
    victim,         \* evicted, its delQueue.Insert still to come
    cqFilter, cqQueue, cqSending, cqTaken,      \* cacheQueue
    dqFilter, dqQueue, dqSending, dqTaken,      \* delQueue
    evicted,        \* history: the slices that were evicted
    requests        \* bound only: requests made that were not hits

CQ == INSTANCE HashQueue WITH
    Senders <- Clients, filter <- cqFilter, queue <- cqQueue,
    sending <- cqSending, taken <- cqTaken
DQ == INSTANCE HashQueue WITH
    Senders <- {Strategy} \cup Hashes, filter <- dqFilter, queue <- dqQueue,
    sending <- dqSending, taken <- dqTaken

cqVars == <<cqFilter, cqQueue, cqSending, cqTaken>>
dqVars == <<dqFilter, dqQueue, dqSending, dqTaken>>
threadVars == <<pc, arg, fsize, old>>
handVars == <<fileHand, delHand, remover>>
roundVars == <<strategy, goal, need, picked, done, victim, evicted>>
cacheVars == <<hashMap, size>>
vars == <<cacheVars, disk, failed, threadVars, handVars, roundVars,
          cqVars, dqVars, requests>>

(* The keys of lockMap: stored and deleted by the task itself.             *)
Locked == {h \in Hashes : pc[h] \notin {"none", "start"}}

Size == 0..Word-1

TypeOK ==
    /\ hashMap \in [Hashes -> Size]
    /\ size \in Size
    /\ disk \in [Hashes -> NoFile..Word-1]
    /\ failed \subseteq Hashes
    /\ pc \in [Threads -> {"idle", "query", "stat", "insert", "none", "start",
                           "fetch", "receive", "measure", "load", "account", "store", "dead"}]
    /\ arg \in [Threads -> Hashes \cup {NoHash}]
    /\ fsize \in [Threads -> Size] /\ old \in [Threads -> Size]
    /\ fileHand \in Hashes \cup {NoHash} /\ delHand \in Hashes \cup {NoHash}
    /\ remover \in [Hashes -> {"none", "remove", "unmark"}]
    /\ strategy \in {"idle", "plan", "all", "divide", "pick", "evict", "panic"}
    /\ goal \in Size /\ need \in Size /\ done \in Nat
    /\ picked \in [Hashes -> Size]
    /\ victim \in Hashes \cup {NoHash} /\ evicted \subseteq Hashes
    /\ requests \in 0..MaxRequests
    /\ CQ!TypeOK /\ DQ!TypeOK

(* What InitCache leaves: Reorganizate removed the files that do not match *)
(* the chain and loaded the others, except those the chain could not be    *)
(* asked about, which stay on disk as they are (strategy.go:122).          *)
Reorganized ==
    \E cached \in SUBSET Hashes : \E whole, partial \in SUBSET (Hashes \ cached) :
        /\ (whole \cup partial # {}) => "chain" \in Faults
        /\ hashMap = [h \in Hashes |-> IF h \in cached THEN SliceSize[h] ELSE Absent]
        /\ disk = [h \in Hashes |-> CASE h \in cached \cup whole -> SliceSize[h]
                                     [] h \in partial \ whole -> SliceSize[h] - 1
                                     [] OTHER -> NoFile]

Init ==
    /\ Reorganized
    /\ size \in Size /\ size = SumFunction(hashMap)
    /\ failed = {}
    /\ pc = [t \in Threads |-> IF t \in Clients THEN "idle" ELSE "none"]
    /\ arg = [t \in Threads |-> IF t \in Clients THEN NoHash ELSE t]
    /\ fsize = [t \in Threads |-> 0] /\ old = [t \in Threads |-> Absent]
    /\ fileHand = NoHash /\ delHand = NoHash
    /\ remover = [h \in Hashes |-> "none"]
    /\ strategy = "idle" /\ goal = 0 /\ need = 0 /\ done = 0
    /\ picked = [h \in Hashes |-> Absent] /\ victim = NoHash /\ evicted = {}
    /\ requests = 0
    /\ CQ!Init /\ DQ!Init

-----------------------------------------------------------------------------
(* HitOrLoad and CheckAndCacheFile.                                        *)

Goto(t, step) == pc' = [pc EXCEPT ![t] = step]

(* A client is done, or a task ends and releases its lock.                 *)
Finish(t) ==
    /\ Goto(t, IF t \in Clients THEN "idle" ELSE "none")
    /\ arg' = [arg EXCEPT ![t] = IF t \in Clients THEN NoHash ELSE @]
    /\ fsize' = [fsize EXCEPT ![t] = 0]
    /\ old' = [old EXCEPT ![t] = Absent]

(* FindHashs answers: a hit ends the call, it changes counters only.       *)
Hit(c, h) ==
    /\ pc[c] = "idle" /\ cqSending[c] = NoHash
    /\ hashMap[h] # Absent
    /\ UNCHANGED vars

Miss(c, h) ==
    /\ pc[c] = "idle" /\ cqSending[c] = NoHash
    /\ hashMap[h] = Absent
    /\ requests < MaxRequests
    /\ requests' = requests + 1
    /\ Goto(c, "query")
    /\ arg' = [arg EXCEPT ![c] = h]
    /\ UNCHANGED <<cacheVars, disk, failed, fsize, old, handVars, roundVars, cqVars, dqVars>>

(* A slice that is marked in cacheQueue counts as being cached.            *)
QueryQueue(c) ==
    /\ pc[c] = "query"
    /\ IF CQ!Query(arg[c])
       THEN Finish(c)
       ELSE Goto(c, "stat") /\ UNCHANGED <<arg, fsize, old>>
    /\ UNCHANGED <<cacheVars, disk, failed, handVars, roundVars, cqVars, dqVars, requests>>

(* The file is looked at once; what was seen is used later.                *)
StatFile(c) ==
    /\ pc[c] = "stat"
    /\ \/ disk[arg[c]] # SliceSize[arg[c]]        \* no file, or not the chain's size
          /\ Goto(c, "insert")
          /\ UNCHANGED <<arg, fsize, old>>
       \/ disk[arg[c]] = SliceSize[arg[c]]
          /\ Goto(c, "load")
          /\ fsize' = [fsize EXCEPT ![c] = disk[arg[c]]]
          /\ UNCHANGED <<arg, old>>
       \/ disk[arg[c]] # NoFile /\ "chain" \in Faults     \* HitOrLoad fails
          /\ Finish(c)
    /\ UNCHANGED <<cacheVars, disk, failed, handVars, roundVars, cqVars, dqVars, requests>>

(* The call ends at once or when its send does.                            *)
InsertRequest(c) ==
    /\ pc[c] = "insert"
    /\ CQ!Insert(c, arg[c])
    /\ Finish(c)
    /\ UNCHANGED <<cacheVars, disk, failed, handVars, roundVars, dqVars, requests>>

SendRequest(c) ==
    /\ CQ!Send(c)
    /\ UNCHANGED <<cacheVars, disk, failed, threadVars, handVars, roundVars, dqVars, requests>>

-----------------------------------------------------------------------------
(* LoadInCache, run by clients and by download tasks.                      *)

LoadEntry(t) ==
    /\ pc[t] = "load"
    /\ IF fsize[t] = 0
       THEN Finish(t)
       ELSE /\ old' = [old EXCEPT ![t] = hashMap[arg[t]]]
            /\ Goto(t, "account")
            /\ UNCHANGED <<arg, fsize>>
    /\ UNCHANGED <<cacheVars, disk, failed, handVars, roundVars, cqVars, dqVars, requests>>

(* Mutant of Account: an entry that was there already is counted again.    *)
MutAccountIgnoresOld(t) ==
    /\ pc[t] = "account"
    /\ size' = (size + fsize[t]) % Word
    /\ Goto(t, "store")
    /\ UNCHANGED <<hashMap, disk, failed, arg, fsize, old, handVars, roundVars,
                   cqVars, dqVars, requests>>

(* With old = Absent, which is 0, this is the branch for a new entry.      *)
Account(t) ==
    /\ pc[t] = "account"
    /\ size' = (size - old[t] + fsize[t]) % Word
    /\ Goto(t, "store")
    /\ UNCHANGED <<hashMap, disk, failed, arg, fsize, old, handVars, roundVars,
                   cqVars, dqVars, requests>>

Store(t) ==
    /\ pc[t] = "store"
    /\ hashMap' = [hashMap EXCEPT ![arg[t]] = fsize[t]]
    /\ Finish(t)
    /\ UNCHANGED <<size, disk, failed, handVars, roundVars, cqVars, dqVars, requests>>

LoadInCache(t) == LoadEntry(t) \/ Account(t) \/ Store(t)

-----------------------------------------------------------------------------
(* CacheFileServer and its download tasks.                                 *)

(* Mutant of FileReceive: waits for a batch.                               *)
MutFileReceiveBatch(h) ==
    /\ fileHand = NoHash
    /\ Len(cqQueue) > 1
    /\ CQ!Receive(h)
    /\ fileHand' = h
    /\ UNCHANGED <<cacheVars, disk, failed, threadVars, delHand, remover, roundVars,
                   dqVars, requests>>

FileReceive(h) ==
    /\ fileHand = NoHash
    /\ CQ!Receive(h)
    /\ fileHand' = h
    /\ UNCHANGED <<cacheVars, disk, failed, threadVars, delHand, remover, roundVars,
                   dqVars, requests>>

(* A hash whose directory cannot be made, whose lock is held or whose file *)
(* is there is dropped, and stays marked in cacheQueue as all others do.   *)
FileDispatch(h) ==
    /\ fileHand = h
    /\ fileHand' = NoHash
    /\ \/ (h \in Locked \/ disk[h] # NoFile \/ "mkdir" \in Faults) /\ UNCHANGED pc
       \/ h \notin Locked /\ disk[h] = NoFile
          /\ Goto(h, "start")
    /\ UNCHANGED <<cacheVars, disk, failed, arg, fsize, old, delHand, remover, roundVars,
                   cqVars, dqVars, requests>>

(* The task's first step, lockMap.Store.                                   *)
Lock(h) ==
    /\ pc[h] = "start"
    /\ Goto(h, "fetch")
    /\ UNCHANGED <<cacheVars, disk, failed, arg, fsize, old, handVars, roundVars,
                   cqVars, dqVars, requests>>

(* AddFailedFile, then the task ends.                                      *)
FailTask(h) == failed' = failed \cup {h} /\ Finish(h)

(* DownloadFile up to the created file.  Its case for a file that is there *)
(* already (service.go:51) does not arise: see FreshTarget.                *)
Fetch(h) ==
    /\ pc[h] = "fetch"
    /\ \/ /\ disk' = [disk EXCEPT ![h] = 0]            \* os.Create
          /\ Goto(h, "receive")
          /\ UNCHANGED <<failed, arg, fsize, old>>
       \/ /\ Faults \cap {"chain", "storage"} # {}
          /\ FailTask(h)
          /\ UNCHANGED disk
    /\ UNCHANGED <<cacheVars, handVars, roundVars, cqVars, dqVars, requests>>

(* What the miner sent is in the file, unless the file was removed.        *)
Written(h, n) == disk' = [disk EXCEPT ![h] = IF @ = NoFile THEN NoFile ELSE n]

(* Mutant of Transfer: the error of a transfer that broke off is lost.     *)
MutTransferIgnoresError(h) ==
    /\ pc[h] = "receive"
    /\ \E n \in 0..SliceSize[h] : Written(h, n)
    /\ Goto(h, "measure")
    /\ UNCHANGED <<failed, arg, fsize, old, cacheVars, handVars, roundVars,
                   cqVars, dqVars, requests>>

(* Mutant of Transfer: a transfer that broke off is tried again at once.   *)
MutTransferRetries(h) ==
    /\ pc[h] = "receive"
    /\ \E n \in 0..SliceSize[h] :
        /\ Written(h, n)
        /\ Goto(h, IF n = SliceSize[h] THEN "measure" ELSE "fetch")
    /\ UNCHANGED <<failed, arg, fsize, old, cacheVars, handVars, roundVars,
                   cqVars, dqVars, requests>>

(* The transfer succeeds with all the bytes, or with fewer; or it fails,   *)
(* with however many.  When the connection breaks, the task may also run   *)
(* into its closed channel and panic: the pool recovers, and nothing is    *)
(* noted of the failure.                                                   *)
Transfer(h) ==
    /\ pc[h] = "receive"
    /\ \E n \in 0..SliceSize[h] :
        /\ Written(h, n)
        /\ \/ /\ n = SliceSize[h] \/ "short" \in Faults
              /\ Goto(h, "measure")
              /\ UNCHANGED <<failed, arg, fsize, old>>
           \/ /\ "storage" \in Faults
              /\ FailTask(h) \/ (Finish(h) /\ UNCHANGED failed)
    /\ UNCHANGED <<cacheVars, handVars, roundVars, cqVars, dqVars, requests>>

(* Mutant of Measure: the size that is loaded is the chain's.              *)
MutMeasureChainSize(h) ==
    /\ pc[h] = "measure"
    /\ IF disk[h] = NoFile
       THEN FailTask(h)
       ELSE /\ fsize' = [fsize EXCEPT ![h] = SliceSize[h]]
            /\ Goto(h, "load")
            /\ UNCHANGED <<failed, arg, old>>
    /\ UNCHANGED <<cacheVars, disk, handVars, roundVars, cqVars, dqVars, requests>>

(* The size that is loaded is the file's, not the chain's.                 *)
Measure(h) ==
    /\ pc[h] = "measure"
    /\ IF disk[h] = NoFile
       THEN FailTask(h)
       ELSE /\ fsize' = [fsize EXCEPT ![h] = disk[h]]
            /\ Goto(h, "load")
            /\ UNCHANGED <<failed, arg, old>>
    /\ UNCHANGED <<cacheVars, disk, handVars, roundVars, cqVars, dqVars, requests>>

(* ClearFailedMap forgets the failures, one by one, every six hours.       *)
ClearFailed(h) ==
    /\ h \in failed
    /\ failed' = failed \ {h}
    /\ UNCHANGED <<cacheVars, disk, threadVars, handVars, roundVars, cqVars, dqVars, requests>>

-----------------------------------------------------------------------------
(* StrategyServer and RandomLRU.                                           *)

Picked == SumFunction(picked)

(* Mutant of Tick: each tick begins a round.                               *)
MutTickAlways ==
    /\ strategy = "idle"
    /\ goal' = (size - LowWater) % Word
    /\ strategy' = "plan"
    /\ UNCHANGED <<cacheVars, disk, failed, threadVars, handVars, need, picked, done,
                   victim, evicted, cqVars, dqVars, requests>>

(* The size is read, then read again and again in GetRandomList.           *)
Tick ==
    /\ strategy = "idle"
    /\ size >= HighWater
    /\ goal' = (size - LowWater) % Word
    /\ strategy' = "plan"
    /\ UNCHANGED <<cacheVars, disk, failed, threadVars, handVars, need, picked, done,
                   victim, evicted, cqVars, dqVars, requests>>

(* A panic ends the process: what it had in memory is gone, and no step is *)
(* enabled; the disk stays.                                                *)
Die ==
    /\ strategy' = "panic" /\ goal' = 0 /\ need' = need
    /\ pc' = [t \in Threads |-> "dead"]
    /\ hashMap' = [h \in Hashes |-> Absent] /\ failed' = {}
    /\ fileHand' = NoHash /\ delHand' = NoHash
    /\ remover' = [h \in Hashes |-> "none"]
    /\ cqFilter' = {} /\ cqQueue' = <<>> /\ cqTaken' = {}
    /\ cqSending' = [c \in Clients |-> NoHash]
    /\ dqFilter' = {} /\ dqQueue' = <<>> /\ dqTaken' = {}
    /\ dqSending' = [p \in {Strategy} \cup Hashes |-> NoHash]
    /\ UNCHANGED <<size, disk, arg, fsize, old, picked, done, victim, evicted, requests>>

(* Mutant of Plan: draws what is to be kept.                               *)
MutPlanKept ==
    /\ strategy = "plan"
    /\ strategy' = "divide" /\ need' = (size - goal) % Word
    /\ UNCHANGED <<cacheVars, disk, failed, threadVars, handVars, goal, picked, done,
                   victim, evicted, cqVars, dqVars, requests>>

(* Three times the goal is drawn, or everything.                           *)
Plan ==
    /\ strategy = "plan"
    /\ LET want == (3 * goal) % Word
       IN  IF want = 0 \/ want >= size
           THEN strategy' = "all" /\ UNCHANGED need
           ELSE strategy' = "divide" /\ need' = want
    /\ UNCHANGED <<cacheVars, disk, failed, threadVars, handVars, goal, picked, done,
                   victim, evicted, cqVars, dqVars, requests>>

PlanAll ==
    /\ strategy = "all"
    /\ strategy' = "divide" /\ need' = size
    /\ UNCHANGED <<cacheVars, disk, failed, threadVars, handVars, goal, picked, done,
                   victim, evicted, cqVars, dqVars, requests>>

(* The share of the total this makes is computed with a division by the    *)
(* total, which is read anew.                                              *)
Divide ==
    /\ strategy = "divide"
    /\ \/ size = 0 /\ Die
       \/ /\ size # 0
          /\ strategy' = "pick"
          /\ UNCHANGED <<cacheVars, disk, failed, threadVars, handVars, goal, need, picked,
                         done, victim, evicted, cqVars, dqVars, requests>>

(* GetRandomList: it goes round hashMap until it has drawn enough bytes,   *)
(* for ever if there are not that many.                                    *)
Pick(h) ==
    /\ strategy = "pick" /\ Picked < need
    /\ hashMap[h] # Absent /\ picked[h] = Absent
    /\ picked' = [picked EXCEPT ![h] = hashMap[h]]
    /\ UNCHANGED <<cacheVars, disk, failed, threadVars, handVars, strategy, goal, need,
                   done, victim, evicted, cqVars, dqVars, requests>>

(* Mutant of PickedEnough: it draws until it has more than it asked for.   *)
MutPickedEnoughMore ==
    /\ strategy = "pick" /\ Picked > need
    /\ strategy' = "evict"
    /\ UNCHANGED <<cacheVars, disk, failed, threadVars, handVars, goal, need, picked, done,
                   victim, evicted, cqVars, dqVars, requests>>

PickedEnough ==
    /\ strategy = "pick" /\ Picked >= need
    /\ strategy' = "evict"
    /\ UNCHANGED <<cacheVars, disk, failed, threadVars, handVars, goal, need, picked, done,
                   victim, evicted, cqVars, dqVars, requests>>

(* The next picked slice, in any order: Delete takes its entry and its     *)
(* size in one step.  An Absent entry takes nothing, being 0.              *)
Evict(h) ==
    /\ strategy = "evict" /\ victim = NoHash /\ dqSending[Strategy] = NoHash
    /\ done < goal /\ picked[h] # Absent
    /\ done' = done + picked[h]
    /\ picked' = [picked EXCEPT ![h] = Absent]
    /\ size' = (size - hashMap[h]) % Word
    /\ hashMap' = [hashMap EXCEPT ![h] = Absent]
    /\ victim' = h /\ evicted' = evicted \cup {h}
    /\ UNCHANGED <<disk, failed, threadVars, handVars, strategy, goal, need,
                   cqVars, dqVars, requests>>

QueueVictim ==
    /\ victim # NoHash
    /\ DQ!Insert(Strategy, victim)
    /\ victim' = NoHash
    /\ UNCHANGED <<cacheVars, disk, failed, threadVars, handVars, strategy, goal, need,
                   picked, done, evicted, cqVars, requests>>

SendVictim ==
    /\ DQ!Send(Strategy)
    /\ UNCHANGED <<cacheVars, disk, failed, threadVars, handVars, roundVars, cqVars, requests>>

RoundOver ==
    /\ strategy = "evict" /\ victim = NoHash /\ dqSending[Strategy] = NoHash
    /\ done >= goal \/ Picked = 0

EndRound ==
    /\ RoundOver
    /\ strategy' = "idle" /\ goal' = 0 /\ need' = 0 /\ done' = 0
    /\ picked' = [h \in Hashes |-> Absent]
    /\ UNCHANGED <<cacheVars, disk, failed, threadVars, handVars, victim, evicted,
                   cqVars, dqVars, requests>>

-----------------------------------------------------------------------------
(* CleanCacheServer and its removal tasks.                                 *)

(* Mutant of DelReceive: takes a slice only while it is not in the table,  *)
(* and leaves it at the head of the channel otherwise.                     *)
MutDelReceiveAbsent(h) ==
    /\ delHand = NoHash
    /\ hashMap[h] = Absent
    /\ DQ!Receive(h)
    /\ delHand' = h
    /\ UNCHANGED <<cacheVars, disk, failed, threadVars, fileHand, remover, roundVars,
                   cqVars, requests>>

DelReceive(h) ==
    /\ delHand = NoHash
    /\ DQ!Receive(h)
    /\ delHand' = h
    /\ UNCHANGED <<cacheVars, disk, failed, threadVars, fileHand, remover, roundVars,
                   cqVars, requests>>

(* A slice that was loaded again is dropped, and stays marked in delQueue. *)
DelDispatch(h) ==
    /\ delHand = h
    /\ delHand' = NoHash
    /\ remover' = IF hashMap[h] # Absent THEN remover ELSE [remover EXCEPT ![h] = "remove"]
    /\ UNCHANGED <<cacheVars, disk, failed, threadVars, fileHand, roundVars, cqVars,
                   dqVars, requests>>

Remove(h) ==
    /\ remover[h] = "remove"
    /\ disk[h] # NoFile
    /\ disk' = [disk EXCEPT ![h] = NoFile]
    /\ remover' = [remover EXCEPT ![h] = "unmark"]
    /\ UNCHANGED <<cacheVars, failed, threadVars, fileHand, delHand, roundVars, cqVars,
                   dqVars, requests>>

(* The file could not be removed: the hash is inserted again.              *)
RemoveFails(h) ==
    /\ remover[h] = "remove"
    /\ disk[h] = NoFile \/ "remove" \in Faults
    /\ DQ!Insert(h, h)
    /\ remover' = [remover EXCEPT ![h] = "none"]
    /\ UNCHANGED <<cacheVars, disk, failed, threadVars, fileHand, delHand, roundVars, cqVars,
                   requests>>

Unmark(h) ==
    /\ remover[h] = "unmark"
    /\ DQ!Delete(h)
    /\ remover' = [remover EXCEPT ![h] = "none"]
    /\ UNCHANGED <<cacheVars, disk, failed, threadVars, fileHand, delHand, roundVars, cqVars,
                   requests>>

-----------------------------------------------------------------------------
ClientStep(c) ==
    QueryQueue(c) \/ StatFile(c) \/ InsertRequest(c) \/ SendRequest(c) \/ LoadInCache(c)
FileLoop == \E h \in Hashes : FileReceive(h) \/ FileDispatch(h)
TaskStep(h) == Lock(h) \/ Fetch(h) \/ Transfer(h) \/ Measure(h) \/ LoadInCache(h)
StrategyStep ==
    \/ Tick \/ Plan \/ PlanAll \/ Divide \/ PickedEnough
    \/ QueueVictim \/ SendVictim \/ EndRound
    \/ \E h \in Hashes : Pick(h) \/ Evict(h)
CleanLoop == \E h \in Hashes : DelReceive(h) \/ DelDispatch(h)
RemoverStep(h) == Remove(h) \/ RemoveFails(h) \/ Unmark(h)

Next ==
    \/ \E c \in Clients, h \in Hashes : Hit(c, h) \/ Miss(c, h)
    \/ \E c \in Clients : ClientStep(c)
    \/ FileLoop
    \/ \E h \in Hashes : TaskStep(h) \/ RemoverStep(h) \/ ClearFailed(h)
    \/ StrategyStep
    \/ CleanLoop

(* Every goroutine that can take a step takes one in the end; a client     *)
(* need not make a request, and the clearing of failures, every six hours, *)
(* is not relied on.                                                       *)
Fairness ==
    /\ \A c \in Clients : WF_vars(ClientStep(c))
    /\ \A h \in Hashes : WF_vars(TaskStep(h)) /\ WF_vars(RemoverStep(h))
    /\ WF_vars(FileLoop) /\ WF_vars(StrategyStep) /\ WF_vars(CleanLoop)

Spec == Init /\ [][Next]_vars
FairSpec == Spec /\ Fairness

-----------------------------------------------------------------------------
(* The file loop never holds a hash whose download still runs, nor the     *)
(* clean loop one whose removal does.  Without it two tasks would write,   *)
(* or remove, one file; lockMap does not help, for the task only enters    *)
(* itself after it was started (metadata.go:249-254).                      *)
OneTaskPerHash ==
    /\ fileHand # NoHash => pc[fileHand] = "none"
    /\ delHand # NoHash => remover[delHand] = "none"

(* From its start to the creation of its file, a download task finds no    *)
(* file: it never truncates one that a client is looking at or the table   *)
(* already vouches for.                                                    *)
FreshTarget == \A h \in Hashes : pc[h] \in {"start", "fetch"} => disk[h] = NoFile

(* As long as the storage miners report honestly, the table only ever      *)
(* vouches for whole slices, whatever breaks off, is retried, removed or   *)
(* looked at half-written.                                                 *)
OnlyWholeSlices ==
    "short" \notin Faults => \A h \in Hashes : hashMap[h] \in {Absent, SliceSize[h]}

(* What the table vouches for is on disk as it says, so that a hit can be  *)
(* served, whatever is requested, downloaded or looked at meanwhile; until *)
(* the slice is evicted: after that its removal, decided while it was out  *)
(* of the table (strategy.go:138), may take the file of a slice that is in *)
(* it again, which is a hit that cannot be served until the next eviction. *)
VouchedFileIsThere ==
    \A h \in Hashes \ evicted : hashMap[h] \in {Absent, disk[h]}

(* What size says beyond the entries, and the loads that were accounted    *)
(* for but are not stored yet.                                             *)
Drift ==
    (size - SumFunction(hashMap)
          - SumFunction([t \in Threads |-> IF pc[t] = "store" THEN fsize[t] - old[t] ELSE 0]))
        % Word

(* size is the sum of the entries in every interleaving but one: a         *)
(* LoadInCache that stores over an entry another goroutine changed since   *)
(* it looked (metadata.go:126 and 137).                                    *)
DriftOnlyFromStaleStore ==
    [][Drift' # Drift /\ strategy' # "panic" =>
        \E t \in Threads : pc[t] = "store" /\ pc'[t] # "store" /\ hashMap[arg[t]] # old[t]]_vars

(* A round that ends has evicted as much as it set out to: the slices that *)
(* were drawn never run out before the goal is reached, though the cache   *)
(* changes while they are drawn (strategy.go:72-90).  Excepted are rounds  *)
(* begun on a size that wrapped around, with a goal above all the slices,  *)
(* and storage miners that cut a slice short which is in the table.        *)
RoundReachesGoal ==
    "short" \notin Faults /\ RoundOver /\ goal <= SumFunction(SliceSize) => done >= goal

(* A division by an empty cache's size ends the process only when the size *)
(* was wrong, or the cache is not to hold anything, or a load that was     *)
(* accounted for is about to make its entry smaller, of a slice that a     *)
(* storage miner cut short: else a round that began on a full cache finds  *)
(* bytes in it at each of the three times GetRandomList reads the total    *)
(* (strategy.go:41-44).                                                    *)
DiesOnlyFromDrift ==
    [][strategy' = "panic" /\ strategy # "panic" =>
        \/ HighWater = 0 \/ Drift # 0
        \/ /\ "short" \in Faults
           /\ \E t \in Threads : pc[t] = "store" /\ fsize[t] < old[t]]_vars

(* The drawing of a round ends, and the round goes on to evict, whatever is*)
(* loaded between the reads of the size and the visits to the table, as    *)
(* long as the size is the table's and no slice in it, now or when it was  *)
(* drawn, is one a miner has cut short: else there may be less to draw     *)
(* than the loop of GetRandomList asks for (strategy.go:50), which then    *)
(* spins, and the cache is not cleaned any more.                           *)
DrawEnds ==
    strategy \in {"plan", "all", "divide", "pick"} ~>
        \/ strategy \in {"evict", "panic"}
        \/ Drift # 0
        \/ \E h \in Hashes : {hashMap[h], picked[h]} \ {Absent, SliceSize[h]} # {}

(* Every call of HitOrLoad returns: a request never stays blocked in the   *)
(* full channel, whatever the downloads do.                                *)
RequestReturns ==
    \A c \in Clients :
        (pc[c] # "idle" \/ cqSending[c] # NoHash) ~>
            (strategy = "panic" \/ (pc[c] = "idle" /\ cqSending[c] = NoHash))

(* A slice that was marked for download gets a verdict: the file loop      *)
(* drops it, or its task ends.  In particular no task keeps its lock.      *)
DownloadSettles ==
    \A h \in Hashes :
        h \in cqFilter ~> (strategy = "panic" \/
            (h \in cqTaken /\ fileHand # h /\ pc[h] = "none"))

(* An evicted slice gets one too, and so the strategy is never blocked for *)
(* ever in the full channel of delQueue.                                   *)
RemovalSettles ==
    \A h \in Hashes :
        h \in dqFilter ~> (strategy = "panic" \/ h \notin dqFilter \/
            (h \in dqTaken /\ delHand # h /\ remover[h] = "none"))

(* "data preheating: prepare the files not downloaded" (auth.go:53): when  *)
(* nothing fails, a slice that a client asks for gets into the table.      *)
Preheated ==
    \A c \in Clients, h \in Hashes :
        (pc[c] = "query" /\ arg[c] = h) ~> (hashMap[h] # Absent)

(* "If this threshold is exceeded, files will be cleaned up according to   *)
(* the cache obsolescence policy" (README.md:17): when nothing fails, the  *)
(* file of an evicted slice is removed, or the slice is in the table again.*)
EvictedIsRemoved ==
    \A h \in Hashes : victim = h ~> (disk[h] = NoFile \/ hashMap[h] # Absent)
=============================================================================
