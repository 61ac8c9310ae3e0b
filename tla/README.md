# A verification of cess-cacher

The cacher is a server of a content delivery network: users buy the download of a
slice of a file with a bill on the chain, and the cacher serves the slice from its
disk, after it has fetched it from a storage miner. This directory holds TLA+
modules translated from the Go source, the configurations TLC checks them with, and
theorems TLAPS proves about them. `PROJECT.json` lists the runs, the source lines
behind every definition (`map`), the hazards, the findings and the theorems.

Parse, check or prove with

    tlasany SliceCache.tla
    tlc -workers 2 -config MCSliceCache.cfg MCSliceCache
    tlapm TicketsProofs.tla

## 1. The system

### Components

| Component | Source | State | Operations | Modules |
|---|---|---|---|---|
| Hash queues | `base/cache/metadata.go` | `filter` (marks), channel `queue` | `Insert`, `GetQueue`, `Delete`, `Query` | HashQueue |
| Slice cache | `base/cache/{metadata,strategy,cache}.go` | `hashMap`, `size`, `failedMap`, `lockMap`, the files | `HitOrLoad`, `LoadInCache`, `Delete`, `CacheFileServer`, `StrategyServer`, `CleanCacheServer` | SliceCache |
| Start-up and metadata | `base/cache/{cache,metadata,strategy}.go` | `metadata.json`, the files | `InitCache`, `LoadMetadata`, `Reorganizate`, `FlashMetadataFile` | Recovery |
| Bills, tokens, tickets | `server/service/{auth,download}.go`, `server/middleware` | `tickets`, `aesHandle` | `GenerateToken`, `Auth`, `DownloadService`, `OrdersCleanServer` | Tickets, BillLedger |
| Transfer from miners | `base/trans` | `recv`, `send`, `waitNotify`, the connection, the file | `recvFile`, `handler`, `readMsg`, `sendMsg` | Transfer, Download |
| Chain client | `base/chain` | `api`, the account's nonce | `IsChainClientOk`, `GetStorageFromChain`, `GetBill`, `SubmitExtrinsic` | ChainClient |
| Sizing and eviction order | `base/cache/{cache,strategy,info}.go` | `MaxCacheSize`, the two rates, `LruQueue` | `InitCache`, `initStrategy`, `StrategyServer`, `RandomLRU`, `GetRandomList`, `GetCacheDiskStats` | Eviction |
| Statistics | `base/cache/info.go` | `netInfo` and its lock | `UpdateNetStats`, `GetNetInfo` | the lock, in Tickets; the disk, in Eviction |
| Query service | `server/service/query.go` | none | reads the above | none |
| Server, routes, responses | `server` | none | wiring | the order of calls, in Tickets |
| Commands, configuration, logs, utilities, tests | `cmd`, `config`, `logger`, `utils`, `test` | none | glue | none |

### How they interact

A user sends a bill to `GenerateToken`. It asks the **chain client** for the bill,
marks it in `tickets`, asks the **cache** for the slice (`HitOrLoad`, which starts the
download), and returns a token encrypted with the process's key. With the token the
user calls the download route: `Auth` decrypts it and asks the chain again,
`DownloadService` marks the bill and asks the cache, and the file is sent.

`HitOrLoad` finds the slice in the table, or on disk, or queues it in `cacheQueue`.
`CacheFileServer` takes it from there and starts a task, which runs a **transfer** and
loads the result into the table. `StrategyServer` evicts slices from the table when
the cache is full and queues them in `delQueue`, from which `CleanCacheServer` removes
their files. `FlashMetadataFile` writes the table to disk from time to time, and
the next **start** reads it. Everything is shared memory between goroutines: two
channels, a few `sync.Map`s and mutexes, each of which covers one variable and none two.

### What is hard, and what must hold

* **Hash queues.** `Insert` marks under a lock and sends after it, and blocks on a full
  channel. A mark must stand for exactly one piece of work, and senders must come back.
* **Slice cache.** Table, size and disk change in separate steps of many goroutines.
  The table must vouch only for whole slices, no two tasks may write one file, the size
  must be the sum of the entries, eviction must reach its goal, and no request, download
  or removal may hang.
* **Sizing and eviction.** The limit comes from a difference of words at every start, the
  goal of a round from another, and the round works on a sorted copy of a table that changes.
  A full cache must be cleaned, not beyond its target, and the cacher must not offer space
  the disk does not have.
* **Start-up.** The process ends between any two steps. A start must not take a cut-off
  file for a slice, must not forget a file, and must be possible.
* **Bills.** Concurrent requests on one bill, expiry, cleaning and failures on nine
  return paths. A valid bill is served once, and should be given back when it is not; three
  of the paths forget that.
* **Transfers.** Four goroutines, three channels, timers and a peer that breaks off
  anywhere. Success must mean a whole file, and nothing may stay behind blocked.
* **Chain client.** Goroutines renew one connection without a lock, panics are
  recovered without an error, extrinsics are sent again after lost answers. The
  connection must not get lost, and a command's success must be real and happen once.

Every such hazard is in `PROJECT.json` at its line, with the properties that cover it.

## 2. The modules

Each action is one atomic step of the code: an access to a `sync.Map`, a channel, a
file or a variable other goroutines use, with the local computation around it.
Where a function makes several such accesses it is several actions, ordered by a
program counter per goroutine (`pc`, `task`, `strategy`, `stage`).

**HashQueue** is one queue. `Insert` is the part of the code under the lock, `Send` the
channel operation after it, so that a marked hash may still be at a blocked sender
(`sending`). `taken`, what the receiving loop has and nobody called `Delete` for, is a
history variable.

**SliceCache** composes two HashQueues, `CQ` and `DQ`, with the clients, the download
task per hash, the strategy, and the removal task per hash. `LoadEntry`, `Account` and
`Store` are the three steps of `LoadInCache`; `Evict` is `Delete`; `Plan` to `Pick` are
`GetRandomList`. Sizes are words modulo `Word`, as the unsigned size in the code wraps.
`Divide` can end the process (`strategy = "panic"`), for the total it divides by was
read again after it was tested. `Faults` chooses what may fail.
Which slice is drawn or evicted first is any. `Pick` has no next step when the table holds
too little: that is the loop of `GetRandomList` that spins.

**Eviction** says which. It takes the cache over several starts: how large it may be
(`MaxCacheSize`, `RateOf`, `Part`), and what the rounds of the strategy take (`Tick`, `Draw`,
`Evict`, `EndRound`), beside loads, removals and writes of the metadata. The table
is a sequence in the order of `LastAccTime`, which no access changes after the load,
and which survives a restart in `saved`. `Draw` is `GetRandomList` and the sort: any set of slices
with just enough bytes, the oldest first. What SliceCache and Recovery take apart is one step
here: a load, a deletion, a start, the drawing. So the total is always the sum of the table, and
every drawing ends; what becomes of a round when the size has drifted is a question for
SliceCache, and whether a full cache is cleaned is not asked here. Sizes are words modulo `Word` where the code subtracts or
multiplies them. `Start` with more bytes in the cache than free beside it wraps `MaxCacheSize`
around (`wrapped`); `StartDies` is the memory such a start asks for its queues.
`FreqWeight` and the hits are not there: a hit writes nothing (`metadata.go:108`), `UsedCount`
is 1 in every entry, and the loop that applies the weight assigns to copies.

**Recovery** has what survives the process: the files ("none", "partial" or "whole") and
`metadata.json` ("none", "torn" or "good"). `stage` leads through `InitCache`,
`LoadMetadata` and `Reorganizate`, whose three looks at a file are three steps while the
background goroutines run. What these do is coarser than in SliceCache and allows more
(`LoadFound`, `RemoveVictim` have no guards), so that what holds here holds for the code.

**Tickets** has the two services and the middleware, one action per access to the table,
the key or the clock. `TicketBeUsed` is `LoadOrStore`, `Purge` the later deletion of an
expired mark. The chain and the cache answer in any way. `GenFails` is the three errors
`GenerateToken` returns between the mark and its deletion (`auth.go:40-51`); the bills whose
marks they leave are noted in the history variable `abandoned`. **BillLedger** is the abstract
specification: valid bills are free, claimed, spent or lost, and a restart frees them. Tickets
implements it under the mapping `ledger`.

**Transfer** has the four goroutines of a connection and the miner. `trouble`, chosen at
the start, says whether the disk, the connection, the miner and the timers may fail it.
**Download** is its abstract specification, and what SliceCache relies on: the file grows,
is whole when success is reported, and gets at most one write after a failure.

**ChainClient** has `IsChainClientOk` as `Health`, `Forget`, `Dial` and `Assign`, each
caller's reads after it, and `SubmitExtrinsic` as `Submit`, `Retry`, `Watch` and `Events`.
In a server the callers only ask; a command is one goroutine that submits once. `api` nil
makes a read panic, and the recovery returns no data and no error. The chain executes the
account's extrinsics in the order of nonces; another process of the same account
(`rival`) may hold the first one.

## 3. The runs

| Run | Asks | Bounds | Distinct states |
|---|---|---|---|
| `hash_queue` | one place per mark, `Insert` returns | 4 hashes, 3 senders, channel of 1 | 648 |
| `slice_cache` | safety of the cache, with failing transfers and removals | 2 slices of sizes 1 and 2, 2 clients, 3 requests, channels of 1, sizes modulo 64 | 1,065,548 |
| `slice_cache_live` | requests, downloads and removals settle under every fault, drawing ends, what a division by zero takes, files of the table's slices | the same, 2 requests, eviction above 2 down to 1 | 77,304 |
| `transfer` | refinement of Download, success without trouble, no goroutine left | 3 chunks, `recv` of 1 | 18,097 |
| `recovery` | starts after any end of the process | 2 slices, 3 starts | 609,677 |
| `eviction` | where the rounds stop, the space offered | 3 slices of sizes 2, 3, 4 on a disk of 10, 2 configurations, 2 starts | 352,452 |
| `tickets` | refinement of BillLedger, marks, service once, one key | 1 bill, 2 handlers, 1 restart | 123,404 |
| `chain_client` | connection, success and single execution of a command | 3 goroutines, 3 retries | 160,216 |
| `preheat`, `removal`, `starts_again`, `stranded` | what the code does against its documents | see the configurations | violations |

**Why the bounds are enough for the cases that matter.** A channel of one place makes every
sender wait behind another. Two slices of different sizes let a round evict one and
leave the other, and let the size be wrong by less than the cache holds. A client that asks
three times can ask for a slice, have it evicted, ask again while the file is still there,
and ask once more; with three requests the size wraps below zero. `HighWater = 0` in
`slice_cache` lets the strategy run whenever the cache is not empty and reaches the division
by zero; with a positive mark it takes four requests. 64 is far above the three bytes
of the two slices, so a sum never overflows by itself. A conflict over a bill needs one that
holds it and another; three starts let one start leave something, the next one act on it,
and a third see the result. In `eviction` the three slices nearly fill the disk, so that a second
start finds more in the cache than free beside it; the configurations are one with a maximum
and the target below the limit, and one with neither (a `Threshold` that is no rate leaves
0.8, above `MaxCacheRate` 0.5), where every round has a goal that wraps around. Two starts let
one leave files and metadata and the other sort them. Three chunks are more than `recv` and the reader
hold together. Three tries let a first one be accepted with its answer lost and a
second one follow.

**Deadlock** is checked in `hash_queue`, `tickets` and `chain_client`. The others turn it
off, for the system may stop there: requests and starts are bounded, a panic ends the
process, and a transfer ends.

**Fairness.** Every goroutine that can take a step takes one in the end (weak fairness), the
timers run out, and in Transfer a miner with an open connection answers. `Send` on a
full channel has strong fairness, for Go serves blocked senders in the order they came.
`NetMeasured` is an assumption on the measuring tool, which the code calls until it succeeds:
where the tool is not installed a download that reports progress hangs, with its bill
marked. Nothing makes a client ask, a bill expire, the process restart, a
failure be cleared or a node answer. `eviction`, `slice_cache`, `recovery` and `stranded` ask
for safety only, and assume no fairness.

**What the passing runs say beyond types.** `OneTaskPerHash` and `FreshTarget`: no two tasks
write or remove one file and none truncates a file somebody looks at, though `lockMap`
alone would not prevent it. `OnlyWholeSlices`: the table vouches for whole slices as long as
miners report honestly. `DriftOnlyFromStaleStore`: the size goes wrong in exactly
one way, a `LoadInCache` that stores over an entry changed since it looked.
`VouchedFileIsThere`: a slice in the table has its file, of the size the table says, until it is
evicted. After that its removal, decided while it was out of the table, may take the file of a
slice that a client has loaded again; without the exception TLC shows it in 19 steps.
`DiesOnlyFromDrift`: with the size right, and a cache that may hold something, a round
divides by a size that is not zero, unless a load is about to store less than the whole
slice it found, which takes a miner that cut it short. `DrawEnds`: under the same two
conditions a round that has begun comes to its evictions, though what it wants to draw is
calculated from a size that loads change before and while it draws; TLC needs both conditions,
and found the second in two forms, a cut slice in the table and one that was drawn and has been
made whole since. `RoundReachesGoal`: a round does not run out of victims, but
for goals from a wrapped size.
`RequestReturns`, `DownloadSettles`, `RemovalSettles`: all waits end.
`MarkHasOneOwner`, `ServedAgainOnlyExpired`, `KeepsLedger`, `MarkSettles`,
`DestroyedAfterExpiry`: the life of a bill, with failed token requests as the only ones that
leave a mark nobody owns. `KeySettles`: the token key is made more than
once only by requests that overlap the first, and then stays. `StopsAtTarget`: a
round evicts nothing from a cache at its target. `OffersWhatIsThere`:
what `GetCacheDiskStats` tells the indexers is on the disk, but for starts that wrapped. `KeepsDownload`, `Succeeds`, `HandlerEnds`,
`ReaderSettles`: the life of a transfer; the reader may stay blocked with a message for a full
`recv`, and nothing else stays. `StartVouchesWhole`, `NothingForgotten`: the starts.
`LostOnlyWhenRefused`, `SuccessLanded`, `LandsOnce`, `CommandEnds`: the chain client.
For each property, `PROJECT.json` names a plausible bug in the code that violates it.

### Findings

* **`preheat`**: the mark of a slice in `cacheQueue` is never deleted, so a slice that was
  evicted, or whose download failed, is not downloaded again while the process runs.
* **`removal`**: a slice that is loaded again between its eviction and its removal keeps its
  mark in `delQueue`; its next eviction queues nothing, and the file stays for good.
* **`starts_again`**: the metadata file is truncated and then written; a process that ends in
  between leaves a file on which every later start exits.
* **`stranded`**: `GenerateToken` marks the bill, and does not delete the mark when one of
  the three calls that make the token fails. A user's hash of an odd number of digits is enough:
  `HexDecodeString` pads it, so the bill is found, and `HexStringToBase58` refuses it. The valid
  bill is refused as used until it expires, or the process restarts.

Seen while modelling, and without a run: after one failed reconnection `api` stays nil, the health
check panics, recovers and reports no error (`client.go:165-171`), and the client is never
connected again, though the node is back and `README.md:86` promises stable services; how a
client gets there, and that nothing else takes its connection, is `LostOnlyWhenRefused`. The
frequency of accesses does not affect what is evicted, against `strategy.go:74` and
`README.md:21` of the repository: `UsedCount` is 1 in every entry and no access changes it or
`LastAccTime`, and the loop of `strategy.go:75-79` assigns the weighted interval to copies, so
only the age counts (theorem `EvictsByAgeOnly`). Two first requests that overlap each make a token
key, and the token made under the first is refused for good (`auth.go:37`); `InitCache` subtracts the cache's bytes from the space that is free beside
them, so that they count twice after a restart, and the difference wraps around when they are more
than what is free (`cache.go:91`), with queues of 2^35 places (`cache.go:96`); a `Threshold` above
`MaxCacheRate` makes the goal of a round wrap around, and the round evicts all it drew
(`strategy.go:100`); a `MaxCacheSize` of zero ends the process at the first round
(`strategy.go:44`); a restart frees used bills (BillLedger says so,
`README.md:84` of the repository can be read otherwise); the callbacks of
`SubmitExtrinsic` count anybody's events in the block, so a failed registration can be
reported as a success; `GetBill` looks at the first payment of a block only
(`chainstate.go:146`); `cache.go:138` and `169` compare a wrapped error with `ERR_Empty` and
never match, so files the chain does not know are kept; a key of `lockMap` is no lock, for the
task enters itself after it was started.

## 4. The proofs

The theorems hold for all values of the constants under the named assumptions of the modules
(`CapacityAssumption`, `FiniteAssumption`, `NoHashAssumption`, `SizeAssumption`, ...), which TLC
evaluates in every run. Every invariant and every action property the passing runs check is
proved. Before it was proved, each inductive invariant was checked by TLC on the constants of
its run, or on larger ones.

The one assumption about size is `RoomAssumption` of SliceCache: the low-water mark, three
times all slices, and all slices once more for each goroutine stay below a word. Sizes are
`uint64` counts of bytes, so that it takes more than 10^19 bytes to break it; without it a size
could wrap around by counting too much. Only `DiesFromDrift` and `RoundReaches` use it.

* **HashQueueProofs**: `TypeCorrect`, `OneWorkPerMark`, `MarksAreWork`. *One place* is not inductive: a hash
  must not be inserted while it is under way, and what prevents that is its mark. The
  invariant joins `Marked` (what is under way is marked), `OnePlace` and
  `NoOrphanMark` (what is marked is under way), which make up `MarkedIsUnderWay`. Its lemmas
  for the initial state and for a step are what SliceCacheProofs cites for each queue.
* **SliceCacheProofs**: the cache, in layers, each of which rests on those before it.
  * `TypeCorrect`: types with `TypeInv`, in which each step a goroutine is at fits what it
    works on, and both queues keep their invariants (`CQP!IInv`, `DQP!IInv`).
  * `TasksAreAlone`: `WorkInv`. A slice in the hand of a loop is under way in its queue and so is in
    no other place (`FilesInHand`, `RemovalsInHand`), and a slice whose task has run is not
    under way (`Ended`). This is what makes a second task for a file impossible: the queue's mark,
    and not `lockMap`.
  * `TargetIsFresh`: nobody but the task itself creates a file.
  * `TableIsWhole`: whatever is on its way into the table has the chain's size (`WholeLoads`).
  * `FileIsThere`: only what was evicted is ever in `delQueue` (`RemovesEvicted`), and a size
    that is to be stored is the one the file has (`VouchedFiles`).
  * `DriftIsStale`: how each step changes the sum of the table, the sum of the loads that are accounted
    for and not stored, and the size, as words. It needs the types only.
  * `DiesFromDrift`: from the tick that finds the cache full to the division, the table and the
    loads together hold bytes (`BytesLeft`); nothing is counted with more than its size on the
    chain (`Fits`), so these bytes are no multiple of a word, and a size that has not drifted is
    their sum (`SizeIsSum`). The first attempt failed: a load that stores less than it found takes
    from the size before it takes from the table, and if the whole entry is evicted in
    between, the size wraps around, fills up to zero with the next load, and the division fails on
    a size that says what the sums say. TLC finds this in 50 steps, with one more request than
    the run has, and the property now excepts it; honest miners rule it out (`Honest`).
  * `RoundReaches`: until it has drawn, the size is not below the goal, and cannot pass the end of
    a word (`GoalInReach`). For while nothing is evicted each goroutine adds a slice at most
    once: it looked, or can yet look, while there was no entry, and stores one before it looks
    again (`MayAdd`, which no step but an eviction extends: `MayAddLess`). So the bytes that may still
    be added are bounded, and each load that adds takes from them what it adds to the size
    (`BytesOfLess`).
* **TransferProofs**: `TypeCorrect` and `ImplementsDownload`, that a transfer implements Download,
  for slices of any number of messages and a channel of any length. What the handler
  has not seen yet is one sequence, `Way`: the channel `recv`, the message in the reader's hand
  and the connection. The miner adds to its end, the handler takes its head, a break cuts
  its tail; the lemmas on sequences say which of the invariant's claims about a sequence
  survive each. The invariant: chunks come before everything else and fit into the file
  (`ChunksFirst`); a success has the end of a whole file before it (`SuccessAfterEnd`), which
  is what makes the reported success true; a file is opened once (`OpenedOnce`);
  and what the task, the handler and the miner are doing fits together (`Stages`, `OneRequest`,
  `SendsFit`, `Returns`). Each step is then a step of Download or a stutter.
* **TicketsProofs**: `TypeCorrect`, `OneOwner`, `ServedOnce`, `ImplementsLedger`. The
  invariant is `MarkHasOneOwner`, with the bills of failed token requests as an owner of their
  own, and that a handler at `Purge` has an expired bill: without
  the second, a purge could take a valid bill's mark. `ServedOnce` reads the
  action property off it, and `ImplementsLedger` maps every step to a step of
  BillLedger or to a stutter.
  `KeyStays` needs the types only: past `CheckKey` nobody makes a key where there is one.
* **EvictionProofs**: `TypeCorrect`, `SpaceIsThere`, `EvictsByAgeOnly`, `RoundStopsAtTarget`.
  * `RoundStopsAtTarget` speaks of the step that evicts, and is
    not inductive: what a round has left to evict must be in the table above the target
    (`GoalIsAboveTarget`: `total + done >= goal + target`), which `Tick` establishes because a
    difference of words is no larger than the number it stands for (`ModLeq`), loads can only
    help, and evictions keep. That the total is the sum of the table is not needed.
  * The others rest on `TableInv`. Its types say that the total is the sum of the table, for
    which the sums over a set are taken apart slice by slice. What a round has drawn and nobody
    has loaded again is in the table in the same order (`InOrder`); that order survives the loads,
    which go to the end, and the evictions, which close the gap. And what the cacher took for
    itself at its start is what others do not have (`Offered`), which together with the sums gives
    `SpaceIsThere`.
* **RecoveryProofs**: `TypeCorrect`, `StartsSafely`, `ForgetsNothing`. Two facts are
  added to the types: the file `Reorganizate` is loading is not partial, whatever the
  goroutines beside it do (`LoadsNoPartial`), and every file it is past is in the table, or
  the chain was silent on it, or it was evicted meanwhile (`Seen`).
* **ChainClientProofs**: `TypeCorrect`, `KeepsConnection`, `SuccessIsReal`, `ExecutedOnce`. A
  command is alone with its client, so past each check its `api` is not nil
  (`Connected`) and no recovered panic looks like a success; its extrinsics all have one
  nonce (`OneNonce`), which the chain passes once (`LandedPast`).
* **SizeTheorems**: what the others need of sums and words. The sums of the community modules are
  folds, and the library's induction theorems take an operator, which no prover here can
  instantiate; so induction over the subsets of a finite set is stated with a set in the
  operator's place (`SetInduct`), that a fold has a value is shown by it, and then that a
  sum is each of its terms and the sum of the others (`SumRemove`), grows with its set
  (`SumWider`), is bounded by its terms' bound (`SumBound`), and follows one entry of a function
  (`SumExcept`). `WordMinus` is how a difference of words may be taken before or after the
  remainder.

Only model-checked is liveness, with everything under fairness, which the provers cannot do.
The violated runs are TLC's counterexamples.

## 5. What is not modelled

* Statistics other than the lock and the disk, the query service (it reads, and changes
  nothing), encoding of messages, tokens and addresses, HTTP.
* In Eviction the chain knows every file and answers at the start, and other programs change
  what they have on the disk only between two lives of the process.
* `sendFile`, `sendSingleFile`, `GetSyncStatus`, `GetChainState`: nothing calls them.
* The read of `aesHandle.Enc`, a slice header, and of `api`, a pointer, next to a write is
  taken as atomic.
* `OrdersClean` tests and deletes in one step: a bill that has expired stays so.
* `ants.Submit` does not fail with the default pool, and recovers panics of a task.
* In SliceCache a failed transfer leaves any number of bytes, and the late write of Transfer
  is not repeated there. Miners announce sizes honestly in Transfer; in SliceCache a
  fault makes them report success on a short file, never on a longer one.
* In Transfer a handler that fails sends one `close` where the code sends a notification and a
  `close` with pauses between (`handle.go:73-77`, `82-86`, `101-105`), which is still far below
  the ten places of `send`; and the miner sends no `MsgHead`, `MsgClose` or invalid message of its
  own (`handle.go:62-68`, `126-140`), which the miners of this protocol do not.
* In Recovery the stat, the chain query and the removal of `CheckBadFileAndDel` are one step
  (`Look`), and the directories can be read (`strategy.go:107-117`).
* A failing `os.Remove` in `CheckBadFileAndDel` is covered by the chain giving no answer.
* In ChainClient a call on an open connection answers when the node is reachable, for the RPC
  library dials again by itself; `SubmitExtrinsic`'s lock is never contended, `NewCall` and
  `Sign` do not fail on the client's own data, nothing closes the subscription
  without an error, and `chainState` is written and never read.

## 6. Plan

Written, in this order: HashQueue, SliceCache, Tickets with BillLedger, Transfer with
Download, Recovery, ChainClient, Eviction, and their proofs, SliceCacheProofs and
TransferProofs the last. Left:

* **Cacher**: Tickets over SliceCache, so that a spent bill meets a file that is there.
