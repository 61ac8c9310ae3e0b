------------------------------- MODULE Eviction -------------------------------
(***************************************************************************)
(* How large the cache may grow, when it is cleaned and which slices go:   *)
(* InitCache and initStrategy (base/cache/cache.go), GetDiskStats and      *)
(* GetCacheDiskStats (info.go), StrategyServer, RandomLRU and              *)
(* GetRandomList (strategy.go), over several starts of the process.        *)
(*                                                                         *)
(* The table is a sequence, from the entry loaded first to the one loaded  *)
(* last.  Starting, loading, deleting and the drawing of a round are one   *)
(* step each, every file is whole and the chain knows it, so that the      *)
(* total is always the table's sum: SliceCache and Recovery take these     *)
(* apart, and SliceCache has what a total that drifted does to a round.    *)
(***************************************************************************)
EXTENDS Integers, Sequences, FiniteSets, Functions, SequencesExt

CONSTANTS
    Hashes,         \* the slices
    SliceSize,      \* per slice, its size
    Disk,           \* the disk's size
    Others,         \* what other programs may have on the disk
    Configs,        \* the configurations: maximum in bytes, two rates in percent
    Word,           \* sizes are unsigned words: arithmetic is modulo Word
    MaxStarts       \* bound on the starts of the process

(* A word holds four times any size of the disk, so that a difference that *)
(* wrapped around is told from one that did not, as with 64 bits.          *)
ASSUME SizeAssumption ==
    /\ Disk \in Nat /\ Word \in Nat /\ Word > 4 * Disk
    /\ IsFiniteSet(Hashes) /\ SliceSize \in [Hashes -> 1..Disk]
    /\ Others \subseteq 0..Disk
ASSUME ConfigAssumption ==
    Configs \subseteq [max : 0..Word-1, rate : Int, threshold : Int]
ASSUME StartsAssumption == MaxStarts \in Nat

VARIABLES
    up,             \* the process runs
    table,          \* hashMap's keys in the order of LastAccTime
    total,          \* Cache.size
    files, used,    \* the slices whose files are on disk, and the files' bytes
    saved,          \* metadata.json: the table when it was written last
    other,          \* what other programs have on the disk
    maxSize,        \* MaxCacheSize
    limit, target,  \* maxSize times MaxCacheRate, and times Threshold
    wrapped,        \* history: the space in use exceeded the free space at the start
    phase,          \* the step of StrategyServer
    goal,           \* RandomLRU's cleanSize
    lru,            \* the slices drawn and not yet looked at, the oldest first
    done,           \* the bytes the round has evicted
    fresh,          \* history: those loaded again since the draw
    starts          \* bound only

cached == <<table, total>>
onDisk == <<files, used, saved, other>>
sizing == <<maxSize, limit, target, wrapped>>
round == <<phase, goal, lru, done, fresh>>
vars == <<up, cached, onDisk, sizing, round, starts>>

Cached == ToSet(table)
Bytes(S) == SumFunctionOnSet(SliceSize, S)

(* GetDiskStats: what df tells.                                            *)
Available == Disk - other - used

TypeOK ==
    /\ up \in BOOLEAN /\ wrapped \in BOOLEAN
    /\ table \in Seq(Hashes) /\ IsInjective(table)
    /\ total = Bytes(Cached)
    /\ Cached \subseteq files /\ files \subseteq Hashes
    /\ used = Bytes(files) /\ Available >= 0
    /\ saved \in Seq(Hashes) /\ IsInjective(saved)
    /\ other \in Others
    /\ maxSize \in 0..Word-1 /\ limit \in 0..maxSize /\ target \in 0..maxSize
    /\ phase \in {"idle", "draw", "evict"}
    /\ goal \in 0..Word-1 /\ done \in Nat
    /\ lru \in Seq(Hashes) /\ ToSet(lru) \subseteq Cached
    /\ fresh \subseteq ToSet(lru)
    /\ starts \in 0..MaxStarts

(* Nothing of this is kept when the process ends.                          *)
Forget ==
    /\ up' = FALSE /\ table' = <<>> /\ total' = 0
    /\ maxSize' = 0 /\ limit' = 0 /\ target' = 0 /\ wrapped' = FALSE
    /\ phase' = "idle" /\ goal' = 0 /\ lru' = <<>> /\ done' = 0 /\ fresh' = {}

(* The cacher is installed, in an empty directory.                         *)
Init ==
    /\ up = FALSE /\ table = <<>> /\ total = 0
    /\ files = {} /\ used = 0 /\ saved = <<>> /\ other \in Others
    /\ maxSize = 0 /\ limit = 0 /\ target = 0 /\ wrapped = FALSE
    /\ phase = "idle" /\ goal = 0 /\ lru = <<>> /\ done = 0 /\ fresh = {}
    /\ starts = 0

-----------------------------------------------------------------------------
(* The start of the process.                                               *)

(* Mutant of MaxCacheSize: what is configured counts, whatever there is.   *)
MutMaxCacheSizeConfigured(configured) ==
    IF configured > 0 THEN configured ELSE (Available - used) % Word

(* The space the files take is subtracted from what is free beside them;   *)
(* the configured maximum counts if it is smaller.                         *)
MaxCacheSize(configured) ==
    LET left == (Available - used) % Word
    IN  IF configured > 0 /\ configured < left THEN configured ELSE left

(* A configured rate that is none is passed over.                          *)
IsRateValue(v) == v \in 0..100
RateOf(v, default) == IF IsRateValue(v) THEN v ELSE default

(* Part of a size, as a whole number of bytes.                             *)
Part(size, rate) == (size * rate) \div 100

(* A table in the order of LastAccTime: entries that the metadata lists    *)
(* keep their times, the other files get the present one.                  *)
LoadedInOrder(s) ==
    \A i, j \in DOMAIN s : i < j =>
        \/ s[j] \notin ToSet(saved)
        \/ \E m, n \in DOMAIN saved : m < n /\ saved[m] = s[i] /\ saved[n] = s[j]

Start(c) ==
    /\ ~ up /\ starts < MaxStarts
    /\ up' = TRUE /\ starts' = starts + 1
    /\ table' \in {s \in SetToSeqs(files) : LoadedInOrder(s)}
    /\ total' = used
    /\ maxSize' = MaxCacheSize(c.max)
    /\ limit' = Part(maxSize', RateOf(c.rate, 95))
    /\ target' = Part(maxSize', RateOf(c.threshold, 80))
    /\ wrapped' = (used > Available)
    /\ UNCHANGED <<onDisk, round>>

(* A difference that wrapped around asks for queues of 2^35 places, one    *)
(* for every 512 MiB of it: there may be no memory for them.               *)
StartDies(c) ==
    /\ ~ up /\ starts < MaxStarts
    /\ c.max = 0 /\ used > Available
    /\ starts' = starts + 1
    /\ UNCHANGED <<up, cached, onDisk, sizing, round>>

Stop ==
    /\ up
    /\ Forget
    /\ other' \in Others /\ other' <= Disk - used
    /\ UNCHANGED <<files, used, saved, starts>>

SaveMetadata ==
    /\ up
    /\ saved' = table
    /\ UNCHANGED <<up, cached, files, used, other, sizing, round, starts>>

-----------------------------------------------------------------------------
(* The table and the files.                                                *)

(* Mutant of LoadInCache: an entry that is there already is counted again. *)
MutLoadInCacheCountsTwice(h) ==
    /\ up
    /\ h \in files \/ SliceSize[h] <= Available
    /\ files' = files \cup {h}
    /\ used' = IF h \in files THEN used ELSE used + SliceSize[h]
    /\ table' = Append(RemoveFirst(table, h), h)
    /\ total' = total + SliceSize[h]
    /\ fresh' = fresh \cup ({h} \cap ToSet(lru))
    /\ UNCHANGED <<up, saved, other, sizing, phase, goal, lru, done, starts>>

(* A slice is downloaded, or found on disk, and gets an entry that is the  *)
(* newest; two clients that both missed it may do so one after the other.  *)
LoadInCache(h) ==
    /\ up
    /\ h \in files \/ SliceSize[h] <= Available
    /\ files' = files \cup {h}
    /\ used' = IF h \in files THEN used ELSE used + SliceSize[h]
    /\ table' = Append(RemoveFirst(table, h), h)
    /\ total' = IF h \in Cached THEN total ELSE total + SliceSize[h]
    /\ fresh' = fresh \cup ({h} \cap ToSet(lru))
    /\ UNCHANGED <<up, saved, other, sizing, phase, goal, lru, done, starts>>

(* CleanCacheServer removes the file of an evicted slice, sooner or later. *)
RemoveFile(h) ==
    /\ up /\ h \in files \ Cached
    /\ files' = files \ {h} /\ used' = used - SliceSize[h]
    /\ UNCHANGED <<up, cached, saved, other, sizing, round, starts>>

-----------------------------------------------------------------------------
(* StrategyServer.                                                         *)

Tick ==
    /\ up /\ phase = "idle"
    /\ total >= limit
    /\ phase' = "draw"
    /\ goal' = (total - target) % Word
    /\ UNCHANGED <<up, cached, onDisk, sizing, lru, done, fresh, starts>>

(* GetRandomList draws three times the goal, or everything.                *)
PickSize ==
    LET pick == (3 * goal) % Word IN IF pick = 0 \/ pick >= total THEN total ELSE pick

(* It draws slices at random, until their bytes suffice.  The loop is one  *)
(* step, and ends, because the table has the bytes the total says; when it *)
(* has fewer the loop of the code may spin (strategy.go:50): DrawEnds of   *)
(* SliceCache is about that.                                               *)
Enough(drawn) ==
    /\ Bytes(drawn) >= PickSize
    /\ \E last \in drawn : Bytes(drawn \ {last}) < PickSize

Before(h, g) == \E i, j \in DOMAIN table : i < j /\ table[i] = h /\ table[j] = g

(* RandomLRU sorts what was drawn by the time since the last access, which *)
(* no access changes, the longest first.  The weights it computes before,  *)
(* of the interval and a UsedCount that is 1 in every entry, are assigned  *)
(* to copies of the items (strategy.go:75-79), and do not count.           *)
Sorted(s) == \A i, j \in DOMAIN s : i < j => Before(s[i], s[j])

Draw ==
    /\ phase = "draw" /\ total > 0
    /\ \E drawn \in SUBSET Hashes :
        /\ drawn \subseteq Cached /\ Enough(drawn)
        /\ lru' \in {s \in SetToSeqs(drawn) : Sorted(s)}
    /\ phase' = "evict"
    /\ UNCHANGED <<up, cached, onDisk, sizing, goal, done, fresh, starts>>

(* The division by the size of an empty cache ends the process.            *)
DrawDies ==
    /\ phase = "draw" /\ total = 0
    /\ Forget
    /\ UNCHANGED <<onDisk, starts>>

(* Mutant of Evict: the round evicts all it has drawn.                     *)
MutEvictAll ==
    /\ phase = "evict" /\ lru # <<>>
    /\ done' = done + SliceSize[Head(lru)]
    /\ lru' = Tail(lru)
    /\ table' = RemoveFirst(table, Head(lru))
    /\ total' = total - SliceSize[Head(lru)]
    /\ fresh' = fresh \ {Head(lru)}
    /\ UNCHANGED <<up, onDisk, sizing, phase, goal, starts>>

Evict ==
    /\ phase = "evict" /\ done < goal /\ lru # <<>>
    /\ done' = done + SliceSize[Head(lru)]
    /\ lru' = Tail(lru)
    /\ table' = RemoveFirst(table, Head(lru))
    /\ total' = total - SliceSize[Head(lru)]
    /\ fresh' = fresh \ {Head(lru)}
    /\ UNCHANGED <<up, onDisk, sizing, phase, goal, starts>>

EndRound ==
    /\ phase = "evict" /\ (done >= goal \/ lru = <<>>)
    /\ phase' = "idle" /\ goal' = 0 /\ lru' = <<>> /\ done' = 0 /\ fresh' = {}
    /\ UNCHANGED <<up, cached, onDisk, sizing, starts>>

-----------------------------------------------------------------------------
StrategyServer == Tick \/ Draw \/ DrawDies \/ Evict \/ EndRound

Next ==
    \/ \E c \in Configs : Start(c) \/ StartDies(c)
    \/ Stop \/ SaveMetadata \/ StrategyServer
    \/ \E h \in Hashes : LoadInCache(h) \/ RemoveFile(h)

Spec == Init /\ [][Next]_vars

-----------------------------------------------------------------------------
(* "when cache space utilization reaches this value, cache clean will be   *)
(* stopped" (README.md:19): no slice is evicted from a cache that is at    *)
(* its target already, whatever is loaded while a round runs, where the    *)
(* configuration does not put the target above the limit.                  *)
StopsAtTarget ==
    [][up /\ up' /\ total' < total /\ target <= limit => total > target]_vars

(* Of the slices a round has drawn, none is evicted while one that was     *)
(* loaded before it stays, though the table changes while the round runs,  *)
(* and a restart takes the times from the metadata (strategy.go:33 and 81).*)
(* This is what the code does, not what its documents say: "Access         *)
(* frequency affects the elimination result" (strategy.go:74), and         *)
(* FreqWeight is "the weight of file usage frequency" (README.md:21).      *)
OnlyAgeCounts ==
    [][\A h \in Cached \ Cached', g \in ToSet(lru) \ fresh :
        up' /\ h \notin fresh /\ Before(g, h) => g \notin Cached']_vars

(* GetCacheDiskStats, which the indexers are told.                         *)
CacheDiskStats ==
    [total |-> maxSize, used |-> total,
     available |-> IF maxSize > total THEN maxSize - total ELSE 0]

(* The space the cacher offers is there, up to the files of evicted slices *)
(* that still have to be removed; unless the process was started with more *)
(* bytes in the cache than were free beside it (cache.go:91).              *)
OffersWhatIsThere ==
    up /\ ~ wrapped => CacheDiskStats.available <= Available + (used - total)
=============================================================================
