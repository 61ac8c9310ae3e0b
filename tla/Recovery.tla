------------------------------ MODULE Recovery ------------------------------
(***************************************************************************)
(* What survives the end of the process: the slices' files, and the table  *)
(* of cached slices as FlashMetadataFile last wrote it to metadata.json    *)
(* (base/cache: InitCache, LoadMetadata, Reorganizate, SaveMetadata).  The *)
(* process may end between any two steps, and is started again.            *)
(*                                                                         *)
(* A start reads the metadata and checks every entry against the file and  *)
(* the chain, starts the background goroutines, and then takes up the      *)
(* files the metadata did not name, while these goroutines run.  What they *)
(* do to the table and the files is here in coarse steps that allow more   *)
(* than the code does; SliceCache has it whole.                            *)
(***************************************************************************)
EXTENDS Naturals, FiniteSets

CONSTANTS
    Hashes,         \* the slices
    NoHash,         \* "no slice"
    MaxStarts       \* bound on the starts of the process

ASSUME NoHashAssumption == NoHash \notin Hashes
ASSUME MaxStartsAssumption == MaxStarts \in Nat

VARIABLES
    disk,           \* per slice, its file: "none", "partial" or "whole"
    metaFile,       \* metadata.json: "none", "torn" (empty or cut off) or "good"
    metaList,       \* the slices it lists when it is good
    stage,          \* how far the process is
    table,          \* the keys of hashMap
    todo,           \* entries LoadMetadata, then files Reorganizate has to look at
    loading,        \* the file Reorganizate loads
    sized,          \* it was there when its size was asked for
    task,           \* per slice, the step of its download
    victims,        \* evicted slices whose files are to be removed
    flush,          \* the step of SaveMetadata
    visit, list,    \* entries its Range has still to visit, and those it collected
    silent,         \* history: slices the chain gave no answer on in this start
    evicted,        \* history: slices evicted since the start
    starts          \* bound only

diskVars == <<disk, metaFile, metaList>>
startVars == <<todo, loading, sized, silent>>
flushVars == <<flush, visit, list>>
runVars == <<task, victims, evicted>>
vars == <<diskVars, stage, table, startVars, runVars, flushVars, starts>>

(* The background goroutines run.                                          *)
Working == stage \in {"reorganize", "run"}

TypeOK ==
    /\ disk \in [Hashes -> {"none", "partial", "whole"}]
    /\ metaFile \in {"none", "torn", "good"}
    /\ metaList \subseteq Hashes
    /\ stage \in {"down", "create", "read", "load", "reorganize", "run", "exited"}
    /\ table \subseteq Hashes /\ todo \subseteq Hashes
    /\ loading \in Hashes \cup {NoHash}
    /\ sized \in BOOLEAN
    /\ task \in [Hashes -> {"none", "receive", "load"}]
    /\ victims \subseteq Hashes
    /\ flush \in {"idle", "range", "write"}
    /\ visit \subseteq Hashes /\ list \subseteq Hashes
    /\ silent \subseteq Hashes /\ evicted \subseteq Hashes
    /\ starts \in 0..MaxStarts
    /\ stage \in {"down", "create", "read", "exited"} => table = {}
    /\ loading # NoHash => stage = "reorganize"
    /\ flush # "idle" \/ victims # {} => Working
    /\ stage # "run" => \A h \in Hashes : task[h] = "none"

(* A process that has nothing in memory.                                   *)
Forget ==
    /\ table' = {} /\ todo' = {} /\ loading' = NoHash /\ sized' = FALSE
    /\ task' = [h \in Hashes |-> "none"] /\ victims' = {}
    /\ flush' = "idle" /\ visit' = {} /\ list' = {}
    /\ silent' = {} /\ evicted' = {}

(* The cacher is installed, in an empty directory.                         *)
Init ==
    /\ disk = [h \in Hashes |-> "none"]
    /\ metaFile = "none" /\ metaList = {}
    /\ stage = "down"
    /\ table = {} /\ todo = {} /\ loading = NoHash /\ sized = FALSE
    /\ task = [h \in Hashes |-> "none"] /\ victims = {}
    /\ flush = "idle" /\ visit = {} /\ list = {}
    /\ silent = {} /\ evicted = {}
    /\ starts = 0

-----------------------------------------------------------------------------
(* InitCache.                                                              *)

(* A missing metadata file is created, empty, and then gets its braces.    *)
Start ==
    /\ stage \in {"down", "exited"} /\ starts < MaxStarts
    /\ starts' = starts + 1
    /\ IF metaFile = "none"
       THEN stage' = "create" /\ metaFile' = "torn"
       ELSE stage' = "read" /\ UNCHANGED metaFile
    /\ UNCHANGED <<disk, metaList, table, startVars, runVars, flushVars>>

WriteBraces ==
    /\ stage = "create"
    /\ stage' = "read"
    /\ metaFile' = "good" /\ metaList' = {}
    /\ UNCHANGED <<disk, table, startVars, runVars, flushVars, starts>>

(* LoadMetadata ends the process on a file it cannot read.                 *)
ReadMetadata ==
    /\ stage = "read"
    /\ IF metaFile = "good"
       THEN stage' = "load" /\ todo' = metaList
       ELSE stage' = "exited" /\ UNCHANGED todo
    /\ UNCHANGED <<diskVars, table, loading, sized, silent, runVars, flushVars, starts>>

(* CheckBadFileAndDel finds a file good, or bad: it is not there, it has   *)
(* another size than on the chain and is removed, or the chain does not    *)
(* answer and it stays as it is.                                           *)
Good(h) == disk[h] = "whole" /\ UNCHANGED <<disk, silent>>
Bad(h) ==
    \/ disk[h] = "none" /\ UNCHANGED <<disk, silent>>
    \/ disk[h] = "partial" /\ disk' = [disk EXCEPT ![h] = "none"] /\ UNCHANGED silent
    \/ disk[h] # "none" /\ silent' = silent \cup {h} /\ UNCHANGED disk

LoadEntry(h) ==
    /\ stage = "load" /\ h \in todo
    /\ todo' = todo \ {h}
    /\ \/ Good(h) /\ table' = table \cup {h}
       \/ Bad(h) /\ UNCHANGED table
    /\ UNCHANGED <<metaFile, metaList, stage, loading, sized, runVars, flushVars, starts>>

(* Mutant of Loaded: the directories are read only without metadata.       *)
MutLoadedTrusts ==
    /\ stage = "load" /\ todo = {}
    /\ stage' = "reorganize"
    /\ todo' = IF metaList = {} THEN {h \in Hashes : disk[h] # "none"} ELSE {}
    /\ UNCHANGED <<diskVars, table, loading, sized, silent, runVars, flushVars, starts>>

(* The goroutines start, and Reorganizate reads the directories.           *)
Loaded ==
    /\ stage = "load" /\ todo = {}
    /\ stage' = "reorganize"
    /\ todo' = {h \in Hashes : disk[h] # "none"}
    /\ UNCHANGED <<diskVars, table, loading, sized, silent, runVars, flushVars, starts>>

(* Mutant of Look: only a wrong size is bad, not a chain without answer.   *)
MutLookTrusts(h) ==
    /\ stage = "reorganize" /\ loading = NoHash /\ h \in todo
    /\ todo' = todo \ {h}
    /\ loading' = IF h \notin table THEN h ELSE NoHash
    /\ UNCHANGED <<diskVars, stage, table, sized, silent, runVars, flushVars, starts>>

(* Reorganizate looks at a file: the table has it, it is bad, or it is     *)
(* loaded.                                                                 *)
Look(h) ==
    /\ stage = "reorganize" /\ loading = NoHash /\ h \in todo
    /\ todo' = todo \ {h}
    /\ \/ h \in table /\ UNCHANGED <<disk, silent, loading>>
       \/ h \notin table /\ Good(h) /\ loading' = h
       \/ h \notin table /\ Bad(h) /\ UNCHANGED loading
    /\ UNCHANGED <<metaFile, metaList, stage, table, sized, runVars, flushVars, starts>>

(* It asks for the size, and LoadInCache loads nothing of size zero.       *)
AskSize ==
    /\ loading # NoHash /\ ~ sized
    /\ IF disk[loading] = "none"
       THEN loading' = NoHash /\ UNCHANGED sized
       ELSE sized' = TRUE /\ UNCHANGED loading
    /\ UNCHANGED <<diskVars, stage, table, todo, silent, runVars, flushVars, starts>>

TakeUp ==
    /\ loading # NoHash /\ sized
    /\ table' = table \cup {loading}
    /\ loading' = NoHash /\ sized' = FALSE
    /\ UNCHANGED <<diskVars, stage, todo, silent, runVars, flushVars, starts>>

(* Mutant of Reorganized: it does not wait for the last file.              *)
MutReorganizedEarly ==
    /\ stage = "reorganize" /\ todo = {}
    /\ stage' = "run"
    /\ UNCHANGED <<diskVars, table, startVars, runVars, flushVars, starts>>

Reorganized ==
    /\ stage = "reorganize" /\ todo = {} /\ loading = NoHash
    /\ stage' = "run"
    /\ UNCHANGED <<diskVars, table, startVars, runVars, flushVars, starts>>

-----------------------------------------------------------------------------
(* The running cache.                                                      *)

(* A slice whose file was found missing is downloaded.                     *)
CreateFile(h) ==
    /\ stage = "run"
    /\ task[h] = "none" /\ disk[h] = "none"
    /\ disk' = [disk EXCEPT ![h] = "partial"]
    /\ task' = [task EXCEPT ![h] = "receive"]
    /\ UNCHANGED <<metaFile, metaList, stage, table, startVars, victims, evicted, flushVars,
                   starts>>

(* The transfer ends with a whole file, unless it was removed, or with an  *)
(* error.                                                                  *)
Transfer(h) ==
    /\ task[h] = "receive"
    /\ \/ /\ disk[h] # "none"
          /\ disk' = [disk EXCEPT ![h] = "whole"]
          /\ task' = [task EXCEPT ![h] = "load"]
       \/ task' = [task EXCEPT ![h] = "none"] /\ UNCHANGED disk
    /\ UNCHANGED <<metaFile, metaList, stage, table, startVars, victims, evicted, flushVars,
                   starts>>

LoadDownloaded(h) ==
    /\ task[h] = "load"
    /\ table' = table \cup {h}
    /\ task' = [task EXCEPT ![h] = "none"]
    /\ UNCHANGED <<diskVars, stage, startVars, victims, evicted, flushVars, starts>>

(* A client loads a file it has seen whole, whatever has become of it.     *)
LoadFound(h) ==
    /\ stage = "run"
    /\ table' = table \cup {h}
    /\ UNCHANGED <<diskVars, stage, startVars, runVars, flushVars, starts>>

Evict(h) ==
    /\ Working /\ h \in table
    /\ table' = table \ {h}
    /\ victims' = victims \cup {h}
    /\ evicted' = evicted \cup {h}
    /\ UNCHANGED <<diskVars, stage, startVars, task, flushVars, starts>>

(* The removal goes through, though the slice may be in the table again by *)
(* then, or is dropped for that, for an older mark or for an error.        *)
RemoveVictim(h) ==
    /\ h \in victims
    /\ victims' = victims \ {h}
    /\ disk' = [disk EXCEPT ![h] = "none"] \/ UNCHANGED disk
    /\ UNCHANGED <<metaFile, metaList, stage, table, startVars, task, evicted, flushVars,
                   starts>>

-----------------------------------------------------------------------------
(* SaveMetadata.                                                           *)

FlushStart ==
    /\ Working /\ flush = "idle"
    /\ flush' = "range" /\ visit' = Hashes /\ list' = {}
    /\ UNCHANGED <<diskVars, stage, table, startVars, runVars, starts>>

(* Range visits the keys one by one, while the table changes.              *)
FlushVisit(h) ==
    /\ flush = "range" /\ h \in visit
    /\ visit' = visit \ {h}
    /\ list' = IF h \in table THEN list \cup {h} ELSE list
    /\ UNCHANGED <<diskVars, stage, table, startVars, runVars, flush, starts>>

(* WriteFile truncates the file and writes it, or fails on the way.        *)
FlushTruncate ==
    /\ flush = "range" /\ visit = {}
    /\ flush' = "write"
    /\ metaFile' = "torn"
    /\ UNCHANGED <<disk, metaList, stage, table, startVars, runVars, visit, list, starts>>

FlushWrite ==
    /\ flush = "write"
    /\ flush' = "idle"
    /\ \/ metaFile' = "good" /\ metaList' = list
       \/ UNCHANGED <<metaFile, metaList>>
    /\ list' = {}
    /\ UNCHANGED <<disk, stage, table, startVars, runVars, visit, starts>>

-----------------------------------------------------------------------------
(* The process ends at any moment.                                         *)
Crash ==
    /\ stage \notin {"down", "exited"}
    /\ stage' = "down"
    /\ Forget
    /\ UNCHANGED <<diskVars, starts>>

Next ==
    \/ Start \/ WriteBraces \/ ReadMetadata \/ Loaded \/ AskSize \/ TakeUp \/ Reorganized
    \/ FlushStart \/ FlushTruncate \/ FlushWrite \/ Crash
    \/ \E h \in Hashes :
        \/ LoadEntry(h) \/ Look(h)
        \/ CreateFile(h) \/ Transfer(h) \/ LoadDownloaded(h) \/ LoadFound(h)
        \/ Evict(h) \/ RemoveVictim(h) \/ FlushVisit(h)

Spec == Init /\ [][Next]_vars

-----------------------------------------------------------------------------
(* However the process ended, and whatever the metadata lists, a start     *)
(* takes no file of a transfer that was cut off for the slice: what it     *)
(* puts into the table is whole, or was removed while Reorganizate loaded  *)
(* it (strategy.go:122-129).                                               *)
StartVouchesWhole ==
    [][\A h \in table' \ table :
        stage \in {"load", "reorganize"} => disk[h] # "partial"]_vars

(* A start forgets nothing: when it is over, every file on disk is in the  *)
(* table, but for those the chain gave no answer on and those evicted      *)
(* meanwhile.  So whole files that no flush had listed are found again,    *)
(* and partial ones are gone.                                              *)
NothingForgotten ==
    [][stage = "reorganize" /\ stage' = "run" =>
        \A h \in Hashes : disk[h] # "none" => h \in table \cup silent \cup evicted]_vars

(* "These services ensure that the cacher can provide stable and reliable  *)
(* cache services in the background" (README.md:86): the service that      *)
(* writes the metadata does not keep the cacher from starting.             *)
StartsAgain == stage # "exited"
=============================================================================
