----------------------------- MODULE HashQueue -----------------------------
(***************************************************************************)
(* The queue of slice hashes of base/cache/metadata.go: a buffered Go      *)
(* channel and the set of marks ("filter") that keeps a hash from being    *)
(* queued a second time.  A cacher has two of them: cacheQueue, the slices *)
(* to download, and delQueue, the files to remove.                         *)
(*                                                                         *)
(* Insert takes two steps, because the code releases the lock between      *)
(* them: it marks the hash, then sends it on the channel, where it may     *)
(* have to wait for room.  There is one receiving loop per queue; what it  *)
(* received stays in "taken" until its mark is deleted.                    *)
(***************************************************************************)
EXTENDS Naturals, Sequences, FiniteSets

CONSTANTS
    Hashes,     \* the slice hashes
    Senders,    \* the goroutines that call Insert
    Capacity,   \* length of the channel, NewQueue's argument
    NoHash      \* "nothing to send"

ASSUME CapacityAssumption == Capacity \in Nat \ {0}
ASSUME NoHashAssumption == NoHash \notin Hashes

VARIABLES
    filter,     \* the marked hashes
    queue,      \* the content of the channel
    sending,    \* per sender, the hash its blocked send holds
    taken       \* history: hashes received whose mark was not deleted since

vars == <<filter, queue, sending, taken>>

InQueue(h) == \E i \in 1..Len(queue) : queue[i] = h

SendingSet == {sending[p] : p \in Senders} \ {NoHash}

TypeOK ==
    /\ filter \subseteq Hashes
    /\ queue \in Seq(Hashes)
    /\ Len(queue) <= Capacity
    /\ sending \in [Senders -> Hashes \cup {NoHash}]
    /\ taken \subseteq Hashes

Init ==
    /\ filter = {}
    /\ queue = <<>>
    /\ sending = [p \in Senders |-> NoHash]
    /\ taken = {}

-----------------------------------------------------------------------------
(* Mutant of Insert: the filter is not consulted.                          *)
MutInsertUnfiltered(p, h) ==
    /\ sending[p] = NoHash
    /\ filter' = filter \cup {h}
    /\ sending' = [sending EXCEPT ![p] = h]
    /\ UNCHANGED <<queue, taken>>

(* Mutant of Insert: sends first, and marks never.                         *)
MutInsertUnmarked(p, h) ==
    /\ sending[p] = NoHash
    /\ h \notin filter
    /\ sending' = [sending EXCEPT ![p] = h]
    /\ UNCHANGED <<filter, queue, taken>>

(* Insert up to the unlock: a marked hash is dropped, another is marked.   *)
Insert(p, h) ==
    /\ sending[p] = NoHash
    /\ IF h \in filter
       THEN UNCHANGED <<filter, sending>>
       ELSE /\ filter' = filter \cup {h}
            /\ sending' = [sending EXCEPT ![p] = h]
    /\ UNCHANGED <<queue, taken>>

(* Mutant of Send: an off-by-one that keeps the last place free.           *)
MutSendLeavesRoom(p) ==
    /\ sending[p] # NoHash
    /\ Len(queue) + 1 < Capacity
    /\ queue' = Append(queue, sending[p])
    /\ sending' = [sending EXCEPT ![p] = NoHash]
    /\ UNCHANGED <<filter, taken>>

(* Mutant of Send: one hash more than the channel holds.                   *)
MutSendOverfills(p) ==
    /\ sending[p] # NoHash
    /\ Len(queue) < Capacity + 1
    /\ queue' = Append(queue, sending[p])
    /\ sending' = [sending EXCEPT ![p] = NoHash]
    /\ UNCHANGED <<filter, taken>>

(* The send of Insert, once the channel has room.                          *)
Send(p) ==
    /\ sending[p] # NoHash
    /\ Len(queue) < Capacity
    /\ queue' = Append(queue, sending[p])
    /\ sending' = [sending EXCEPT ![p] = NoHash]
    /\ UNCHANGED <<filter, taken>>

(* The receiving loop takes the next hash.                                 *)
Receive(h) ==
    /\ queue # <<>>
    /\ h = Head(queue)
    /\ queue' = Tail(queue)
    /\ taken' = taken \cup {h}
    /\ UNCHANGED <<filter, sending>>

(* Delete, called by the task that worked on a received hash.              *)
Delete(h) ==
    /\ h \in taken
    /\ filter' = filter \ {h}
    /\ taken' = taken \ {h}
    /\ UNCHANGED <<queue, sending>>

(* Query: a hash on its way is reported before it reaches the channel.     *)
Query(h) == h \in filter

Next ==
    \/ \E p \in Senders, h \in Hashes : Insert(p, h)
    \/ \E p \in Senders : Send(p)
    \/ \E h \in Hashes : Receive(h) \/ Delete(h)

(* The receiving loops never end, and Go serves blocked senders in the     *)
(* order they came, so a sender is not overtaken for ever.  No fairness on *)
(* Insert or Delete: nothing makes a caller call.                          *)
Fairness ==
    /\ \A p \in Senders : SF_vars(Send(p))
    /\ WF_vars(\E h \in Hashes : Receive(h))

Spec == Init /\ [][Next]_vars /\ Fairness

-----------------------------------------------------------------------------
(* What is under way, in the channel, at a blocked sender or at the        *)
(* receiver, is marked, and nothing else is: Query (cache.go:50) never     *)
(* reports a slice under way as unknown, though Insert marks it long       *)
(* before the channel holds it, and a mark outlives the work only if the   *)
(* receiver drops the hash without Delete.                                 *)
MarkedIsUnderWay ==
    \A h \in Hashes : h \in filter <=> InQueue(h) \/ h \in SendingSet \cup taken

(* A mark stands for exactly one piece of work: a hash waits at most once, *)
(* in the channel, at one blocked sender or at the receiver.  The          *)
(* downloads write to one file per hash, so a second copy of a hash would  *)
(* be a second writer of that file.                                        *)
OnePlace ==
    /\ \A i, j \in 1..Len(queue) : queue[i] = queue[j] => i = j
    /\ \A p, q \in Senders : sending[p] = sending[q] /\ sending[p] # NoHash => p = q
    /\ \A i \in 1..Len(queue) : queue[i] \notin SendingSet \cup taken
    /\ SendingSet \cap taken = {}

(* Every Insert returns, with any number of senders blocked on the full    *)
(* channel.                                                                *)
InsertReturns == \A p \in Senders : sending[p] # NoHash ~> sending[p] = NoHash
=============================================================================
