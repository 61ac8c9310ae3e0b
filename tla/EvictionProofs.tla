---------------------------- MODULE EvictionProofs ----------------------------
(***************************************************************************)
(* For any slices, sizes, disk, configurations and number of starts: a     *)
(* round of the strategy evicts nothing from a cache at its target, and    *)
(* the oldest of what it has drawn first; and the cacher offers no more    *)
(* space than the disk has.                                                *)
(***************************************************************************)
EXTENDS Eviction, SizeTheorems, SequenceTheorems, TLAPS

(* What is left to evict is always in the table, above the target: loads   *)
(* only add to it, and an eviction takes as much from one as from the      *)
(* other.                                                                  *)
GoalIsAboveTarget == phase # "idle" /\ target <= limit => total + done >= goal + target

Numbers ==
    /\ total \in Int /\ used \in Int /\ other \in Int
    /\ limit \in Int /\ target \in Int /\ goal \in Int /\ done \in Int

Rounds ==
    /\ lru \in Seq(Hashes)
    /\ phase = "idle" => done = 0
    /\ ~ up => phase = "idle"

IInv == Numbers /\ Rounds /\ GoalIsAboveTarget

(* The difference of two words is no larger than what it stands for.       *)
LEMMA ModLeq ==
    ASSUME NEW x \in Nat
    PROVE  x % Word \in Int /\ x % Word <= x
<1>1. Word \in Nat /\ Word > 0
  BY SizeAssumption
<1>2. x % Word \in 0..Word-1
  BY <1>1
<1>3. CASE x < Word
  <2>1. x % Word = x
    BY <1>1, <1>3
  <2> QED
    BY <2>1
<1>4. CASE x >= Word
  BY <1>1, <1>2, <1>4
<1> QED
  BY <1>1, <1>3, <1>4

(* Drawn slices, in whatever order, are slices.                            *)
LEMMA DrawnSlices ==
    ASSUME NEW drawn \in SUBSET Hashes
    PROVE  SetToSeqs(drawn) \subseteq Seq(Hashes)
<1>1. Cardinality(drawn) \in Nat
  BY SizeAssumption, FS_Subset, FS_CardinalityType
<1>2. [1..Cardinality(drawn) -> drawn] \subseteq Seq(Hashes)
  BY <1>1
<1> QED
  BY <1>2 DEF SetToSeqs

-----------------------------------------------------------------------------
(* Nothing is under way at first.                                          *)
LEMMA InitInv == Init => IInv
  BY SizeAssumption
     DEF Init, IInv, Numbers, Rounds, GoalIsAboveTarget

(* A start sets the sizes, and no round is under way.                      *)
LEMMA StartStep ==
    ASSUME IInv, NEW c \in Configs, Start(c)
    PROVE  IInv'
<1>1. used \in Int /\ other \in Int /\ Disk \in Int /\ Word \in Int /\ Word > 0
  BY SizeAssumption DEF IInv, Numbers
<1>2. c.max \in Int /\ c.rate \in Int /\ c.threshold \in Int
  BY ConfigAssumption, SizeAssumption
<1>3. maxSize' \in Int
  BY <1>1, <1>2 DEF Start, MaxCacheSize, Available
<1>4. RateOf(c.rate, 95) \in Int /\ RateOf(c.threshold, 80) \in Int
  BY <1>2 DEF RateOf
<1>5. limit' \in Int /\ target' \in Int
  <2>1. limit' = Part(maxSize', RateOf(c.rate, 95))
    BY DEF Start
  <2>2. target' = Part(maxSize', RateOf(c.threshold, 80))
    BY DEF Start
  <2> QED
    BY <1>3, <1>4, <2>1, <2>2 DEF Part
<1>6. /\ total' = used /\ up' /\ phase' = phase /\ phase = "idle"
      /\ UNCHANGED <<used, other, goal, done, lru>>
  BY DEF Start, IInv, Rounds, round, onDisk
<1>7. Numbers'
  BY <1>1, <1>5, <1>6 DEF IInv, Numbers
<1>8. Rounds'
  BY <1>6 DEF IInv, Rounds
<1>9. GoalIsAboveTarget'
  BY <1>6 DEF GoalIsAboveTarget
<1> QED
  BY <1>7, <1>8, <1>9 DEF IInv

(* What is no more than a difference fits above what was subtracted.       *)
LEMMA FitsAbove ==
    ASSUME NEW t \in Int, NEW a \in Int, NEW g \in Int, g <= t - a
    PROVE  t + 0 >= g + a
  OBVIOUS

(* The goal is set to what the cache has above the target.                 *)
LEMMA TickStep ==
    ASSUME IInv, Tick
    PROVE  IInv'
<1>1. Word \in Nat /\ Word > 0 /\ total \in Int /\ target \in Int /\ limit \in Int
  BY SizeAssumption DEF IInv, Numbers
<1>2. goal' \in Int
  BY <1>1 DEF Tick
<1>3. target <= limit => goal' <= total - target
  BY <1>1, ModLeq DEF Tick
<1>4. done = 0
  BY DEF Tick, IInv, Rounds
<1>5. /\ up /\ phase' = "draw"
      /\ UNCHANGED <<up, total, used, other, limit, target, lru, done>>
  BY DEF Tick, cached, onDisk, sizing
<1>6. Numbers'
  BY <1>2, <1>5 DEF IInv, Numbers
<1>7. Rounds'
  BY <1>5 DEF IInv, Rounds
<1>8. target <= limit => total + done >= goal' + target
  <2>1. goal' <= total - target => total + 0 >= goal' + target
    BY <1>1, <1>2, FitsAbove
  <2> QED
    BY <1>3, <1>4, <2>1
<1>9. GoalIsAboveTarget'
  BY <1>5, <1>8 DEF GoalIsAboveTarget
<1> QED
  BY <1>6, <1>7, <1>9 DEF IInv

(* Drawing changes no numbers.                                             *)
LEMMA DrawStep ==
    ASSUME IInv, Draw
    PROVE  IInv'
<1>1. lru' \in Seq(Hashes)
  BY DrawnSlices DEF Draw
<1>2. /\ up /\ phase = "draw" /\ phase' = "evict"
      /\ UNCHANGED <<up, total, used, other, limit, target, goal, done>>
  <2>1. phase = "draw" => up
    BY DEF IInv, Rounds
  <2> QED
    BY <2>1 DEF Draw, cached, onDisk, sizing
<1>3. Numbers'
  BY <1>2 DEF IInv, Numbers
<1>4. Rounds'
  BY <1>1, <1>2 DEF Rounds
<1>5. GoalIsAboveTarget'
  BY <1>2 DEF IInv, GoalIsAboveTarget
<1> QED
  BY <1>3, <1>4, <1>5 DEF IInv

(* What is taken from one and added to the other leaves the sum.           *)
LEMMA SameSum ==
    ASSUME NEW t \in Int, NEW d \in Int, NEW n \in Int
    PROVE  (t - n) + (d + n) = t + d
  OBVIOUS

(* What is evicted is taken off the total and added to what is done.       *)
LEMMA EvictStep ==
    ASSUME IInv, Evict
    PROVE  IInv'
<1>1. Head(lru) \in Hashes /\ Tail(lru) \in Seq(Hashes)
  BY DEF Evict, IInv, Rounds
<1>2. SliceSize[Head(lru)] \in Int
  BY <1>1, SizeAssumption
<1>3. /\ total' = total - SliceSize[Head(lru)] /\ done' = done + SliceSize[Head(lru)]
      /\ lru' = Tail(lru) /\ phase = "evict"
      /\ UNCHANGED <<up, used, other, limit, target, phase, goal>>
  BY DEF Evict, onDisk, sizing
<1>4. Numbers'
  <2>1. total' \in Int /\ done' \in Int
    BY <1>2, <1>3 DEF IInv, Numbers
  <2> QED
    BY <1>3, <2>1 DEF IInv, Numbers
<1>5. Rounds'
  BY <1>1, <1>3 DEF IInv, Rounds
<1>6. GoalIsAboveTarget'
  <2>1. total' + done' = total + done
    BY <1>2, <1>3, SameSum DEF IInv, Numbers
  <2> QED
    BY <1>3, <2>1 DEF IInv, GoalIsAboveTarget
<1> QED
  BY <1>4, <1>5, <1>6 DEF IInv

(* What is enough stays enough when there is more.                         *)
LEMMA MoreIsEnough ==
    ASSUME NEW t \in Int, NEW u \in Int, NEW d \in Int, NEW g \in Int, NEW a \in Int,
           t + d >= g + a, u >= t
    PROVE  u + d >= g + a
  OBVIOUS

(* A load adds to the total or leaves it, and a removal touches files only.*)
LEMMA TableStep ==
    ASSUME IInv, NEW h \in Hashes, LoadInCache(h) \/ RemoveFile(h)
    PROVE  IInv'
<1>1. SliceSize[h] \in Int /\ SliceSize[h] > 0
  BY SizeAssumption
<1>2. /\ used' \in Int /\ total' \in Int /\ total' >= total
      /\ UNCHANGED <<up, other, limit, target, phase, goal, lru, done>>
  BY <1>1 DEF LoadInCache, RemoveFile, IInv, Numbers, cached, sizing, round
<1>3. Numbers'
  BY <1>2 DEF IInv, Numbers
<1>4. Rounds'
  BY <1>2 DEF IInv, Rounds
<1>5. GoalIsAboveTarget'
  <2>1. total \in Int /\ done \in Int /\ goal \in Int /\ target \in Int
    BY DEF IInv, Numbers
  <2>2. total' \in Int /\ total' >= total
    BY <1>2
  <2>3. total + done >= goal + target => total' + done >= goal + target
    BY <2>1, <2>2, MoreIsEnough
  <2> QED
    BY <1>2, <2>3 DEF IInv, GoalIsAboveTarget
<1> QED
  BY <1>3, <1>4, <1>5 DEF IInv

LEMMA Step == IInv /\ [Next]_vars => IInv'
<1> SUFFICES ASSUME IInv, [Next]_vars PROVE IInv'
  OBVIOUS
<1>1. CASE Stop \/ DrawDies
  <2>1. Forget
    BY <1>1 DEF Stop, DrawDies
  <2>2. used' = used /\ other' \in Int
    <3>1. CASE Stop
      BY <3>1, SizeAssumption DEF Stop
    <3>2. CASE DrawDies
      BY <3>2 DEF DrawDies, onDisk, IInv, Numbers
    <3> QED
      BY <1>1, <3>1, <3>2
  <2>3. lru' \in Seq(Hashes)
    BY <2>1 DEF Forget
  <2>4. Numbers'
    BY <2>1, <2>2 DEF Forget, IInv, Numbers
  <2>5. Rounds' /\ GoalIsAboveTarget'
    BY <2>1, <2>3 DEF Forget, Rounds, GoalIsAboveTarget
  <2> QED
    BY <2>4, <2>5 DEF IInv
<1>2. CASE EndRound
  <2>1. /\ lru' = <<>> /\ phase' = "idle" /\ done' = 0 /\ goal' = 0
        /\ UNCHANGED <<up, total, used, other, limit, target>>
    BY <1>2 DEF EndRound, cached, onDisk, sizing
  <2>2. Numbers'
    BY <2>1 DEF IInv, Numbers
  <2>3. Rounds' /\ GoalIsAboveTarget'
    BY <2>1 DEF Rounds, GoalIsAboveTarget
  <2> QED
    BY <2>2, <2>3 DEF IInv
<1>3. ASSUME UNCHANGED <<up, total, used, other, limit, target, phase, goal, lru, done>>
      PROVE  IInv'
  BY <1>3 DEF IInv, Numbers, Rounds, GoalIsAboveTarget
<1>4. CASE SaveMetadata \/ UNCHANGED vars
  <2>1. UNCHANGED <<up, total, used, other, limit, target, phase, goal, lru, done>>
    BY <1>4 DEF SaveMetadata, vars, cached, onDisk, sizing, round
  <2> QED
    BY <1>3, <2>1
<1>5. ASSUME NEW c \in Configs, StartDies(c) PROVE IInv'
  <2>1. UNCHANGED <<up, total, used, other, limit, target, phase, goal, lru, done>>
    BY <1>5 DEF StartDies, cached, onDisk, sizing, round
  <2> QED
    BY <1>3, <2>1
<1> QED
  BY <1>1, <1>2, <1>4, <1>5, StartStep, TickStep, DrawStep, EvictStep, TableStep
     DEF Next, StrategyServer

LEMMA Invariant == Spec => []IInv
  BY InitInv, Step, PTL DEF Spec

-----------------------------------------------------------------------------
(* While the process runs only an eviction makes the cache smaller, and it *)
(* happens while the goal is not reached.                                  *)
LEMMA StopStep ==
    IInv /\ [Next]_vars /\ up /\ up' /\ total' < total /\ target <= limit => total > target
<1> SUFFICES ASSUME IInv, [Next]_vars, up, up', total' < total, target <= limit
             PROVE  total > target
  OBVIOUS
<1>1. total \in Int
  BY DEF IInv, Numbers
<1>2. ASSUME NEW h \in Hashes, LoadInCache(h) PROVE FALSE
  <2>1. SliceSize[h] \in Int /\ SliceSize[h] > 0
    BY SizeAssumption
  <2> QED
    BY <1>1, <1>2, <2>1 DEF LoadInCache
<1>3. Evict
  BY <1>1, <1>2
     DEF Next, StrategyServer, Start, StartDies, Stop, Forget, SaveMetadata, RemoveFile,
         Tick, Draw, DrawDies, EndRound, vars, cached
<1> QED
  BY <1>3 DEF Evict, IInv, Numbers, GoalIsAboveTarget

(* A round stops at the target.                                            *)
THEOREM RoundStopsAtTarget == Spec => StopsAtTarget
<1>1. IInv /\ [Next]_vars
      => [up /\ up' /\ total' < total /\ target <= limit => total > target]_vars
  BY StopStep
<1> QED
  BY <1>1, Invariant, PTL DEF Spec, StopsAtTarget

-----------------------------------------------------------------------------
(* The order of two members of a list.                                     *)
Comes(s, h, g) == \E i, j \in DOMAIN s : i < j /\ s[i] = h /\ s[j] = g

(* A list of distinct slices without one of them.                          *)
LEMMA RemoveFirstAt ==
    ASSUME NEW S, NEW s \in Seq(S), IsInjective(s), NEW k \in 1..Len(s)
    PROVE  RemoveFirst(s, s[k]) = RemoveAt(s, k)
<1> DEFINE I == {i \in 1..Len(s) : s[i] = s[k]}
<1>1. I = {k}
  BY DEF IsInjective
<1>2. Min(I) = k
  BY <1>1 DEF Min
<1>3. SelectInSeq(s, LAMBDA v : v = s[k]) = k
  BY <1>1, <1>2 DEF SelectInSeq
<1> QED
  BY <1>3 DEF RemoveFirst

LEMMA RemoveAtPlaces ==
    ASSUME NEW S, NEW s \in Seq(S), NEW k \in 1..Len(s)
    PROVE  /\ RemoveAt(s, k) \in Seq(S)
           /\ Len(RemoveAt(s, k)) = Len(s) - 1
           /\ \A i \in 1..Len(s)-1 : RemoveAt(s, k)[i] = IF i < k THEN s[i] ELSE s[i+1]
<1>1. Len(s) \in Nat /\ k \in Int /\ 1 <= k /\ k <= Len(s)
  OBVIOUS
<1>2. /\ SubSeq(s, 1, k-1) \in Seq(S) /\ Len(SubSeq(s, 1, k-1)) = k - 1
      /\ \A i \in 1..k-1 : SubSeq(s, 1, k-1)[i] = s[i]
  BY <1>1
<1>3. /\ SubSeq(s, k+1, Len(s)) \in Seq(S) /\ Len(SubSeq(s, k+1, Len(s))) = Len(s) - k
      /\ \A i \in 1..Len(s)-k : SubSeq(s, k+1, Len(s))[i] = s[k+i]
  BY <1>1
<1> DEFINE a == SubSeq(s, 1, k-1)
           b == SubSeq(s, k+1, Len(s))
<1>4. RemoveAt(s, k) = a \o b
  BY DEF RemoveAt
<1>5. /\ a \o b \in Seq(S) /\ Len(a \o b) = Len(s) - 1
      /\ \A i \in 1..Len(s)-1 : (a \o b)[i] = IF i < k THEN a[i] ELSE b[i-k+1]
  <2> HIDE DEF a, b
  <2>1. a \in Seq(S) /\ b \in Seq(S) /\ Len(a) = k - 1 /\ Len(b) = Len(s) - k
    BY <1>2, <1>3 DEF a, b
  <2>2. \A i \in 1..Len(a)+Len(b) : (a \o b)[i] = IF i <= Len(a) THEN a[i] ELSE b[i-Len(a)]
    BY <2>1, ConcatProperties
  <2>3. a \o b \in Seq(S) /\ Len(a \o b) = Len(a) + Len(b)
    BY <2>1, ConcatProperties
  <2> QED
    BY <1>1, <2>1, <2>2, <2>3
<1>6. ASSUME NEW i \in 1..Len(s)-1
      PROVE  (a \o b)[i] = IF i < k THEN s[i] ELSE s[i+1]
  <2>0. i \in Int
    BY <1>1
  <2>1. CASE i < k
    <3>1. i \in 1..k-1
      BY <1>1, <2>1
    <3>2. a[i] = s[i]
      BY <1>2, <3>1
    <3> HIDE DEF a, b
    <3> QED
      BY <1>5, <2>1, <3>2
  <2>2. CASE i >= k
    <3>1. i-k+1 \in 1..Len(s)-k /\ k + (i-k+1) = i+1
      BY <1>1, <2>2
    <3>2. b[i-k+1] = s[i+1]
      BY <1>3, <3>1
    <3> HIDE DEF a, b
    <3> QED
      BY <1>1, <1>5, <2>0, <2>2, <3>2
  <2>3. i < k \/ i >= k
    BY <1>1, <2>0
  <2> QED
    BY <2>1, <2>2, <2>3
<1> HIDE DEF a, b
<1> QED
  BY <1>4, <1>5, <1>6

LEMMA Without ==
    ASSUME NEW S, NEW s \in Seq(S), IsInjective(s), NEW h
    PROVE  /\ RemoveFirst(s, h) \in Seq(S) /\ IsInjective(RemoveFirst(s, h))
           /\ ToSet(RemoveFirst(s, h)) = ToSet(s) \ {h}
           /\ \A f, g : f # h /\ g # h /\ Comes(s, f, g) => Comes(RemoveFirst(s, h), f, g)
<1>1. CASE h \notin ToSet(s)
  <2>1. RemoveFirst(s, h) = s
    BY <1>1 DEF ToSet, RemoveFirst
  <2> QED
    BY <1>1, <2>1
<1>2. CASE h \in ToSet(s)
  <2>1. PICK k \in 1..Len(s) : s[k] = h
    BY <1>2 DEF ToSet
  <2> DEFINE r == RemoveFirst(s, h)
             n == Len(s) - 1
  <2>2. r = RemoveAt(s, k)
    BY <2>1, RemoveFirstAt
  <2>3. /\ r \in Seq(S) /\ Len(r) = n
        /\ \A i \in 1..n : r[i] = IF i < k THEN s[i] ELSE s[i+1]
    BY <2>2, RemoveAtPlaces
  <2>4. Len(s) \in Nat /\ k \in Int /\ 1 <= k /\ k <= Len(s) /\ DOMAIN r = 1..n
        /\ DOMAIN s = 1..Len(s)
    BY <2>3
  <2> HIDE DEF r
  <2>5. IsInjective(r)
    <3>0. DOMAIN r = 1..n
      BY <2>4
    <3> HIDE DEF n
    <3> SUFFICES ASSUME NEW i \in 1..n, NEW j \in 1..n, r[i] = r[j] PROVE i = j
      BY <3>0 DEF IsInjective
    <3> USE DEF n
    <3> DEFINE p == IF i < k THEN i ELSE i+1
               q == IF j < k THEN j ELSE j+1
    <3>1. r[i] = s[p] /\ r[j] = s[q]
      BY <2>3
    <3>2. p \in 1..Len(s) /\ q \in 1..Len(s) /\ (p = q => i = j)
      BY <2>4
    <3> HIDE DEF p, q
    <3> QED
      BY <2>4, <3>1, <3>2 DEF IsInjective
  <2>6. ASSUME NEW j \in 1..Len(s), j # k
        PROVE  IF j < k THEN j \in 1..n /\ r[j] = s[j] ELSE j-1 \in 1..n /\ r[j-1] = s[j]
    <3>1. CASE j < k
      BY <2>3, <2>4, <3>1
    <3>2. CASE j > k
      <4>1. j-1 \in 1..n /\ ~(j-1 < k) /\ (j-1)+1 = j
        BY <2>4, <3>2
      <4> QED
        BY <2>3, <3>2, <4>1
    <3> QED
      BY <2>4, <2>6, <3>1, <3>2
  <2>7. ToSet(r) = ToSet(s) \ {h}
    <3>1. ASSUME NEW i \in 1..n PROVE r[i] \in ToSet(s) /\ r[i] # h
      <4>1. CASE i < k
        BY <2>1, <2>3, <2>4, <4>1 DEF ToSet, IsInjective
      <4>2. CASE i >= k
        <5>1. i+1 \in 1..Len(s) /\ i+1 # k
          BY <2>4, <4>2
        <5>2. r[i] = s[i+1]
          BY <2>3, <2>4, <4>2
        <5> QED
          BY <2>1, <2>4, <5>1, <5>2 DEF ToSet, IsInjective
      <4> QED
        BY <2>4, <4>1, <4>2
    <3>2. ASSUME NEW j \in 1..Len(s), s[j] # h PROVE s[j] \in ToSet(r)
      <4>1. j # k
        BY <2>1, <3>2
      <4> QED
        BY <2>4, <2>6, <4>1 DEF ToSet
    <3> QED
      BY <2>4, <3>1, <3>2 DEF ToSet
  <2>8. ASSUME NEW f, NEW g, f # h, g # h, Comes(s, f, g) PROVE Comes(r, f, g)
    <3>1. PICK i \in 1..Len(s), j \in 1..Len(s) : i < j /\ s[i] = f /\ s[j] = g
      BY <2>4, <2>8 DEF Comes
    <3>2. i # k /\ j # k
      BY <2>1, <2>8, <3>1
    <3> DEFINE p == IF i < k THEN i ELSE i-1
               q == IF j < k THEN j ELSE j-1
    <3>3. p \in 1..n /\ q \in 1..n /\ r[p] = f /\ r[q] = g
      BY <2>6, <3>1, <3>2
    <3>4. p < q
      BY <2>4, <3>1, <3>2
    <3> HIDE DEF p, q
    <3> QED
      BY <2>4, <3>3, <3>4 DEF Comes
  <2> QED
    BY <2>3, <2>5, <2>7, <2>8 DEF r
<1> QED
  BY <1>1, <1>2

(* A list with one slice more at its end.                                  *)
LEMMA WithLast ==
    ASSUME NEW S, NEW s \in Seq(S), IsInjective(s), NEW h \in S, h \notin ToSet(s)
    PROVE  /\ Append(s, h) \in Seq(S) /\ IsInjective(Append(s, h))
           /\ ToSet(Append(s, h)) = ToSet(s) \cup {h}
           /\ \A f, g : Comes(s, f, g) => Comes(Append(s, h), f, g)
<1> DEFINE r == Append(s, h)
<1>1. /\ r \in Seq(S) /\ Len(r) = Len(s) + 1 /\ r[Len(s)+1] = h
      /\ \A i \in 1..Len(s) : r[i] = s[i]
  BY AppendProperties
<1>2. DOMAIN r = 1..Len(s)+1 /\ DOMAIN s = 1..Len(s) /\ Len(s) \in Nat
  BY <1>1
<1> HIDE DEF r
<1>3. \A i \in 1..Len(s) : r[i] # h /\ i \in 1..Len(s)+1
  BY <1>1, <1>2 DEF ToSet
<1>4. IsInjective(r)
  <2> SUFFICES ASSUME NEW a \in 1..Len(s)+1, NEW b \in 1..Len(s)+1, r[a] = r[b] PROVE a = b
    BY <1>2 DEF IsInjective
  <2>1. CASE a \in 1..Len(s) /\ b \in 1..Len(s)
    BY <1>1, <1>2, <2>1 DEF IsInjective
  <2> QED
    BY <1>1, <1>2, <1>3, <2>1
<1>5. ToSet(r) = ToSet(s) \cup {h}
  <2>1. ToSet(r) \subseteq ToSet(s) \cup {h}
    <3> SUFFICES ASSUME NEW i \in 1..Len(s)+1 PROVE r[i] \in ToSet(s) \cup {h}
      BY <1>2 DEF ToSet
    <3>1. CASE i = Len(s)+1
      BY <1>1, <3>1
    <3>2. CASE i \in 1..Len(s)
      BY <1>1, <1>2, <3>2 DEF ToSet
    <3> QED
      BY <1>2, <3>1, <3>2
  <2>2. h \in ToSet(r)
    BY <1>1, <1>2 DEF ToSet
  <2>3. ToSet(s) \subseteq ToSet(r)
    BY <1>1, <1>2, <1>3 DEF ToSet
  <2> QED
    BY <2>1, <2>2, <2>3
<1>6. ASSUME NEW f, NEW g, Comes(s, f, g) PROVE Comes(r, f, g)
  BY <1>1, <1>2, <1>3, <1>6 DEF Comes
<1> QED
  BY <1>1, <1>4, <1>5, <1>6 DEF r

(* The lists of the members of a set.                                      *)
LEMMA ListOf ==
    ASSUME NEW T, IsFiniteSet(T), NEW s \in SetToSeqs(T)
    PROVE  s \in Seq(T) /\ IsInjective(s) /\ ToSet(s) = T
<1> DEFINE n == Cardinality(T)
<1>1. n \in Nat
  BY FS_CardinalityType
<1>2. s \in [1..n -> T] /\ IsInjective(s)
  BY DEF SetToSeqs, IsInjective
<1>3. s \in Injection(1..n, T)
  BY <1>2 DEF Injection
<1>4. IsFiniteSet(1..n) /\ Cardinality(1..n) = n
  BY <1>1, FS_Interval
<1>5. s \in Surjection(1..n, T)
  BY <1>3, <1>4, FS_Injection
<1>6. s \in Seq(T)
  BY <1>1, <1>2
<1> QED
  BY <1>2, <1>5, <1>6 DEF Surjection, ToSet

(* Of two members of a list one comes first, and only one.                 *)
LEMMA OneFirst ==
    ASSUME NEW S, NEW s \in Seq(S), IsInjective(s), NEW f, NEW g, Comes(s, f, g)
    PROVE  f # g /\ ~ Comes(s, g, f)
  BY DEF Comes, IsInjective

-----------------------------------------------------------------------------
(* The types, as what the steps change together.                           *)
TableTypes ==
    /\ table \in Seq(Hashes) /\ IsInjective(table)
    /\ total = Bytes(Cached)
    /\ Cached \subseteq files /\ files \subseteq Hashes
    /\ used = Bytes(files) /\ Available >= 0
    /\ other \in Others

SavedTypes == saved \in Seq(Hashes) /\ IsInjective(saved)

SizeTypes ==
    /\ wrapped \in BOOLEAN
    /\ maxSize \in 0..Word-1 /\ limit \in 0..maxSize /\ target \in 0..maxSize

RoundTypes ==
    /\ phase \in {"idle", "draw", "evict"}
    /\ goal \in 0..Word-1 /\ done \in Nat
    /\ lru \in Seq(Hashes) /\ ToSet(lru) \subseteq Cached
    /\ fresh \subseteq ToSet(lru)

CountTypes == up \in BOOLEAN /\ starts \in 0..MaxStarts

(* A process that ended has no table, and a round that is not evicting has *)
(* drawn nothing.                                                          *)
Quiet ==
    /\ ~ up => phase = "idle" /\ table = <<>> /\ total = 0
    /\ phase # "evict" => lru = <<>>

(* The round looks at every slice it has drawn once, and at those that were*)
(* not loaded again in the order in which they are in the table.           *)
InOrder ==
    \A i, j \in DOMAIN lru :
        i < j /\ lru[i] \notin fresh /\ lru[j] \notin fresh => Comes(table, lru[i], lru[j])

Drawn == IsInjective(lru) /\ InOrder

(* What the cacher took for itself at its start is not with other programs.*)
Offered == up /\ ~ wrapped => maxSize <= Disk - other

TableInv ==
    /\ TableTypes /\ SavedTypes /\ SizeTypes /\ RoundTypes /\ CountTypes
    /\ Quiet /\ Drawn /\ Offered

LEMMA Types == TableInv => TypeOK
  BY DEF TableInv, TableTypes, SavedTypes, SizeTypes, RoundTypes, CountTypes, TypeOK

(* What a step leaves alone.                                               *)
LEMMA TableKept ==
    TableTypes /\ UNCHANGED <<table, total, files, used, other>> => TableTypes'
  BY DEF TableTypes, Cached, Available

LEMMA SizesKept == SizeTypes /\ UNCHANGED sizing => SizeTypes'
  BY DEF SizeTypes, sizing

LEMMA RoundKept ==
    RoundTypes /\ Drawn /\ UNCHANGED <<table, round>> => RoundTypes' /\ Drawn'
<1> SUFFICES ASSUME RoundTypes, Drawn, UNCHANGED <<table, round>>
             PROVE  RoundTypes' /\ Drawn'
  OBVIOUS
<1>1. UNCHANGED <<table, phase, goal, done, lru, fresh>>
  BY DEF round
<1>2. RoundTypes'
  BY <1>1 DEF RoundTypes, Cached
<1>3. Drawn'
  BY <1>1 DEF Drawn, InOrder, Comes
<1> QED
  BY <1>2, <1>3

(* The bytes of slices.                                                    *)
LEMMA BytesOf ==
    /\ Bytes({}) = 0
    /\ \A T \in SUBSET Hashes : Bytes(T) \in Nat
    /\ \A T \in SUBSET Hashes : \A x \in T : Bytes(T) = SliceSize[x] + Bytes(T \ {x})
    /\ \A T \in SUBSET Hashes : \A U \in SUBSET T : Bytes(U) <= Bytes(T)
<1>1. IsFiniteSet(Hashes) /\ \A x \in Hashes : SliceSize[x] \in Nat
  BY SizeAssumption
<1>2. \A x \in Hashes : SliceSize[x] \in Int
  BY <1>1
<1>3. Bytes({}) = 0
  BY SumEmpty DEF Bytes
<1>4. \A T \in SUBSET Hashes : Bytes(T) \in Nat
  BY <1>1, SumNat DEF Bytes
<1>5. ASSUME NEW T \in SUBSET Hashes, NEW x \in T
      PROVE  Bytes(T) = SliceSize[x] + Bytes(T \ {x})
  <2>1. IsFiniteSet(Hashes)
    BY <1>1
  <2>2. SumFunctionOnSet(SliceSize, T)
          = SliceSize[x] + SumFunctionOnSet(SliceSize, T \ {x})
    BY <1>2, <2>1, SumRemove
  <2> QED
    BY <2>2 DEF Bytes
<1>6. ASSUME NEW T \in SUBSET Hashes, NEW U \in SUBSET T PROVE Bytes(U) <= Bytes(T)
  <2>1. U \in SUBSET Hashes
    OBVIOUS
  <2> QED
    BY <1>1, <2>1, SumWider DEF Bytes
<1> QED
  BY <1>3, <1>4, <1>5, <1>6

(* One slice more.                                                         *)
LEMMA BytesWith ==
    ASSUME NEW T \in SUBSET Hashes, NEW h \in Hashes
    PROVE  Bytes(T \cup {h}) = IF h \in T THEN Bytes(T) ELSE Bytes(T) + SliceSize[h]
<1>1. CASE h \in T
  <2>1. T \cup {h} = T
    BY <1>1
  <2> QED
    BY <1>1, <2>1
<1>2. CASE h \notin T
  <2>1. (T \cup {h}) \ {h} = T
    BY <1>2
  <2>2. Bytes(T \cup {h}) = SliceSize[h] + Bytes(T)
    <3>1. T \cup {h} \in SUBSET Hashes /\ h \in T \cup {h}
      OBVIOUS
    <3> QED
      BY <2>1, <3>1, BytesOf
  <2>3. SliceSize[h] \in Int /\ Bytes(T) \in Int
    BY BytesOf, SizeAssumption
  <2> QED
    BY <1>2, <2>2, <2>3
<1> QED
  BY <1>1, <1>2

(* A part of a size is no more than it.                                    *)
LEMMA PartOf ==
    ASSUME NEW s \in Nat, NEW r \in 0..100
    PROVE  Part(s, r) \in 0..s
<1> DEFINE p == s * r
<1>1. s * 100 = p + s * (100 - r)
  <2>1. r \in Int /\ 100 - r \in Int /\ s \in Int
    OBVIOUS
  <2>2. s * (r + (100 - r)) = s * r + s * (100 - r)
    BY <2>1, TimesSum
  <2>3. r + (100 - r) = 100
    BY <2>1
  <2> QED
    BY <2>2, <2>3
<1>2. p \in Nat /\ s * (100 - r) \in Nat
  OBVIOUS
<1>3. p <= s * 100
  <2> HIDE DEF p
  <2>1. s * (100 - r) \in Nat
    BY <1>2
  <2> DEFINE q == s * (100 - r)
  <2>2. s * 100 = p + q /\ q \in Nat /\ p \in Nat
    BY <1>1, <1>2
  <2> HIDE DEF q
  <2> QED
    BY <2>2
<1>4. p \div 100 \in 0..s
  <2> HIDE DEF p
  <2> QED
    BY <1>2, <1>3
<1> QED
  BY <1>4 DEF Part

LEMMA EmptyList ==
    /\ <<>> \in Seq(Hashes) /\ IsInjective(<<>>) /\ ToSet(<<>>) = {}
    /\ \A f, g : ~ Comes(<<>>, f, g)
  BY DEF IsInjective, ToSet, Comes

(* An empty disk and no process.                                           *)
LEMMA InitTable == Init => TableInv
<1> SUFFICES ASSUME Init PROVE TableInv
  OBVIOUS
<1>1. /\ up = FALSE /\ table = <<>> /\ total = 0 /\ files = {} /\ used = 0
      /\ saved = <<>> /\ other \in Others /\ lru = <<>> /\ fresh = {}
      /\ maxSize = 0 /\ limit = 0 /\ target = 0 /\ wrapped = FALSE
      /\ phase = "idle" /\ goal = 0 /\ done = 0 /\ starts = 0
  BY DEF Init
<1>2. TableTypes
  <2>1. Available >= 0
    BY <1>1, SizeAssumption DEF Available
  <2> QED
    BY <1>1, <2>1, EmptyList, BytesOf DEF TableTypes, Cached
<1>3. 0 \in 0..Word-1 /\ 0 \in 0..0 /\ 0 \in 0..MaxStarts
  BY SizeAssumption, StartsAssumption
<1>4. SavedTypes
  BY <1>1, EmptyList DEF SavedTypes
<1>5. SizeTypes /\ CountTypes
  BY <1>1, <1>3 DEF SizeTypes, CountTypes
<1>6. RoundTypes
  BY <1>1, <1>3, EmptyList DEF RoundTypes
<1>7. Drawn
  BY <1>1, EmptyList DEF Drawn, InOrder
<1>8. Quiet /\ Offered
  BY <1>1 DEF Quiet, Offered
<1> QED
  BY <1>2, <1>4, <1>5, <1>6, <1>7, <1>8 DEF TableInv

(* What fits beside others leaves nothing negative.                         *)
LEMMA Difference ==
    ASSUME NEW d \in Int, NEW u \in Int, NEW o \in Int, o <= d - u
    PROVE  d - o - u >= 0
  OBVIOUS

(* The end of the process leaves the files.                                *)
LEMMA ForgetKeeps ==
    ASSUME TableInv, Forget, other' \in Others, other' <= Disk - used,
           UNCHANGED <<files, used, saved, starts>>
    PROVE  TableInv'
<1>1. /\ up' = FALSE /\ table' = <<>> /\ total' = 0 /\ lru' = <<>> /\ fresh' = {}
      /\ maxSize' = 0 /\ limit' = 0 /\ target' = 0 /\ wrapped' = FALSE
      /\ phase' = "idle" /\ goal' = 0 /\ done' = 0
  BY DEF Forget
<1>2. TableTypes'
  <2>1. Available' >= 0
    <3>1. used \in Int /\ used' = used
      BY BytesOf DEF TableInv, TableTypes
    <3>2. other' \in Int /\ Disk \in Int /\ other' <= Disk - used
      BY SizeAssumption
    <3>3. Disk - other' - used >= 0
      BY <3>1, <3>2, Difference
    <3> QED
      BY <3>1, <3>3 DEF Available
  <2>2. Cached' = {} /\ total' = Bytes(Cached')
    BY <1>1, EmptyList, BytesOf DEF Cached
  <2>3. used' = Bytes(files') /\ files' \subseteq Hashes
    BY DEF TableInv, TableTypes
  <2> QED
    BY <1>1, <2>1, <2>2, <2>3, EmptyList DEF TableTypes
<1>3. 0 \in 0..Word-1 /\ 0 \in 0..0
  BY SizeAssumption
<1>4. SavedTypes'
  BY DEF TableInv, SavedTypes
<1>5. SizeTypes' /\ CountTypes'
  BY <1>1, <1>3 DEF TableInv, SizeTypes, CountTypes
<1>6. RoundTypes'
  BY <1>1, <1>3, EmptyList DEF RoundTypes
<1>7. Drawn'
  BY <1>1, EmptyList DEF Drawn, InOrder
<1>8. Quiet' /\ Offered'
  BY <1>1 DEF Quiet, Offered
<1> QED
  BY <1>2, <1>4, <1>5, <1>6, <1>7, <1>8 DEF TableInv

(* A start takes the files that are there, and no more than the disk has   *)
(* free, unless the difference wraps around.                               *)
LEMMA StartKeeps ==
    ASSUME TableInv, NEW c \in Configs, Start(c)
    PROVE  TableInv'
<1>1. /\ files \in SUBSET Hashes /\ IsFiniteSet(files) /\ used \in Nat
      /\ other \in 0..Disk /\ Available >= 0 /\ used = Bytes(files)
  <2>1. files \in SUBSET Hashes /\ used = Bytes(files) /\ Available >= 0 /\ other \in 0..Disk
    BY SizeAssumption DEF TableInv, TableTypes
  <2>2. used \in Nat
    BY <2>1, BytesOf
  <2> QED
    BY <2>1, <2>2, SizeAssumption, FS_Subset
<1>2. table' \in Seq(files) /\ IsInjective(table') /\ ToSet(table') = files
  BY <1>1, ListOf DEF Start
<1>3. TableTypes'
  <2>1. table' \in Seq(Hashes)
    BY <1>1, <1>2
  <2>2. UNCHANGED <<files, used, other>> /\ total' = used /\ Cached' = files
    BY <1>2 DEF Start, onDisk, Cached
  <2>3. other' \in Others /\ Available' >= 0
    BY <2>2 DEF TableInv, TableTypes, Available
  <2> QED
    BY <1>1, <1>2, <2>1, <2>2, <2>3 DEF TableTypes
<1>4. Word \in Nat /\ Disk \in Nat /\ Word > 4 * Disk /\ Word > 0 /\ Available \in Int
  BY <1>1, SizeAssumption DEF Available
<1>5. /\ c.max \in 0..Word-1 /\ RateOf(c.rate, 95) \in 0..100
      /\ RateOf(c.threshold, 80) \in 0..100
  BY ConfigAssumption DEF RateOf, IsRateValue
<1>6. maxSize' \in 0..Word-1 /\ maxSize' <= (Available - used) % Word
  <2> DEFINE left == (Available - used) % Word
  <2>1. left \in 0..Word-1
    BY <1>1, <1>4
  <2> HIDE DEF left
  <2>2. maxSize' = IF c.max > 0 /\ c.max < left THEN c.max ELSE left
    BY DEF Start, MaxCacheSize, left
  <2>3. maxSize' \in 0..Word-1 /\ maxSize' <= left
    BY <1>4, <1>5, <2>1, <2>2
  <2> QED
    BY <2>3 DEF left
<1>7. SizeTypes'
  <2>1. maxSize' \in Nat
    BY <1>4, <1>6
  <2>2. limit' \in 0..maxSize' /\ target' \in 0..maxSize'
    BY <1>5, <2>1, PartOf DEF Start
  <2>3. wrapped' \in BOOLEAN
    BY DEF Start
  <2> QED
    BY <1>6, <2>2, <2>3 DEF SizeTypes
<1>8. Offered'
  <2> SUFFICES ASSUME ~ wrapped' PROVE maxSize' <= Disk - other'
    BY DEF Offered
  <2>0. ~ (used > Available)
    BY Zenon DEF Start
  <2>1. used <= Available
    BY <1>1, <1>4, <2>0
  <2>2. Available - used \in 0..Word-1 /\ Available - used <= Disk - other
    BY <1>1, <1>4, <2>1 DEF Available
  <2>3. (Available - used) % Word = Available - used
    BY <1>4, <2>2
  <2>4. other' = other
    BY DEF Start, onDisk
  <2> QED
    BY <1>1, <1>4, <1>6, <2>2, <2>3, <2>4
<1>9. lru = <<>> /\ phase = "idle" /\ lru' = lru /\ phase' = phase /\ up'
      /\ UNCHANGED <<goal, done, fresh, saved>>
  BY DEF TableInv, Quiet, Start, round, onDisk
<1>10. fresh = {}
  BY <1>9, EmptyList DEF TableInv, RoundTypes
<1>11. RoundTypes'
  BY <1>9, <1>10, EmptyList DEF TableInv, RoundTypes
<1>12. Drawn' /\ Quiet'
  BY <1>9, EmptyList DEF Drawn, InOrder, Quiet
<1>13. SavedTypes' /\ CountTypes'
  BY <1>9, StartsAssumption DEF Start, TableInv, SavedTypes, CountTypes
<1> QED
  BY <1>3, <1>7, <1>8, <1>11, <1>12, <1>13 DEF TableInv

(* A loaded slice gets an entry at the end, and its file.                  *)
LEMMA LoadKeeps ==
    ASSUME TableInv, NEW h \in Hashes, LoadInCache(h)
    PROVE  TableInv'
<1>1. /\ table \in Seq(Hashes) /\ IsInjective(table) /\ Cached \subseteq files
      /\ files \in SUBSET Hashes /\ Cached \in SUBSET Hashes
  BY DEF TableInv, TableTypes
<1> DEFINE rest == RemoveFirst(table, h)
<1>2. /\ rest \in Seq(Hashes) /\ IsInjective(rest) /\ ToSet(rest) = ToSet(table) \ {h}
      /\ \A f, g : f # h /\ g # h /\ Comes(table, f, g) => Comes(rest, f, g)
  BY <1>1, Without
<1>3. /\ table' \in Seq(Hashes) /\ IsInjective(table') /\ ToSet(table') = ToSet(rest) \cup {h}
      /\ \A f, g : Comes(rest, f, g) => Comes(table', f, g)
  <2>1. table' = Append(rest, h) /\ h \notin ToSet(rest)
    BY <1>2 DEF LoadInCache
  <2> HIDE DEF rest
  <2> QED
    BY <1>2, <2>1, WithLast
<1> HIDE DEF rest
<1>4. Cached' = Cached \cup {h}
  BY <1>2, <1>3 DEF Cached
<1>5. total' = Bytes(Cached')
  BY <1>1, <1>4, BytesWith DEF LoadInCache, TableInv, TableTypes
<1>6. used' = Bytes(files') /\ files' = files \cup {h}
  BY <1>1, BytesWith DEF LoadInCache, TableInv, TableTypes
<1>7. other' = other /\ Available' >= 0
  <2>1. used \in Int /\ other \in Int /\ Disk \in Int /\ SliceSize[h] \in Int
    BY <1>1, BytesOf, SizeAssumption DEF TableInv, TableTypes
  <2>2. Available >= 0 /\ other' = other
    BY DEF LoadInCache, TableInv, TableTypes
  <2> QED
    BY <2>1, <2>2 DEF LoadInCache, Available
<1>8. TableTypes'
  <2>1. Cached' \subseteq files' /\ files' \subseteq Hashes
    BY <1>1, <1>4, <1>6
  <2>2. other' \in Others
    BY <1>7 DEF TableInv, TableTypes
  <2> QED
    BY <1>3, <1>5, <1>6, <1>7, <2>1, <2>2 DEF TableTypes
<1>9. /\ UNCHANGED <<up, saved, maxSize, limit, target, wrapped, phase, goal, lru, done, starts>>
      /\ fresh' = fresh \cup ({h} \cap ToSet(lru))
  BY DEF LoadInCache, sizing
<1>10. SavedTypes' /\ SizeTypes' /\ CountTypes' /\ Offered'
  BY <1>7, <1>9 DEF TableInv, SavedTypes, SizeTypes, CountTypes, Offered
<1>11. RoundTypes'
  BY <1>4, <1>9 DEF TableInv, RoundTypes
<1>12. Quiet'
  BY <1>9 DEF TableInv, Quiet, LoadInCache
<1>13. Drawn'
  <2>1. ASSUME NEW i \in DOMAIN lru, NEW j \in DOMAIN lru, i < j,
               lru[i] \notin fresh', lru[j] \notin fresh'
        PROVE  Comes(table', lru[i], lru[j])
    <3>1. lru[i] \in ToSet(lru) /\ lru[j] \in ToSet(lru)
      BY DEF ToSet
    <3>2. lru[i] # h /\ lru[j] # h /\ lru[i] \notin fresh /\ lru[j] \notin fresh
      BY <1>9, <2>1, <3>1
    <3>3. Comes(table, lru[i], lru[j])
      BY <2>1, <3>2 DEF TableInv, Drawn, InOrder
    <3> QED
      BY <1>2, <1>3, <3>2, <3>3
  <2> QED
    BY <1>9, <2>1 DEF TableInv, Drawn, InOrder
<1> QED
  BY <1>8, <1>10, <1>11, <1>12, <1>13 DEF TableInv

(* The file of a slice that is not in the table.                           *)
LEMMA RemoveFileKeeps ==
    ASSUME TableInv, NEW h \in Hashes, RemoveFile(h)
    PROVE  TableInv'
<1>1. /\ h \in files \ Cached /\ files' = files \ {h} /\ used' = used - SliceSize[h]
      /\ UNCHANGED <<up, table, total, saved, other, sizing, round, starts>>
  BY DEF RemoveFile, cached
<1>2. TableTypes'
  <2>1. files \in SUBSET Hashes /\ h \in files /\ used = Bytes(files)
    BY <1>1 DEF TableInv, TableTypes
  <2>2. Bytes(files) = SliceSize[h] + Bytes(files \ {h})
    BY <2>1, BytesOf
  <2>3. Bytes(files \ {h}) \in Int /\ SliceSize[h] \in 1..Disk /\ other \in Int /\ Disk \in Int
    BY <2>1, BytesOf, SizeAssumption DEF TableInv, TableTypes
  <2>4. used' = Bytes(files') /\ Available' >= 0
    <3>1. Available >= 0
      BY DEF TableInv, TableTypes
    <3> QED
      BY <1>1, <2>1, <2>2, <2>3, <3>1 DEF Available
  <2>5. Cached' = Cached
    BY <1>1 DEF Cached
  <2> QED
    BY <1>1, <2>4, <2>5 DEF TableInv, TableTypes
<1>3. RoundTypes' /\ Drawn'
  BY <1>1, RoundKept DEF TableInv
<1>4. SavedTypes' /\ SizeTypes' /\ CountTypes' /\ Quiet' /\ Offered'
  BY <1>1, SizesKept DEF TableInv, SavedTypes, CountTypes, Quiet, Offered, sizing, round
<1> QED
  BY <1>2, <1>3, <1>4 DEF TableInv

(* The strategy: a goal is a word.                                         *)
LEMMA TickKeeps ==
    ASSUME TableInv, Tick
    PROVE  TableInv'
<1>1. /\ UNCHANGED <<table, total, files, used, saved, other, starts, up>>
      /\ UNCHANGED <<sizing, maxSize, wrapped, lru, done, fresh>>
      /\ phase = "idle" /\ phase' = "draw" /\ up /\ goal' = (total - target) % Word
  BY DEF Tick, cached, onDisk, sizing
<1>2. goal' \in 0..Word-1
  <2>1. total \in Int
    BY BytesOf DEF TableInv, TableTypes
  <2>2. target \in Int
    BY DEF TableInv, SizeTypes
  <2>3. Word \in Nat /\ Word > 0
    BY SizeAssumption
  <2> QED
    BY <1>1, <2>1, <2>2, <2>3
<1>3. TableTypes' /\ SizeTypes'
  BY <1>1, TableKept, SizesKept DEF TableInv
<1>4. SavedTypes' /\ CountTypes' /\ Offered'
  BY <1>1 DEF TableInv, SavedTypes, CountTypes, Offered
<1>5. RoundTypes'
  BY <1>1, <1>2 DEF TableInv, RoundTypes, Cached
<1>6. Drawn'
  BY <1>1 DEF TableInv, Drawn, InOrder, Comes
<1>7. Quiet'
  BY <1>1 DEF TableInv, Quiet
<1> QED
  BY <1>3, <1>4, <1>5, <1>6, <1>7 DEF TableInv

(* What is drawn is in the table, and sorted as it is.                     *)
LEMMA DrawKeeps ==
    ASSUME TableInv, Draw
    PROVE  TableInv'
<1>1. /\ UNCHANGED <<table, total, files, used, saved, other, starts, up>>
      /\ UNCHANGED <<sizing, maxSize, wrapped, goal, done, fresh>>
      /\ phase = "draw" /\ phase' = "evict"
  BY DEF Draw, cached, onDisk, sizing
<1>2. PICK drawn \in SUBSET Hashes :
        /\ drawn \subseteq Cached
        /\ lru' \in SetToSeqs(drawn) /\ Sorted(lru')
  BY DEF Draw
<1>3. IsFiniteSet(drawn)
  BY SizeAssumption, FS_Subset
<1>4. lru' \in Seq(drawn) /\ IsInjective(lru') /\ ToSet(lru') = drawn
  BY <1>2, <1>3, ListOf
<1>5. lru' \in Seq(Hashes)
  BY <1>4
<1>6. fresh = {}
  <2>1. lru = <<>>
    BY <1>1 DEF TableInv, Quiet
  <2> QED
    BY <2>1, EmptyList DEF TableInv, RoundTypes
<1>7. TableTypes' /\ SizeTypes'
  BY <1>1, TableKept, SizesKept DEF TableInv
<1>8. SavedTypes' /\ CountTypes' /\ Offered'
  BY <1>1 DEF TableInv, SavedTypes, CountTypes, Offered
<1>9. RoundTypes'
  <2>1. ToSet(lru') \subseteq Cached'
    BY <1>1, <1>2, <1>4 DEF Cached
  <2>2. fresh' \subseteq ToSet(lru')
    BY <1>1, <1>6
  <2> QED
    BY <1>1, <1>5, <2>1, <2>2 DEF TableInv, RoundTypes
<1>10. Drawn'
  <2>1. \A i, j \in DOMAIN lru' : i < j => Comes(table', lru'[i], lru'[j])
    BY <1>1, <1>2 DEF Sorted, Before, Comes
  <2> QED
    BY <1>4, <2>1 DEF Drawn, InOrder
<1>11. Quiet'
  BY <1>1 DEF TableInv, Quiet
<1> QED
  BY <1>7, <1>8, <1>9, <1>10, <1>11 DEF TableInv

(* The rest of a list of distinct slices.                                  *)
LEMMA RestOf ==
    ASSUME NEW S, NEW s \in Seq(S), IsInjective(s), s # <<>>
    PROVE  /\ Head(s) = s[1] /\ 1 \in DOMAIN s /\ Head(s) \in ToSet(s)
           /\ Tail(s) \in Seq(S) /\ IsInjective(Tail(s))
           /\ ToSet(Tail(s)) = ToSet(s) \ {Head(s)}
           /\ \A i \in DOMAIN Tail(s) : i + 1 \in DOMAIN s /\ Tail(s)[i] = s[i + 1]
           /\ \A j \in DOMAIN s : j = 1 \/ j - 1 \in DOMAIN Tail(s)
           /\ DOMAIN s \subseteq Nat /\ DOMAIN Tail(s) \subseteq Nat
<1>1. /\ Len(s) \in Nat /\ Len(s) >= 1 /\ DOMAIN s = 1..Len(s) /\ Head(s) = s[1]
      /\ Tail(s) \in Seq(S) /\ DOMAIN Tail(s) = 1..Len(s)-1
      /\ \A i \in 1..Len(s)-1 : Tail(s)[i] = s[i+1]
  OBVIOUS
<1> DEFINE t == Tail(s)
           h == Head(s)
<1> HIDE DEF t, h
<1>2. \A i \in DOMAIN t : i + 1 \in DOMAIN s /\ t[i] = s[i + 1] /\ i \in Nat /\ i >= 1
  BY <1>1 DEF t
<1>3. \A j \in DOMAIN s : j \in Nat /\ (j = 1 \/ (j - 1 \in DOMAIN t /\ t[j - 1] = s[j]))
  <2> SUFFICES ASSUME NEW j \in DOMAIN s, j # 1
               PROVE  j - 1 \in DOMAIN t /\ t[j - 1] = s[j]
    BY <1>1
  <2>1. j - 1 \in 1..Len(s)-1 /\ (j - 1) + 1 = j
    BY <1>1
  <2> QED
    BY <1>1, <2>1 DEF t
<1>4. h = s[1] /\ 1 \in DOMAIN s
  BY <1>1 DEF h
<1>5. IsInjective(t)
  <2> SUFFICES ASSUME NEW a \in DOMAIN t, NEW b \in DOMAIN t, t[a] = t[b] PROVE a = b
    BY DEF IsInjective
  <2>1. a + 1 \in DOMAIN s /\ b + 1 \in DOMAIN s /\ s[a + 1] = s[b + 1]
    BY <1>2
  <2>2. a + 1 = b + 1
    BY <2>1 DEF IsInjective
  <2> QED
    BY <1>2, <2>2
<1>6. ToSet(t) = ToSet(s) \ {h}
  <2>1. ASSUME NEW i \in DOMAIN t PROVE t[i] \in ToSet(s) \ {h}
    <3>1. i + 1 \in DOMAIN s /\ i + 1 # 1 /\ t[i] = s[i+1]
      BY <1>2
    <3> QED
      BY <1>4, <3>1 DEF ToSet, IsInjective
  <2>2. ASSUME NEW j \in DOMAIN s, s[j] # h PROVE s[j] \in ToSet(t)
    BY <1>3, <1>4, <2>2 DEF ToSet
  <2> QED
    BY <2>1, <2>2 DEF ToSet
<1> QED
  BY <1>1, <1>2, <1>3, <1>4, <1>5, <1>6 DEF t, h, ToSet

(* The first of the drawn slices leaves the table and the list.            *)
LEMMA EvictKeeps ==
    ASSUME TableInv, Evict
    PROVE  TableInv'
<1> DEFINE h == Head(lru)
<1>1. /\ UNCHANGED <<files, used, saved, other, sizing, phase, goal, starts, up>>
      /\ UNCHANGED <<maxSize, wrapped>>
      /\ lru # <<>> /\ lru' = Tail(lru) /\ phase = "evict"
      /\ done' = done + SliceSize[h] /\ total' = total - SliceSize[h]
      /\ table' = RemoveFirst(table, h) /\ fresh' = fresh \ {h}
  BY DEF Evict, onDisk, sizing
<1>2. /\ lru \in Seq(Hashes) /\ IsInjective(lru) /\ ToSet(lru) \subseteq Cached
      /\ fresh \subseteq ToSet(lru) /\ done \in Nat
  BY DEF TableInv, RoundTypes, Drawn
<1>3. /\ h = lru[1] /\ 1 \in DOMAIN lru /\ h \in ToSet(lru)
      /\ lru' \in Seq(Hashes) /\ IsInjective(lru') /\ ToSet(lru') = ToSet(lru) \ {h}
      /\ \A i \in DOMAIN lru' : i + 1 \in DOMAIN lru /\ lru'[i] = lru[i + 1]
      /\ DOMAIN lru' \subseteq Nat
  BY <1>1, <1>2, RestOf
<1> HIDE DEF h
<1>4. /\ table \in Seq(Hashes) /\ IsInjective(table) /\ Cached \subseteq files
      /\ files \in SUBSET Hashes /\ Cached \in SUBSET Hashes /\ h \in Cached /\ h \in Hashes
      /\ total = Bytes(Cached) /\ used = Bytes(files)
  BY <1>2, <1>3 DEF TableInv, TableTypes
<1>5. /\ table' \in Seq(Hashes) /\ IsInjective(table') /\ Cached' = Cached \ {h}
      /\ \A f, g : f # h /\ g # h /\ Comes(table, f, g) => Comes(table', f, g)
  BY <1>1, <1>4, Without DEF Cached
<1>6. SliceSize[h] \in Nat
  BY <1>4, SizeAssumption
<1>7. total' = Bytes(Cached')
  <2>1. Bytes(Cached) = SliceSize[h] + Bytes(Cached \ {h})
    BY <1>4, BytesOf
  <2>2. Bytes(Cached \ {h}) \in Int
    BY <1>4, BytesOf
  <2> QED
    BY <1>1, <1>4, <1>5, <1>6, <2>1, <2>2
<1>8. TableTypes'
  <2>1. Cached' \subseteq files' /\ files' \subseteq Hashes /\ used' = Bytes(files')
    BY <1>1, <1>4, <1>5
  <2>2. other' \in Others /\ Available' >= 0
    BY <1>1 DEF TableInv, TableTypes, Available
  <2> QED
    BY <1>5, <1>7, <2>1, <2>2 DEF TableTypes
<1>9. RoundTypes'
  <2>1. done' \in Nat
    BY <1>1, <1>2, <1>6
  <2>2. ToSet(lru') \subseteq Cached' /\ fresh' \subseteq ToSet(lru')
    BY <1>1, <1>2, <1>3, <1>5
  <2> QED
    BY <1>1, <1>3, <2>1, <2>2 DEF TableInv, RoundTypes
<1>10. InOrder'
  <2>1. ASSUME NEW i \in DOMAIN lru', NEW j \in DOMAIN lru', i < j,
               lru'[i] \notin fresh', lru'[j] \notin fresh'
        PROVE  Comes(table', lru'[i], lru'[j])
    <3>1. /\ i + 1 \in DOMAIN lru /\ lru'[i] = lru[i + 1]
          /\ j + 1 \in DOMAIN lru /\ lru'[j] = lru[j + 1] /\ i + 1 < j + 1
      BY <1>3, <2>1
    <3>2. lru'[i] # h /\ lru'[j] # h
      BY <1>3 DEF ToSet
    <3>3. lru'[i] \notin fresh /\ lru'[j] \notin fresh
      BY <1>1, <2>1, <3>2
    <3>4. Comes(table, lru'[i], lru'[j])
      BY <3>1, <3>3 DEF TableInv, Drawn, InOrder
    <3> QED
      BY <1>5, <3>2, <3>4
  <2> QED
    BY <2>1 DEF InOrder
<1>11. SavedTypes' /\ SizeTypes' /\ CountTypes' /\ Offered'
  BY <1>1, SizesKept DEF TableInv, SavedTypes, CountTypes, Offered
<1>12. Quiet'
  BY <1>1 DEF TableInv, Quiet
<1> QED
  BY <1>3, <1>8, <1>9, <1>10, <1>11, <1>12 DEF TableInv, Drawn

(* After a round there is nothing drawn.                                   *)
LEMMA EndRoundKeeps ==
    ASSUME TableInv, EndRound
    PROVE  TableInv'
<1>1. /\ UNCHANGED <<table, total, files, used, saved, other, starts, up>>
      /\ UNCHANGED <<sizing, maxSize, wrapped>>
      /\ phase' = "idle" /\ goal' = 0 /\ lru' = <<>> /\ done' = 0 /\ fresh' = {}
      /\ phase = "evict"
  BY DEF EndRound, cached, onDisk, sizing
<1>2. TableTypes' /\ SizeTypes'
  BY <1>1, TableKept, SizesKept DEF TableInv
<1>3. SavedTypes' /\ CountTypes' /\ Offered'
  BY <1>1 DEF TableInv, SavedTypes, CountTypes, Offered
<1>4. 0 \in 0..Word-1
  BY SizeAssumption
<1>5. RoundTypes'
  BY <1>1, <1>4, EmptyList DEF RoundTypes
<1>6. Drawn'
  BY <1>1, EmptyList DEF Drawn, InOrder
<1>7. Quiet'
  BY <1>1 DEF TableInv, Quiet
<1> QED
  BY <1>2, <1>3, <1>5, <1>6, <1>7 DEF TableInv

LEMMA StepKeeps == TableInv /\ [Next]_vars => TableInv'
<1> SUFFICES ASSUME TableInv, [Next]_vars PROVE TableInv'
  OBVIOUS
<1>1. ASSUME UNCHANGED <<table, total, files, used, other, sizing, round, up>>,
             SavedTypes', starts' \in 0..MaxStarts
      PROVE  TableInv'
  <2>1. UNCHANGED <<table, total, lru, phase, maxSize, wrapped, other, up>>
    BY <1>1 DEF round, sizing
  <2>2. TableTypes' /\ SizeTypes' /\ RoundTypes' /\ Drawn'
    BY <1>1, TableKept, SizesKept, RoundKept DEF TableInv
  <2>3. CountTypes' /\ Quiet' /\ Offered'
    BY <1>1, <2>1 DEF TableInv, CountTypes, Quiet, Offered
  <2> QED
    BY <1>1, <2>2, <2>3 DEF TableInv
<1>2. CASE SaveMetadata
  <2>1. SavedTypes'
    BY <1>2 DEF SaveMetadata, SavedTypes, TableInv, TableTypes
  <2>2. starts' \in 0..MaxStarts
    BY <1>2 DEF SaveMetadata, TableInv, CountTypes
  <2>3. UNCHANGED <<table, total, files, used, other, sizing, round, up>>
    BY <1>2 DEF SaveMetadata, cached
  <2> QED
    BY <1>1, <2>1, <2>2, <2>3
<1>3. ASSUME NEW c \in Configs, StartDies(c) PROVE TableInv'
  <2>1. SavedTypes' /\ starts' \in 0..MaxStarts
    BY <1>3, StartsAssumption DEF StartDies, onDisk, SavedTypes, TableInv, CountTypes
  <2>2. UNCHANGED <<table, total, files, used, other, sizing, round, up>>
    BY <1>3 DEF StartDies, cached, onDisk
  <2> QED
    BY <1>1, <2>1, <2>2
<1>4. CASE UNCHANGED vars
  <2>1. SavedTypes' /\ starts' \in 0..MaxStarts
    BY <1>4 DEF vars, onDisk, SavedTypes, TableInv, CountTypes
  <2>2. UNCHANGED <<table, total, files, used, other, sizing, round, up>>
    BY <1>4 DEF vars, cached, onDisk
  <2> QED
    BY <1>1, <2>1, <2>2
<1>5. CASE Stop
  BY <1>5, ForgetKeeps DEF Stop
<1>6. CASE DrawDies
  <2>1. used \in Int /\ other \in Int /\ Disk \in Int /\ Disk - other - used >= 0
    BY BytesOf, SizeAssumption DEF TableInv, TableTypes, Available
  <2>2. UNCHANGED <<files, used, saved, other, starts>>
    BY <1>6 DEF DrawDies, onDisk
  <2>3. other' \in Others
    BY <2>2 DEF TableInv, TableTypes
  <2>4. other <= Disk - used
    BY <2>1
  <2> QED
    BY <1>6, <2>2, <2>3, <2>4, ForgetKeeps DEF DrawDies
<1> QED
  BY <1>2, <1>3, <1>4, <1>5, <1>6, StartKeeps, TickKeeps, DrawKeeps, EvictKeeps,
     EndRoundKeeps, LoadKeeps, RemoveFileKeeps
     DEF Next, StrategyServer

LEMMA TableInvariant == Spec => []TableInv
  BY InitTable, StepKeeps, PTL DEF Spec

-----------------------------------------------------------------------------
(* The table lists every slice once, the total is the sum of its sizes,    *)
(* its slices have their files, and the disk holds all of them.            *)
THEOREM TypeCorrect == Spec => []TypeOK
  BY TableInvariant, Types, PTL

(* What the cacher tells the indexers is available is on the disk, up to   *)
(* the files still to be removed, unless its start wrapped around.         *)
THEOREM SpaceIsThere == Spec => []OffersWhatIsThere
<1>1. TableInv => OffersWhatIsThere
  <2> SUFFICES ASSUME TableInv, up, ~ wrapped
               PROVE  CacheDiskStats.available <= Available + (used - total)
    BY DEF OffersWhatIsThere
  <2>1. total <= used /\ total \in Nat /\ used \in Nat
    BY BytesOf DEF TableInv, TableTypes
  <2>2. other \in Int /\ Disk \in Int /\ maxSize \in Int /\ Available >= 0
    BY SizeAssumption DEF TableInv, TableTypes, SizeTypes
  <2>3. maxSize <= Disk - other
    BY DEF TableInv, Offered
  <2>4. CacheDiskStats.available = IF maxSize > total THEN maxSize - total ELSE 0
    BY DEF CacheDiskStats
  <2> QED
    BY <2>1, <2>2, <2>3, <2>4 DEF Available
<1> QED
  BY <1>1, TableInvariant, PTL

(* A slice leaves the table as the first of the drawn ones.                *)
LEMMA LeavesFirst ==
    ASSUME TableInv, [Next]_vars, up', NEW h \in Cached \ Cached'
    PROVE  Evict /\ h = Head(lru)
<1>1. Cached # {} /\ table' # table
  BY DEF Cached
<1>2. up
  BY <1>1, EmptyList DEF TableInv, Quiet, Cached
<1>3. ASSUME NEW g \in Hashes, LoadInCache(g) PROVE FALSE
  <2>1. table \in Seq(Hashes) /\ IsInjective(table)
    BY DEF TableInv, TableTypes
  <2> DEFINE rest == RemoveFirst(table, g)
  <2>2. rest \in Seq(Hashes) /\ IsInjective(rest) /\ ToSet(rest) = Cached \ {g}
    BY <2>1, Without DEF Cached
  <2>3. table' = Append(rest, g)
    BY <1>3 DEF LoadInCache
  <2> HIDE DEF rest
  <2>4. Cached' = (Cached \ {g}) \cup {g}
    BY <2>2, <2>3, WithLast DEF Cached
  <2> QED
    BY <2>4
<1>4. Evict
  BY <1>1, <1>2, <1>3
     DEF Next, StrategyServer, Start, StartDies, Stop, Forget, SaveMetadata, RemoveFile,
         Tick, Draw, DrawDies, EndRound, vars, cached
<1>5. table \in Seq(Hashes) /\ IsInjective(table)
  BY DEF TableInv, TableTypes
<1>6. table' = RemoveFirst(table, Head(lru))
  BY <1>4 DEF Evict
<1>7. Cached' = Cached \ {Head(lru)}
  BY <1>5, <1>6, Without DEF Cached
<1> QED
  BY <1>4, <1>7

LEMMA OldestStep ==
    ASSUME TableInv, [Next]_vars, up', NEW h \in Cached \ Cached',
           NEW g \in ToSet(lru) \ fresh, h \notin fresh
    PROVE  ~ Before(g, h)
<1>1. Evict /\ h = Head(lru)
  BY LeavesFirst
<1>2. lru \in Seq(Hashes) /\ lru # <<>> /\ table \in Seq(Hashes) /\ IsInjective(table)
  BY <1>1 DEF Evict, TableInv, TableTypes, RoundTypes
<1>3. PICK j \in DOMAIN lru : lru[j] = g
  BY DEF ToSet
<1>4. 1 \in DOMAIN lru /\ h = lru[1] /\ j \in Nat /\ j >= 1
  BY <1>1, <1>2
<1>5. g # h => Comes(table, h, g)
  <2>1. g # h => 1 < j
    BY <1>3, <1>4
  <2> QED
    BY <1>3, <1>4, <2>1 DEF TableInv, Drawn, InOrder
<1> QED
  BY <1>2, <1>5, OneFirst DEF Before, Comes

(* Of the slices a round has drawn and nobody loaded again, the one that is*)
(* evicted was loaded before all that stay, whatever is loaded meanwhile   *)
(* and whichever starts the order came from; how often they were accessed  *)
(* does not matter, whatever strategy.go:74 and README.md:21 say.          *)
THEOREM EvictsByAgeOnly == Spec => OnlyAgeCounts
<1>1. TableInv /\ [Next]_vars
      => [\A h \in Cached \ Cached', g \in ToSet(lru) \ fresh :
            up' /\ h \notin fresh /\ Before(g, h) => g \notin Cached']_vars
  BY OldestStep
<1> QED
  BY <1>1, TableInvariant, PTL DEF Spec, OnlyAgeCounts
=============================================================================
