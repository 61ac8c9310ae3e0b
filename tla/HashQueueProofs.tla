--------------------------- MODULE HashQueueProofs ---------------------------
(***************************************************************************)
(* Every queue of slice hashes, whatever its length and the number of      *)
(* senders, keeps one piece of work per mark.                              *)
(***************************************************************************)
EXTENDS HashQueue, TLAPS

(* What the channel operations do to the channel, place by place.          *)
LEMMA ChannelFacts ==
    ASSUME NEW s \in Seq(Hashes), NEW e \in Hashes
    PROVE  /\ Append(s, e) \in Seq(Hashes)
           /\ Len(s) \in Nat
           /\ Len(Append(s, e)) = Len(s) + 1
           /\ \A i \in 1..Len(s) : Append(s, e)[i] = s[i]
           /\ Append(s, e)[Len(s) + 1] = e
           /\ s # <<>> => /\ Len(s) > 0
                          /\ Head(s) = s[1]
                          /\ Head(s) \in Hashes
                          /\ Tail(s) \in Seq(Hashes)
                          /\ Len(Tail(s)) = Len(s) - 1
                          /\ \A i \in 1..Len(s) - 1 : Tail(s)[i] = s[i + 1]
  OBVIOUS

(* A step of the queue keeps the types of its variables.                   *)
LEMMA TypesKept == TypeOK /\ [Next]_vars => TypeOK'
<1> SUFFICES ASSUME TypeOK, [Next]_vars PROVE TypeOK'
  OBVIOUS
<1> USE CapacityAssumption, NoHashAssumption DEF TypeOK
<1>1. ASSUME NEW p \in Senders, NEW h \in Hashes, Insert(p, h) PROVE TypeOK'
  BY <1>1 DEF Insert
<1>2. ASSUME NEW p \in Senders, Send(p) PROVE TypeOK'
  <2>1. sending[p] \in Hashes
    BY <1>2 DEF Send
  <2>2. queue' \in Seq(Hashes) /\ Len(queue') <= Capacity
    BY <1>2, <2>1, ChannelFacts DEF Send
  <2> QED
    BY <1>2, <2>2 DEF Send
<1>3. ASSUME NEW h \in Hashes, Receive(h) PROVE TypeOK'
  <2>1. queue' \in Seq(Hashes) /\ Len(queue') <= Capacity
    BY <1>3, ChannelFacts DEF Receive
  <2> QED
    BY <1>3, <2>1 DEF Receive
<1>4. ASSUME NEW h \in Hashes, Delete(h) PROVE TypeOK'
  BY <1>4 DEF Delete
<1>5. CASE UNCHANGED vars
  BY <1>5 DEF vars
<1> QED
  BY <1>1, <1>2, <1>3, <1>4, <1>5 DEF Next

(* The variables keep their types.                                         *)
THEOREM TypeCorrect == Spec => []TypeOK
<1>1. Init => TypeOK
  BY CapacityAssumption, NoHashAssumption DEF Init, TypeOK
<1> QED
  BY <1>1, TypesKept, PTL DEF Spec

-----------------------------------------------------------------------------
(* What is under way is marked.                                            *)
Marked ==
    /\ \A i \in 1..Len(queue) : queue[i] \in filter
    /\ SendingSet \subseteq filter
    /\ taken \subseteq filter

(* What is marked is under way.                                            *)
NoOrphanMark == \A h \in filter : InQueue(h) \/ h \in SendingSet \cup taken

(* These two and OnePlace are inductive together, given the types: a hash  *)
(* enters the queue only unmarked, so by Marked it is nowhere else; it     *)
(* moves on to the next place and leaves the one before; and its mark goes *)
(* only from the last one.                                                 *)
IInv == TypeOK /\ Marked /\ OnePlace /\ NoOrphanMark

LEMMA InsertKeeps ==
    ASSUME IInv, NEW p \in Senders, NEW h \in Hashes, Insert(p, h)
    PROVE  (Marked /\ OnePlace /\ NoOrphanMark)'
<1> USE NoHashAssumption
<1>1. CASE h \in filter
  BY <1>1 DEF IInv, Insert, Marked, OnePlace, NoOrphanMark, InQueue, SendingSet
<1>2. CASE h \notin filter
  <2>1. /\ queue' = queue /\ taken' = taken
        /\ filter' = filter \cup {h}
        /\ sending[p] = NoHash
        /\ sending' = [sending EXCEPT ![p] = h]
    BY <1>2 DEF Insert
  <2>2. SendingSet' = SendingSet \cup {h}
    BY <2>1 DEF SendingSet, IInv, TypeOK
  <2>3. h \notin SendingSet \cup taken /\ \A i \in 1..Len(queue) : queue[i] # h
    BY <1>2 DEF IInv, Marked
  <2>4. Marked'
    BY <2>1, <2>2 DEF IInv, Marked
  <2>5. OnePlace'
    <3>1. ASSUME NEW q \in Senders, NEW r \in Senders,
                 sending'[q] = sending'[r], sending'[q] # NoHash
          PROVE  q = r
      <4>1. \A x \in Senders : x # p => sending'[x] = sending[x] /\ sending[x] # h
        BY <2>1, <2>3 DEF SendingSet, IInv, TypeOK
      <4>2. sending'[p] = h
        BY <2>1 DEF IInv, TypeOK
      <4> QED
        BY <3>1, <4>1, <4>2 DEF IInv, OnePlace
    <3> QED
      BY <2>1, <2>2, <2>3, <3>1 DEF IInv, OnePlace
  <2>6. NoOrphanMark'
    BY <2>1, <2>2 DEF IInv, NoOrphanMark, InQueue
  <2> QED
    BY <2>4, <2>5, <2>6
<1> QED
  BY <1>1, <1>2

LEMMA SendKeeps ==
    ASSUME IInv, NEW p \in Senders, Send(p)
    PROVE  (Marked /\ OnePlace /\ NoOrphanMark)'
<1> DEFINE h == sending[p]
<1> USE NoHashAssumption
<1>1. h \in Hashes /\ h \in SendingSet
  BY DEF Send, IInv, TypeOK, SendingSet
<1>2. /\ filter' = filter /\ taken' = taken
      /\ queue' = Append(queue, h)
      /\ sending' = [sending EXCEPT ![p] = NoHash]
  BY DEF Send
<1>3. /\ Len(queue) \in Nat
      /\ Len(queue') = Len(queue) + 1
      /\ \A i \in 1..Len(queue) : queue'[i] = queue[i]
      /\ queue'[Len(queue) + 1] = h
  BY <1>1, <1>2, ChannelFacts DEF IInv, TypeOK
<1>4. SendingSet' = SendingSet \ {h}
  BY <1>1, <1>2 DEF SendingSet, IInv, TypeOK, OnePlace
<1>5. h \notin taken /\ h \in filter /\ \A i \in 1..Len(queue) : queue[i] # h
  BY <1>1 DEF IInv, OnePlace, Marked
<1>6. Marked'
  BY <1>2, <1>3, <1>4, <1>5 DEF IInv, Marked
<1>7. OnePlace'
  <2>1. \A i, j \in 1..Len(queue') : queue'[i] = queue'[j] => i = j
    BY <1>3, <1>5 DEF IInv, OnePlace
  <2>2. \A q, r \in Senders : sending'[q] = sending'[r] /\ sending'[q] # NoHash => q = r
    BY <1>2 DEF IInv, OnePlace, TypeOK
  <2>3. \A i \in 1..Len(queue') : queue'[i] \notin SendingSet' \cup taken'
    BY <1>2, <1>3, <1>4, <1>5 DEF IInv, OnePlace
  <2> QED
    BY <1>2, <1>4, <2>1, <2>2, <2>3 DEF IInv, OnePlace
<1>8. NoOrphanMark'
  <2> SUFFICES ASSUME NEW x \in filter PROVE InQueue(x)' \/ x \in SendingSet' \cup taken'
    BY <1>2 DEF NoOrphanMark
  <2>1. CASE x = h
    BY <1>3, <2>1 DEF InQueue
  <2>2. CASE x # h
    BY <1>2, <1>3, <1>4, <2>2 DEF IInv, NoOrphanMark, InQueue
  <2> QED
    BY <2>1, <2>2
<1> QED
  BY <1>6, <1>7, <1>8

LEMMA ReceiveKeeps ==
    ASSUME IInv, NEW h \in Hashes, Receive(h)
    PROVE  (Marked /\ OnePlace /\ NoOrphanMark)'
<1>1. /\ filter' = filter /\ sending' = sending /\ SendingSet' = SendingSet
      /\ taken' = taken \cup {h}
      /\ h = Head(queue) /\ queue # <<>> /\ queue' = Tail(queue)
  BY DEF Receive, SendingSet
<1>2. /\ Len(queue) \in Nat /\ Len(queue) > 0
      /\ h = queue[1]
      /\ Len(queue') = Len(queue) - 1
      /\ \A i \in 1..Len(queue) - 1 : queue'[i] = queue[i + 1]
  BY <1>1, ChannelFacts DEF IInv, TypeOK
<1>3. h \in filter /\ h \notin SendingSet \cup taken
  BY <1>2 DEF IInv, Marked, OnePlace
<1>4. \A i \in 1..Len(queue') : i + 1 \in 2..Len(queue) /\ queue'[i] = queue[i + 1]
  BY <1>2
<1>5. Marked'
  BY <1>1, <1>2, <1>3, <1>4 DEF IInv, Marked
<1>6. OnePlace'
  <2>1. \A i, j \in 1..Len(queue') : queue'[i] = queue'[j] => i = j
    BY <1>2, <1>4 DEF IInv, OnePlace
  <2>2. \A i \in 1..Len(queue') : queue'[i] # h /\ queue'[i] \notin SendingSet \cup taken
    BY <1>2, <1>4 DEF IInv, OnePlace
  <2> QED
    BY <1>1, <1>3, <2>1, <2>2 DEF IInv, OnePlace
<1>7. NoOrphanMark'
  <2> SUFFICES ASSUME NEW x \in filter, x # h, InQueue(x) PROVE InQueue(x)'
    BY <1>1 DEF IInv, NoOrphanMark
  <2>1. PICK i \in 1..Len(queue) : queue[i] = x
    BY DEF InQueue
  <2>2. i - 1 \in 1..Len(queue') /\ queue'[i - 1] = x
    BY <1>2, <2>1
  <2> QED
    BY <2>2 DEF InQueue
<1> QED
  BY <1>5, <1>6, <1>7

LEMMA DeleteKeeps ==
    ASSUME IInv, NEW h \in Hashes, Delete(h)
    PROVE  (Marked /\ OnePlace /\ NoOrphanMark)'
  BY DEF IInv, Delete, Marked, OnePlace, NoOrphanMark, InQueue, SendingSet

(* An empty queue satisfies the invariant and every step of the queue      *)
(* keeps it: what a module that has such a queue as a part needs to know.  *)
LEMMA InitInv == Init => IInv
  BY CapacityAssumption, NoHashAssumption
     DEF Init, IInv, TypeOK, Marked, OnePlace, NoOrphanMark, InQueue, SendingSet

LEMMA StepKeeps == IInv /\ [Next]_vars => IInv'
<1> SUFFICES ASSUME IInv, [Next]_vars
             PROVE  (Marked /\ OnePlace /\ NoOrphanMark)'
  BY TypesKept DEF IInv
<1>1. ASSUME NEW p \in Senders, NEW h \in Hashes, Insert(p, h)
      PROVE  (Marked /\ OnePlace /\ NoOrphanMark)'
  BY <1>1, InsertKeeps
<1>2. ASSUME NEW p \in Senders, Send(p)
      PROVE  (Marked /\ OnePlace /\ NoOrphanMark)'
  BY <1>2, SendKeeps
<1>3. ASSUME NEW h \in Hashes, Receive(h)
      PROVE  (Marked /\ OnePlace /\ NoOrphanMark)'
  BY <1>3, ReceiveKeeps
<1>4. ASSUME NEW h \in Hashes, Delete(h)
      PROVE  (Marked /\ OnePlace /\ NoOrphanMark)'
  BY <1>4, DeleteKeeps
<1>5. CASE UNCHANGED vars
  BY <1>5 DEF vars, IInv, Marked, OnePlace, NoOrphanMark, InQueue, SendingSet
<1> QED
  BY <1>1, <1>2, <1>3, <1>4, <1>5 DEF Next

(* The marks are those of what is under way, and each stands for one piece *)
(* of work, in every state of every queue.                                 *)
THEOREM OneWorkPerMark == Spec => [](MarkedIsUnderWay /\ OnePlace)
<1>1. IInv => MarkedIsUnderWay /\ OnePlace
  BY DEF IInv, TypeOK, MarkedIsUnderWay, Marked, OnePlace, NoOrphanMark, InQueue
<1> QED
  BY <1>1, InitInv, StepKeeps, PTL DEF Spec

(* Query tells of exactly the slices under way.                            *)
THEOREM MarksAreWork == Spec => []MarkedIsUnderWay
  BY OneWorkPerMark, PTL
=============================================================================
