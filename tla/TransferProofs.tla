--------------------------- MODULE TransferProofs ---------------------------
(***************************************************************************)
(* A download keeps what Download promises, for slices of any number of    *)
(* messages and any length of the channel they are read into.              *)
(***************************************************************************)
EXTENDS Transfer, SequenceTheorems, TLAPS

(* The messages of the miner that the handler has not seen yet, in order.  *)
Held == IF reader = "push" THEN <<hand>> ELSE <<>>
Way == recv \o Held \o wire

(* Chunks in the file.                                                     *)
Written == IF disk = NoFile THEN 0 ELSE disk

Alive == handler \notin {"exit", "done"}
Silence == Way = <<>> /\ handler # "notify" /\ waitNotify = <<>>

-----------------------------------------------------------------------------
(* Chunks come before all else, and those written and those on their way   *)
(* are no more than were sent.                                             *)
ChunksAhead(v, written, total) ==
    \A i \in 1..Len(v) : v[i] = "chunk" =>
      (\A j \in 1..i : v[j] = "chunk") /\ written + i <= total

ChunksFirst ==
    /\ ChunksAhead(Way, Written, sent)
    /\ miner = "file" =>
         /\ \A i \in 1..Len(Way) : Way[i] = "chunk"
         /\ Written + Len(Way) <= sent /\ sent < Chunks

(* While the file is awaited, a success that is on its way has the end of  *)
(* a whole file before it, or the handler has seen that end.               *)
HasEnd(v) == \E j \in 1..Len(v) : v[j] = "end"
EndsAhead(v) == \A i \in 1..Len(v) : v[i] = "ok" => \E j \in 1..i : v[j] = "end"

SuccessAfterEnd ==
    /\ task = "waitFile" /\ Alive => disk = Chunks \/ EndsAhead(Way)
    /\ miner = "notify" /\ peer = "open" /\ Alive => disk = Chunks \/ HasEnd(Way)
    /\ task = "waitFile" /\ handler = "notify" /\ note = "ok" => disk = Chunks
    /\ task = "waitFile" /\ waitNotify = <<"ok">> => disk = Chunks
    /\ task = "sendClose" \/ result = "ok" => disk = Chunks

(* The handler opens the file once: a file that is not open is empty, or   *)
(* whole and closed.                                                       *)
OpenedOnce ==
    /\ opened => disk \in 1..Chunks
    /\ ~opened /\ handler # "done" => disk \in {NoFile, 0, Chunks}

(* Up to the request for the file nothing is under way but the one answer  *)
(* to the request for the head.                                            *)
OneAnswer ==
    \/ Silence
    \/ Len(Way) = 1 /\ Way[1] \in {"ok", "err"} /\ handler # "notify" /\ waitNotify = <<>>
    \/ Way = <<>> /\ handler = "notify" /\ waitNotify = <<>>
    \/ Way = <<>> /\ handler # "notify" /\ waitNotify # <<>>

AnswerOk ==
    \/ \E i \in 1..Len(Way) : Way[i] = "ok"
    \/ handler = "notify" /\ note = "ok"
    \/ waitNotify = <<"ok">>

Stages ==
    /\ task \in {"sendHead", "waitHead", "create"} => disk = NoFile
    /\ task = "sendFile" => disk = 0
    /\ task \in {"sendHead", "waitHead", "create", "sendFile"} => sent = 0 /\ ~opened
    /\ task = "sendHead" => Silence /\ miner = "idle" /\ send = <<>>
    /\ task = "waitHead" =>
         /\ OneAnswer
         /\ miner \in {"idle", "head", "ready", "quiet"}
         /\ miner \in {"idle", "head"} => Silence
         /\ AnswerOk => miner = "ready"
         /\ miner # "idle" => send = <<>>
         /\ send \in {<<>>, <<"head">>}
    /\ task \in {"create", "sendFile"} => Silence /\ miner = "ready" /\ send = <<>>
    /\ task \in {"waitFile", "sendClose"} => miner \notin {"idle", "head"}

(* The miner gets the request for the file once, when nothing was sent.    *)
OneRequest ==
    \A i \in 1..Len(send) : send[i] = "file" =>
      /\ miner \notin {"idle", "head"}
      /\ miner = "ready" => Way = <<>> /\ sent = 0 /\ Written = 0

(* What each goroutine has left to send fits the channel.                  *)
SendsFit ==
    /\ Alive \/ task # "returned" => Len(send) <= 2
    /\ Alive /\ task # "returned" => Len(send) <= 1

Returns ==
    /\ result # "none" <=> task = "returned"
    /\ result # "none" => closed
    /\ late => result # "none" /\ handler # "get"

Words ==
    /\ handler = "notify" => note \in {"ok", "err"}
    /\ reader = "push" => hand \in Messages

IInv ==
    /\ TypeOK /\ Words /\ ChunksFirst /\ SuccessAfterEnd /\ OpenedOnce /\ Stages
    /\ OneRequest /\ SendsFit /\ Returns

-----------------------------------------------------------------------------
(* What the goroutines do to the messages under way, place by place.       *)

LEMMA Cons ==
    ASSUME NEW S, NEW w \in Seq(S), w # <<>>
    PROVE  /\ Head(w) \in S /\ Tail(w) \in Seq(S) /\ <<Head(w)>> \in Seq(S)
           /\ w = <<Head(w)>> \o Tail(w)
<1>1. Len(w) \in Nat \ {0}
  BY EmptySeq
<1>2. SubSeq(w, 1, Len(w)) = w
  BY SubSeqFull
<1>3. 1 \in 1..Len(w) /\ Len(w) \in 1..Len(w)
  BY <1>1
<1>4. SubSeq(w, 1, Len(w)) = <<w[1]>> \o SubSeq(w, 1 + 1, Len(w))
  BY <1>3, SubSeqRecursiveFirst, Zenon
<1>5. Tail(w) = SubSeq(w, 2, Len(w)) /\ Head(w) = w[1]
  BY TailIsSubSeq
<1>6. Head(w) \in S /\ Tail(w) \in Seq(S)
  BY HeadTailProperties
<1> QED
  BY <1>2, <1>4, <1>5, <1>6

(* Reading and passing on change nothing;                                  *)
LEMMA ReadInOrder ==
    ASSUME NEW S, NEW r \in Seq(S), NEW w \in Seq(S), w # <<>>
    PROVE  r \o <<Head(w)>> \o Tail(w) = r \o <<>> \o w
<1>1. /\ Tail(w) \in Seq(S) /\ <<Head(w)>> \in Seq(S)
      /\ w = <<Head(w)>> \o Tail(w)
  BY Cons
<1>2. r \o <<>> = r
  BY ConcatEmptySeq, Zenon
<1>3. (r \o <<Head(w)>>) \o Tail(w) = r \o (<<Head(w)>> \o Tail(w))
  BY <1>1, ConcatAssociative
<1> QED
  BY <1>1, <1>2, <1>3, Zenon

LEMMA PushInOrder ==
    ASSUME NEW S, NEW r \in Seq(S), NEW m \in S, NEW w \in Seq(S)
    PROVE  Append(r, m) \o <<>> \o w = r \o <<m>> \o w
<1>1. Append(r, m) = r \o <<m>> /\ Append(r, m) \in Seq(S)
  BY AppendIsConcat, AppendProperties
<1>2. Append(r, m) \o <<>> = Append(r, m)
  BY <1>1, ConcatEmptySeq, Zenon
<1> QED
  BY <1>1, <1>2, Zenon

(* the handler takes the first message,                                    *)
LEMMA GetInOrder ==
    ASSUME NEW S, NEW r \in Seq(S), NEW h \in Seq(S), NEW w \in Seq(S), r # <<>>
    PROVE  r \o h \o w = <<Head(r)>> \o (Tail(r) \o h \o w)
<1>1. /\ Tail(r) \in Seq(S) /\ <<Head(r)>> \in Seq(S)
      /\ r = <<Head(r)>> \o Tail(r)
  BY Cons
<1>2. Tail(r) \o h \in Seq(S)
  BY <1>1, ConcatProperties, Zenon
<1>3. (<<Head(r)>> \o Tail(r)) \o h = <<Head(r)>> \o (Tail(r) \o h)
  BY <1>1, ConcatAssociative
<1>4. (<<Head(r)>> \o (Tail(r) \o h)) \o w = <<Head(r)>> \o ((Tail(r) \o h) \o w)
  BY <1>1, <1>2, ConcatAssociative
<1> QED
  BY <1>1, <1>3, <1>4, Zenon

LEMMA AppendLast ==
    ASSUME NEW S, NEW s \in Seq(S), NEW w \in Seq(S), NEW m \in S
    PROVE  s \o Append(w, m) = Append(s \o w, m)
<1>1. <<m>> \in Seq(S)
  OBVIOUS
<1>2. s \o w \in Seq(S)
  BY ConcatProperties, Zenon
<1>3. Append(w, m) = w \o <<m>>
  BY AppendIsConcat, Zenon
<1>4. Append(s \o w, m) = (s \o w) \o <<m>>
  BY <1>2, AppendIsConcat, Zenon
<1>5. (s \o w) \o <<m>> = s \o (w \o <<m>>)
  BY <1>1, ConcatAssociative
<1> QED
  BY <1>3, <1>4, <1>5, Zenon

(* the miner adds one at the end,                                          *)
LEMMA SendInOrder ==
    ASSUME NEW S, NEW r \in Seq(S), NEW h \in Seq(S), NEW w \in Seq(S), NEW m \in S
    PROVE  r \o h \o Append(w, m) = Append(r \o h \o w, m)
<1>1. r \o h \in Seq(S)
  BY ConcatProperties, Zenon
<1>2. \A s \in Seq(S) : s \o Append(w, m) = Append(s \o w, m)
  BY AppendLast
<1>3. (r \o h) \o Append(w, m) = Append((r \o h) \o w, m)
  BY <1>1, <1>2, Zenon
<1> QED
  BY <1>3, Zenon

LEMMA CutKind ==
    ASSUME NEW S, NEW w \in Seq(S), NEW n \in 0..Len(w)
    PROVE  SubSeq(w, 1, n) \in Seq(S) /\ SubSeq(w, n + 1, Len(w)) \in Seq(S)
<1>1. Len(w) \in Nat /\ \A i \in 1..Len(w) : w[i] \in S
  BY LenProperties, ElementOfSeq
<1>2. SubSeq(w, 1, n) \in Seq(S)
  <2>1. (\A i \in 1..n : w[i] \in S) /\ 1 \in Int /\ n \in Int
    BY <1>1
  <2> QED
    BY <2>1, SubSeqProperties, Zenon
<1>3. SubSeq(w, n + 1, Len(w)) \in Seq(S)
  <2>1. /\ \A i \in n + 1..Len(w) : w[i] \in S
        /\ n + 1 \in Int /\ Len(w) \in Int
    BY <1>1
  <2> QED
    BY <2>1, SubSeqProperties, Zenon
<1> QED
  BY <1>2, <1>3

LEMMA CutWhole ==
    ASSUME NEW S, NEW w \in Seq(S), NEW n \in 0..Len(w)
    PROVE  SubSeq(w, 1, n) \o SubSeq(w, n + 1, Len(w)) = w
<1>1. Len(w) \in Nat
  BY LenProperties
<1>2. 1 \in 1..Len(w) + 1 /\ n \in 1 - 1..Len(w) /\ Len(w) \in n..Len(w)
  BY <1>1
<1>3. SubSeq(w, 1, n) \o SubSeq(w, n + 1, Len(w)) = SubSeq(w, 1, Len(w))
  BY <1>2, ConcatAdjacentSubSeq, Zenon
<1> QED
  BY <1>3, SubSeqFull, Zenon

(* and a break keeps the first of those on their way.                      *)
Begins(S, a, b) == \E x \in Seq(S) : b = a \o x

LEMMA CutLast ==
    ASSUME NEW S, NEW s \in Seq(S), NEW w \in Seq(S), NEW n \in 0..Len(w)
    PROVE  Begins(S, s \o SubSeq(w, 1, n), s \o w)
<1>1. SubSeq(w, 1, n) \in Seq(S) /\ SubSeq(w, n + 1, Len(w)) \in Seq(S)
  BY CutKind
<1>2. SubSeq(w, 1, n) \o SubSeq(w, n + 1, Len(w)) = w
  BY CutWhole
<1>3. ASSUME NEW a \in Seq(S), NEW x \in Seq(S), a \o x = w
      PROVE  s \o w = (s \o a) \o x
  <2>1. (s \o a) \o x = s \o (a \o x)
    BY ConcatAssociative, SMTT(20)
  <2> QED
    BY <2>1, <1>3, Zenon
<1> QED
  BY <1>1, <1>2, <1>3, Zenon DEF Begins

LEMMA CutInOrder ==
    ASSUME NEW S, NEW r \in Seq(S), NEW h \in Seq(S), NEW w \in Seq(S), NEW n \in 0..Len(w)
    PROVE  Begins(S, r \o h \o SubSeq(w, 1, n), r \o h \o w)
<1>1. r \o h \in Seq(S)
  BY ConcatProperties, Zenon
<1> QED
  BY <1>1, CutLast, Zenon

-----------------------------------------------------------------------------
(* The same for Way.                                                       *)
WayOk == Way \in Seq(Messages) /\ Len(Way) \in Nat /\ (Way = <<>> <=> Len(Way) = 0)

Pops(v, m, w) ==
    Len(v) = Len(w) + 1 /\ v[1] = m /\ \A i \in 1..Len(w) : w[i] = v[i + 1]
Adds(v, m, w) ==
    Len(w) = Len(v) + 1 /\ w[Len(w)] = m /\ \A i \in 1..Len(v) : w[i] = v[i]
Cuts(v, w) ==
    Len(w) <= Len(v) /\ \A i \in 1..Len(w) : w[i] = v[i]

LEMMA WayKind == TypeOK /\ Words => WayOk /\ Held \in Seq(Messages)
<1> SUFFICES ASSUME TypeOK, Words
             PROVE  WayOk /\ Held \in Seq(Messages)
  OBVIOUS
<1>1. Held \in Seq(Messages)
  BY DEF TypeOK, Words, Held
<1>2. recv \in Seq(Messages) /\ wire \in Seq(Messages)
  BY DEF TypeOK
<1>3. recv \o Held \in Seq(Messages)
  BY <1>1, <1>2, ConcatProperties, Zenon
<1>4. Way \in Seq(Messages)
  BY <1>2, <1>3, ConcatProperties, Zenon DEF Way
<1>5. WayOk
  BY <1>4, LenProperties, EmptySeq DEF WayOk
<1> QED
  BY <1>1, <1>5

LEMMA PopsFirst ==
    ASSUME NEW S, NEW m \in S, NEW w \in Seq(S)
    PROVE  Pops(<<m>> \o w, m, w)
<1>1. <<m>> \in Seq(S) /\ Len(<<m>>) = 1 /\ <<m>>[1] = m
  OBVIOUS
<1>2. Len(<<m>> \o w) = Len(<<m>>) + Len(w)
  BY <1>1, ConcatProperties, Zenon
<1>3. \A i \in 1..Len(<<m>>) + Len(w) :
        (<<m>> \o w)[i] = IF i <= Len(<<m>>) THEN <<m>>[i] ELSE w[i - Len(<<m>>)]
  BY <1>1, ConcatProperties, Zenon
<1>4. Len(w) \in Nat
  BY LenProperties
<1> QED
  BY <1>1, <1>2, <1>3, <1>4 DEF Pops

LEMMA AddsLast ==
    ASSUME NEW S, NEW m \in S, NEW w \in Seq(S)
    PROVE  Adds(w, m, Append(w, m))
BY AppendProperties, LenProperties DEF Adds

LEMMA CutsRest ==
    ASSUME NEW S, NEW a \in Seq(S), NEW b, Begins(S, a, b)
    PROVE  Cuts(b, a)
<1>1. PICK x \in Seq(S) : b = a \o x
  BY DEF Begins
<1>2. Len(a \o x) = Len(a) + Len(x)
  BY ConcatProperties, Zenon
<1>3. \A i \in 1..Len(a) + Len(x) :
        (a \o x)[i] = IF i <= Len(a) THEN a[i] ELSE x[i - Len(a)]
  BY ConcatProperties, Zenon
<1>4. Len(a) \in Nat /\ Len(x) \in Nat
  BY LenProperties
<1> QED
  BY <1>1, <1>2, <1>3, <1>4 DEF Cuts

(* Likewise for the channel of the sender.                                 *)
Commands == {"head", "file", "close"}

LEMMA SendKind ==
    TypeOK => send \in Seq(Commands) /\ Len(send) \in Nat /\ (send = <<>> <=> Len(send) = 0)
BY LenProperties, EmptySeq DEF TypeOK, Commands

LEMMA SendAdds ==
    ASSUME TypeOK, NEW m \in Commands
    PROVE  Append(send, m) \in Seq(Commands) /\ Adds(send, m, Append(send, m))
BY SendKind, AddsLast, AppendProperties

LEMMA SendPops ==
    ASSUME TypeOK, send # <<>>
    PROVE  /\ Head(send) \in Commands /\ Tail(send) \in Seq(Commands)
           /\ Pops(send, Head(send), Tail(send))
<1>1. send \in Seq(Commands) /\ Len(send) \in Nat
  BY SendKind
<1>2. /\ Head(send) \in Commands /\ Tail(send) \in Seq(Commands)
      /\ send = <<Head(send)>> \o Tail(send)
  BY <1>1, Cons
<1>3. Pops(<<Head(send)>> \o Tail(send), Head(send), Tail(send))
  BY <1>2, PopsFirst, Zenon
<1> QED
  BY <1>2, <1>3, Zenon

LEMMA ReadKeepsWay == ASSUME TypeOK, Words, Read PROVE Way' = Way
<1>1. recv \in Seq(Messages) /\ wire \in Seq(Messages) /\ wire # <<>>
  BY DEF TypeOK, Read
<1>2. Held = <<>> /\ Held' = <<Head(wire)>> /\ recv' = recv /\ wire' = Tail(wire)
  BY DEF Read, Held
<1>3. recv \o <<Head(wire)>> \o Tail(wire) = recv \o <<>> \o wire
  BY <1>1, ReadInOrder, Zenon
<1> QED
  BY <1>2, <1>3, Zenon DEF Way

LEMMA PushKeepsWay == ASSUME TypeOK, Words, Push PROVE Way' = Way
<1>1. recv \in Seq(Messages) /\ wire \in Seq(Messages) /\ hand \in Messages
  BY DEF TypeOK, Words, Push
<1>2. Held = <<hand>> /\ Held' = <<>> /\ recv' = Append(recv, hand) /\ wire' = wire
  BY DEF Push, Held
<1>3. Append(recv, hand) \o <<>> \o wire = recv \o <<hand>> \o wire
  BY <1>1, PushInOrder
<1> QED
  BY <1>2, <1>3, Zenon DEF Way

LEMMA GetsPops ==
    ASSUME TypeOK, Words, NEW m, Gets(m)
    PROVE  Pops(Way, m, Way') /\ WayOk' /\ m \in Messages
<1>1. /\ recv \in Seq(Messages) /\ wire \in Seq(Messages) /\ Held \in Seq(Messages)
      /\ recv # <<>>
  BY WayKind DEF TypeOK, Gets
<1>2. Held' = Held /\ recv' = Tail(recv) /\ wire' = wire /\ m = Head(recv)
  BY DEF Gets, Held, readerVars
<1>3. recv \o Held \o wire = <<Head(recv)>> \o (Tail(recv) \o Held \o wire)
  BY <1>1, GetInOrder
<1>4. Way = <<m>> \o Way'
  BY <1>2, <1>3, Zenon DEF Way
<1>5. m \in Messages /\ Tail(recv) \in Seq(Messages)
  BY <1>1, <1>2, HeadTailProperties
<1>6. Tail(recv) \o Held \in Seq(Messages)
  BY <1>1, <1>5, ConcatProperties, Zenon
<1>7. (Tail(recv) \o Held) \o wire \in Seq(Messages)
  BY <1>1, <1>6, ConcatProperties, Zenon
<1>8. Way' \in Seq(Messages)
  BY <1>2, <1>7, Zenon DEF Way
<1>9. Pops(<<m>> \o Way', m, Way')
  BY <1>5, <1>8, PopsFirst, Zenon
<1>10. WayOk'
  BY <1>8, LenProperties, EmptySeq DEF WayOk
<1> QED
  BY <1>4, <1>5, <1>9, <1>10, Zenon

LEMMA MinerAdds ==
    ASSUME TypeOK, Words, NEW m \in Messages, MinerSends(m)
    PROVE  Adds(Way, m, Way') /\ WayOk' /\ wire' \in Seq(Messages)
<1>1. /\ recv \in Seq(Messages) /\ wire \in Seq(Messages) /\ Held \in Seq(Messages)
      /\ Way \in Seq(Messages)
  BY WayKind DEF TypeOK, WayOk
<1>2. Held' = Held /\ recv' = recv /\ wire' = Append(wire, m)
  BY DEF MinerSends, Held, readerVars
<1>3. recv \o Held \o Append(wire, m) = Append(recv \o Held \o wire, m)
  BY <1>1, SendInOrder
<1>4. Way' = Append(Way, m)
  BY <1>2, <1>3, Zenon DEF Way
<1>5. Adds(Way, m, Append(Way, m))
  BY <1>1, AddsLast, Zenon
<1>6. Way' \in Seq(Messages)
  BY <1>1, <1>4, AppendProperties
<1>7. WayOk'
  BY <1>6, LenProperties, EmptySeq DEF WayOk
<1>8. wire' \in Seq(Messages)
  BY <1>1, <1>2, AppendProperties
<1> QED
  BY <1>4, <1>5, <1>7, <1>8, Zenon

LEMMA BreakCuts ==
    ASSUME TypeOK, Words, MinerGone
    PROVE  Cuts(Way, Way') /\ WayOk' /\ wire' \in Seq(Messages)
<1>1. /\ recv \in Seq(Messages) /\ wire \in Seq(Messages) /\ Held \in Seq(Messages)
      /\ WayOk
  BY WayKind DEF TypeOK
<1>2. Held' = Held /\ recv' = recv
  BY DEF MinerGone, Held, readerVars
<1>3. ASSUME wire' = wire
      PROVE  Cuts(Way, Way') /\ WayOk'
  <2>1. Way' = Way
    BY <1>2, <1>3, Zenon DEF Way
  <2> QED
    BY <1>1, <2>1 DEF Cuts, WayOk
<1>4. ASSUME NEW n \in 0..Len(wire), wire' = SubSeq(wire, 1, n)
      PROVE  Cuts(Way, Way') /\ WayOk'
  <2>1. Begins(Messages, recv \o Held \o SubSeq(wire, 1, n), recv \o Held \o wire)
    BY <1>1, CutInOrder, Zenon
  <2>2. Begins(Messages, Way', Way)
    BY <1>2, <1>4, <2>1, Zenon DEF Way
  <2>3. SubSeq(wire, 1, n) \in Seq(Messages)
    BY <1>1, CutKind, Zenon
  <2>4. recv \o Held \in Seq(Messages)
    BY <1>1, ConcatProperties, Zenon
  <2>5. (recv \o Held) \o SubSeq(wire, 1, n) \in Seq(Messages)
    BY <2>3, <2>4, ConcatProperties, Zenon
  <2>6. Way' \in Seq(Messages)
    BY <1>2, <1>4, <2>5, Zenon DEF Way
  <2>7. Cuts(Way, Way')
    BY <2>2, <2>6, CutsRest, Zenon
  <2>8. WayOk'
    BY <2>6, LenProperties, EmptySeq DEF WayOk
  <2> QED
    BY <2>7, <2>8
<1>5. wire' = wire \/ \E n \in 0..Len(wire) : wire' = SubSeq(wire, 1, n)
  BY DEF MinerGone
<1>6. wire' \in Seq(Messages)
  BY <1>1, <1>5, CutKind
<1> QED
  BY <1>3, <1>4, <1>5, <1>6, Zenon

(* What this does to the order of the messages.                            *)
LEMMA ChunksAheadKept ==
    ASSUME NEW v, NEW w, Len(v) \in Nat, Len(w) \in Nat, NEW m,
           NEW k \in Int, NEW n \in Int, ChunksAhead(v, k, n)
    PROVE  /\ Adds(v, m, w) /\ m # "chunk" => ChunksAhead(w, k, n)
           /\ Pops(v, m, w) /\ m # "chunk" => ChunksAhead(w, k, n)
           /\ Pops(v, "chunk", w) => ChunksAhead(w, k + 1, n)
           /\ Cuts(v, w) => ChunksAhead(w, k, n)
<1>1. ASSUME Adds(v, m, w), m # "chunk", NEW i \in 1..Len(w), w[i] = "chunk"
      PROVE  (\A j \in 1..i : w[j] = "chunk") /\ k + i <= n
  <2>1. i \in 1..Len(v) /\ v[i] = "chunk"
    BY <1>1 DEF Adds
  <2> QED
    BY <1>1, <2>1 DEF Adds, ChunksAhead
<1>2. ASSUME NEW x, Pops(v, x, w), NEW i \in 1..Len(w), w[i] = "chunk"
      PROVE  x = "chunk" /\ (\A j \in 1..i : w[j] = "chunk") /\ (k + 1) + i <= n
  <2>1. i + 1 \in 1..Len(v) /\ v[i + 1] = "chunk"
    BY <1>2 DEF Pops
  <2>2. (\A j \in 1..i + 1 : v[j] = "chunk") /\ k + (i + 1) <= n
    BY <2>1 DEF ChunksAhead
  <2>3. 1 \in 1..i + 1 /\ \A j \in 1..i : j + 1 \in 1..i + 1 /\ j \in 1..Len(w)
    BY <1>2
  <2> QED
    BY <1>2, <2>2, <2>3 DEF Pops
<1>3. ASSUME Cuts(v, w), NEW i \in 1..Len(w), w[i] = "chunk"
      PROVE  (\A j \in 1..i : w[j] = "chunk") /\ k + i <= n
  <2>1. i \in 1..Len(v) /\ v[i] = "chunk" /\ \A j \in 1..i : j \in 1..Len(w)
    BY <1>3 DEF Cuts
  <2> QED
    BY <1>3, <2>1 DEF Cuts, ChunksAhead
<1> QED
  BY <1>1, <1>2, <1>3 DEF ChunksAhead

LEMMA EndsAheadKept ==
    ASSUME NEW v, NEW w, Len(v) \in Nat, Len(w) \in Nat, NEW m, EndsAhead(v)
    PROVE  /\ Adds(v, m, w) /\ (m # "ok" \/ HasEnd(v)) => EndsAhead(w)
           /\ Pops(v, m, w) /\ m # "end" => EndsAhead(w) /\ m # "ok"
           /\ Cuts(v, w) => EndsAhead(w)
<1>1. ASSUME Adds(v, m, w), m # "ok" \/ HasEnd(v), NEW i \in 1..Len(w), w[i] = "ok"
      PROVE  \E j \in 1..i : w[j] = "end"
  <2>1. CASE i \in 1..Len(v)
    BY <1>1, <2>1 DEF Adds, EndsAhead
  <2>2. CASE i = Len(w)
    BY <1>1, <2>2 DEF Adds, HasEnd
  <2> QED
    BY <1>1, <2>1, <2>2 DEF Adds
<1>2. ASSUME Pops(v, m, w), m # "end"
      PROVE  m # "ok"
  BY <1>2 DEF Pops, EndsAhead
<1>3. ASSUME Pops(v, m, w), m # "end", NEW i \in 1..Len(w), w[i] = "ok"
      PROVE  \E j \in 1..i : w[j] = "end"
  <2>1. i + 1 \in 1..Len(v) /\ v[i + 1] = "ok"
    BY <1>3 DEF Pops
  <2>2. PICK j \in 1..i + 1 : v[j] = "end"
    BY <2>1 DEF EndsAhead
  <2>3. j - 1 \in 1..i /\ j - 1 \in 1..Len(w) /\ (j - 1) + 1 = j
    BY <1>3, <2>2 DEF Pops
  <2> QED
    BY <1>3, <2>2, <2>3 DEF Pops
<1>4. ASSUME Cuts(v, w), NEW i \in 1..Len(w), w[i] = "ok"
      PROVE  \E j \in 1..i : w[j] = "end"
  BY <1>4 DEF Cuts, EndsAhead
<1> QED
  BY <1>1, <1>2, <1>3, <1>4 DEF EndsAhead

LEMMA HasEndKept ==
    ASSUME NEW v, NEW w, Len(v) \in Nat, Len(w) \in Nat, NEW m
    PROVE  /\ Adds(v, m, w) /\ (m = "end" \/ HasEnd(v)) => HasEnd(w)
           /\ Pops(v, m, w) /\ m # "end" /\ HasEnd(v) => HasEnd(w)
<1>1. ASSUME Adds(v, m, w), m = "end" \/ HasEnd(v)
      PROVE  HasEnd(w)
  BY <1>1 DEF Adds, HasEnd
<1>2. ASSUME Pops(v, m, w), m # "end", HasEnd(v)
      PROVE  HasEnd(w)
  <2>1. PICK j \in 1..Len(v) : v[j] = "end"
    BY <1>2 DEF HasEnd
  <2>2. j - 1 \in 1..Len(w) /\ (j - 1) + 1 = j
    BY <1>2, <2>1 DEF Pops
  <2> QED
    BY <1>2, <2>1, <2>2 DEF Pops, HasEnd
<1> QED
  BY <1>1, <1>2

-----------------------------------------------------------------------------
(* Each action keeps the invariant.                                        *)
USE BuffersAssumption DEF IInv, Messages, NoMessage, NoFile, handlerVars, readerVars, minerVars,
    taskVars

LEMMA HandlerLoopKeeps ==
    ASSUME IInv, HandlerLoop \/ GetNothing
    PROVE  IInv'
<1>1. Way' = Way
  BY DEF HandlerLoop, GetNothing, Way, Held
<1>2. WayOk
  BY WayKind
<1>3. TypeOK'
  BY DEF TypeOK, Words, HandlerLoop, GetNothing
<1>4. Words'
  BY DEF Words, TypeOK, HandlerLoop, GetNothing
<1>5. ChunksFirst' /\ OneRequest' /\ OpenedOnce'
  BY <1>1, <1>2, SMTT(20) DEF TypeOK, ChunksFirst, ChunksAhead, OneRequest, Silence, OpenedOnce,
     Stages, Written, HandlerLoop, GetNothing
<1>6. SuccessAfterEnd'
  BY <1>1, <1>2 DEF TypeOK, WayOk, Words, SuccessAfterEnd, HasEnd, EndsAhead, Alive,
     OneAnswer, Silence, Stages, HandlerLoop, GetNothing
<1>7. Stages'
  BY <1>1, <1>2 DEF TypeOK, WayOk, Words, Stages, Silence, OneAnswer, AnswerOk, OpenedOnce,
     Alive, HandlerLoop, GetNothing
<1>8. SendsFit' /\ Returns'
  BY SendKind DEF TypeOK, SendsFit, Alive, Returns, HandlerLoop, GetNothing
<1> QED
  BY <1>3, <1>4, <1>5, <1>6, <1>7, <1>8

LEMMA EndsKeeps ==
    ASSUME IInv, ReadFails \/ SenderExit \/ CloseSend
    PROVE  IInv'
<1>1. Way' = Way
  BY DEF ReadFails, SenderExit, CloseSend, Way, Held
<1>2. WayOk
  BY WayKind
<1>3. TypeOK'
  <2>1. /\ UNCHANGED <<trouble, disk, late, taskVars, handlerVars, waitNotify, hand, recv,
                       send, wire, minerVars>>
        /\ reader' \in {"read", "push", "done"} /\ sender' \in {"run", "sleep", "done"}
        /\ closed' \in BOOLEAN
    BY DEF TypeOK, ReadFails, SenderExit, CloseSend
  <2> QED
    BY <2>1 DEF TypeOK
<1>4. Words'
  BY DEF Words, TypeOK, ReadFails, SenderExit, CloseSend
<1>5. ChunksFirst' /\ OneRequest' /\ OpenedOnce'
  BY <1>1, <1>2, SMTT(20) DEF TypeOK, ChunksFirst, ChunksAhead, OneRequest, Silence, OpenedOnce,
     Stages, Written, ReadFails, SenderExit, CloseSend
<1>6. SuccessAfterEnd'
  BY <1>1, <1>2, SMTT(20) DEF TypeOK, WayOk, Words, SuccessAfterEnd, HasEnd, EndsAhead, Alive,
     OneAnswer, Silence, Stages, ReadFails, SenderExit, CloseSend
<1>7. Stages'
  BY <1>1, <1>2 DEF TypeOK, WayOk, Words, Stages, Silence, OneAnswer, AnswerOk, OpenedOnce,
     Alive, ReadFails, SenderExit, CloseSend
<1>8. SendsFit' /\ Returns'
  BY SendKind DEF TypeOK, SendsFit, Alive, Returns, ReadFails, SenderExit, CloseSend
<1> QED
  BY <1>3, <1>4, <1>5, <1>6, <1>7, <1>8

LEMMA WaitsKeeps ==
    ASSUME IInv, WaitHead \/ WaitFile
    PROVE  IInv'
<1>1. Way' = Way
  BY DEF WaitHead, WaitFile, Waits, TaskGoes, Return, Way, Held
<1>2. WayOk
  BY WayKind
<1>3. /\ task' \in {"create", "sendClose", "returned"}
      /\ result' \in {"none", "ok", "err", "panic"} /\ closed' \in BOOLEAN /\ waitNotify' = <<>>
      /\ UNCHANGED <<trouble, disk, late, handlerVars, readerVars, recv, sender, send, wire,
                     minerVars>>
  BY DEF TypeOK, WaitHead, WaitFile, Waits, TaskGoes, Return
<1>4. TypeOK'
  BY <1>3 DEF TypeOK
<1>5. Words'
  BY DEF Words, TypeOK, WaitHead, WaitFile, Waits, TaskGoes, Return
<1>6. ChunksFirst' /\ OneRequest' /\ OpenedOnce'
  BY <1>1, <1>2 DEF TypeOK, ChunksFirst, ChunksAhead, OneRequest, Silence, OpenedOnce,
     Stages, Written, WaitHead, WaitFile, Waits, TaskGoes, Return
<1>7. SuccessAfterEnd'
  BY <1>1, <1>2 DEF TypeOK, WayOk, Words, SuccessAfterEnd, HasEnd, EndsAhead, Alive,
     OneAnswer, Silence, Stages, WaitHead, WaitFile, Waits, TaskGoes, Return
<1>8. Stages'
  <2>1. CASE WaitHead
    <3>1. /\ waitNotify' = <<>> /\ UNCHANGED <<disk, sent, opened, miner, send, handler>>
          /\ \/ task' = "returned"
             \/ task' = "create" /\ waitNotify = <<"ok">>
      BY <2>1 DEF WaitHead, Waits, TaskGoes, Return
    <3>2. waitNotify = <<"ok">> => Way = <<>> /\ handler # "notify" /\ miner = "ready"
                                   /\ send = <<>>
      BY <2>1 DEF WaitHead, Waits, Stages, Silence, OneAnswer, AnswerOk
    <3> QED
      BY <1>1, <2>1, <3>1, <3>2 DEF WaitHead, Waits, Stages, Silence
  <2>2. CASE WaitFile
    <3>1. /\ UNCHANGED <<disk, sent, opened, miner, send, handler>>
          /\ task' \in {"sendClose", "returned"} /\ task = "waitFile"
      BY <2>2 DEF WaitFile, Waits, TaskGoes, Return
    <3> QED
      BY <3>1 DEF Stages
  <2> QED
    BY <2>1, <2>2
<1>9. SendsFit' /\ Returns'
  BY SendKind DEF TypeOK, SendsFit, Alive, Returns, WaitHead, WaitFile, Waits, TaskGoes, Return
<1> QED
  BY <1>4, <1>5, <1>6, <1>7, <1>8, <1>9

LEMMA CreateFileKeeps ==
    ASSUME IInv, CreateFile
    PROVE  IInv'
<1>1. Way' = Way
  BY DEF CreateFile, TaskGoes, Way, Held
<1>2. WayOk
  BY WayKind
<1>3. TypeOK'
  BY DEF TypeOK, Words, CreateFile, TaskGoes
<1>4. Words'
  BY DEF Words, TypeOK, CreateFile, TaskGoes
<1>5. ChunksFirst' /\ OneRequest' /\ OpenedOnce'
  BY <1>1, <1>2 DEF TypeOK, ChunksFirst, ChunksAhead, OneRequest, Silence, OpenedOnce,
     Stages, Written, CreateFile, TaskGoes
<1>6. SuccessAfterEnd'
  BY <1>1, <1>2 DEF TypeOK, WayOk, Words, SuccessAfterEnd, HasEnd, EndsAhead, Alive,
     OneAnswer, Silence, Stages, CreateFile, TaskGoes
<1>7. Stages'
  BY <1>1, <1>2 DEF TypeOK, WayOk, Words, Stages, Silence, OneAnswer, AnswerOk, OpenedOnce,
     Alive, CreateFile, TaskGoes
<1>8. SendsFit' /\ Returns'
  BY SendKind DEF TypeOK, SendsFit, Alive, Returns, CreateFile, TaskGoes
<1> QED
  BY <1>3, <1>4, <1>5, <1>6, <1>7, <1>8

LEMMA TimerFiresKeeps ==
    ASSUME IInv, TimerFires
    PROVE  IInv'
<1>1. Way' = Way
  BY DEF TimerFires, Return, Way, Held
<1>2. WayOk
  BY WayKind
<1>3. TypeOK'
  BY DEF TypeOK, Words, TimerFires, Return
<1>4. Words'
  BY DEF Words, TypeOK, TimerFires, Return
<1>5. ChunksFirst' /\ OneRequest' /\ OpenedOnce'
  BY <1>1, <1>2 DEF TypeOK, ChunksFirst, ChunksAhead, OneRequest, Silence, OpenedOnce,
     Stages, Written, TimerFires, Return
<1>6. SuccessAfterEnd'
  BY <1>1, <1>2 DEF TypeOK, WayOk, Words, SuccessAfterEnd, HasEnd, EndsAhead, Alive,
     OneAnswer, Silence, Stages, TimerFires, Return
<1>7. Stages'
  BY <1>1, <1>2 DEF TypeOK, WayOk, Words, Stages, Silence, OneAnswer, AnswerOk, OpenedOnce,
     Alive, TimerFires, Return
<1>8. SendsFit' /\ Returns'
  BY SendKind DEF TypeOK, SendsFit, Alive, Returns, TimerFires, Return
<1> QED
  BY <1>3, <1>4, <1>5, <1>6, <1>7, <1>8

LEMMA NotifyKeeps ==
    ASSUME IInv, Notify
    PROVE  IInv'
<1>1. Way' = Way
  BY DEF Notify, Way, Held
<1>2. WayOk
  BY WayKind
<1>3. TypeOK'
  BY DEF TypeOK, Words, Notify
<1>4. Words'
  BY DEF Words, TypeOK, Notify
<1>5. ChunksFirst' /\ OneRequest' /\ OpenedOnce'
  BY <1>1, <1>2 DEF TypeOK, ChunksFirst, ChunksAhead, OneRequest, Silence, OpenedOnce,
     Stages, Written, Notify
<1>6. SuccessAfterEnd'
  BY <1>1, <1>2 DEF TypeOK, WayOk, Words, SuccessAfterEnd, HasEnd, EndsAhead, Alive,
     OneAnswer, Silence, Stages, Notify
<1>7. Stages'
  BY <1>1, <1>2 DEF TypeOK, WayOk, Words, Stages, Silence, OneAnswer, AnswerOk, OpenedOnce,
     Alive, Notify
<1>8. SendsFit' /\ Returns'
  BY SendKind DEF TypeOK, SendsFit, Alive, Returns, Notify
<1> QED
  BY <1>3, <1>4, <1>5, <1>6, <1>7, <1>8

LEMMA HandlerExitKeeps ==
    ASSUME IInv, HandlerExit
    PROVE  IInv'
<1>1. Way' = Way
  BY DEF HandlerExit, Way, Held
<1>2. WayOk
  BY WayKind
<1>3. handler' = "done" /\ opened' \in BOOLEAN /\ closed' \in BOOLEAN
  BY DEF HandlerExit
<1>4. TypeOK'
  BY <1>3 DEF TypeOK, HandlerExit
<1>5. Words'
  BY DEF Words, TypeOK, HandlerExit
<1>6. ChunksFirst' /\ OneRequest' /\ OpenedOnce'
  BY <1>1, <1>2 DEF TypeOK, ChunksFirst, ChunksAhead, OneRequest, Silence, OpenedOnce,
     Stages, Written, HandlerExit
<1>7. SuccessAfterEnd'
  BY <1>1, <1>2 DEF TypeOK, WayOk, Words, SuccessAfterEnd, HasEnd, EndsAhead, Alive,
     OneAnswer, Silence, Stages, HandlerExit
<1>8. Stages'
  BY <1>1, <1>2 DEF TypeOK, WayOk, Words, Stages, Silence, OneAnswer, AnswerOk, OpenedOnce,
     Alive, HandlerExit
<1>9. SendsFit' /\ Returns'
  BY SendKind DEF TypeOK, SendsFit, Alive, Returns, HandlerExit
<1> QED
  BY <1>4, <1>5, <1>6, <1>7, <1>8, <1>9

LEMMA ReadKeeps ==
    ASSUME IInv, Read
    PROVE  IInv'
<1>1. Way' = Way
  BY ReadKeepsWay
<1>2. WayOk
  BY WayKind
<1>3. TypeOK'
  BY SMTT(40) DEF TypeOK, Words, Read
<1>4. Words'
  BY DEF Words, TypeOK, Read
<1>5. ChunksFirst' /\ OneRequest' /\ OpenedOnce'
  BY <1>1, <1>2 DEF TypeOK, ChunksFirst, ChunksAhead, OneRequest, Silence, OpenedOnce,
     Stages, Written, Read
<1>6. SuccessAfterEnd'
  BY <1>1, <1>2 DEF TypeOK, WayOk, Words, SuccessAfterEnd, HasEnd, EndsAhead, Alive,
     OneAnswer, Silence, Stages, Read
<1>7. Stages'
  BY <1>1, <1>2 DEF TypeOK, WayOk, Words, Stages, Silence, OneAnswer, AnswerOk, OpenedOnce,
     Alive, Read
<1>8. SendsFit' /\ Returns'
  BY SendKind DEF TypeOK, SendsFit, Alive, Returns, Read
<1> QED
  BY <1>3, <1>4, <1>5, <1>6, <1>7, <1>8

LEMMA PushKeeps ==
    ASSUME IInv, Push
    PROVE  IInv'
<1>1. Way' = Way
  BY PushKeepsWay
<1>2. WayOk
  BY WayKind
<1>3. TypeOK'
  BY SMTT(40) DEF TypeOK, Words, Push
<1>4. Words'
  BY DEF Words, TypeOK, Push
<1>5. ChunksFirst' /\ OneRequest' /\ OpenedOnce'
  BY <1>1, <1>2 DEF TypeOK, ChunksFirst, ChunksAhead, OneRequest, Silence, OpenedOnce,
     Stages, Written, Push
<1>6. SuccessAfterEnd'
  BY <1>1, <1>2 DEF TypeOK, WayOk, Words, SuccessAfterEnd, HasEnd, EndsAhead, Alive,
     OneAnswer, Silence, Stages, Push
<1>7. Stages'
  BY <1>1, <1>2 DEF TypeOK, WayOk, Words, Stages, Silence, OneAnswer, AnswerOk, OpenedOnce,
     Alive, Push
<1>8. SendsFit' /\ Returns'
  BY SendKind DEF TypeOK, SendsFit, Alive, Returns, Push
<1> QED
  BY <1>3, <1>4, <1>5, <1>6, <1>7, <1>8

LEMMA SendHeadKeeps ==
    ASSUME IInv, SendHead
    PROVE  IInv'
<1>1. Way' = Way
  BY DEF SendHead, TaskSends, TaskGoes, Return, Way, Held
<1>2. WayOk
  BY WayKind
<1>3. \/ task' = "returned" /\ send' = send
      \/ task' = "waitHead" /\ send' = Append(send, "head") /\ Adds(send, "head", send')
  BY SendAdds DEF Commands, SendHead, TaskSends, TaskGoes, Return
<1>4. /\ send \in Seq(Commands) /\ send' \in Seq(Commands)
      /\ Len(send) \in Nat /\ Len(send') \in Nat
  BY SendKind, SendAdds DEF Commands, SendHead, TaskSends, TaskGoes, Return
<1>5. task # "returned" /\ handler' = handler
  BY DEF SendHead, TaskSends, TaskGoes, Return
<1>6. Len(send') <= 3 /\ SendsFit'
  BY SendKind, <1>3, <1>4, <1>5 DEF TypeOK, Adds, SendsFit, Alive, Stages, SendHead, TaskSends
<1>7. /\ task' \in {"waitHead", "waitFile", "returned"}
      /\ result' \in {"none", "ok", "err", "panic"} /\ closed' \in BOOLEAN
      /\ UNCHANGED <<trouble, disk, late, handlerVars, waitNotify, readerVars, recv, sender,
                     wire, minerVars>>
  BY DEF TypeOK, SendHead, TaskSends, TaskGoes, Return
<1>8. TypeOK'
  BY <1>4, <1>6, <1>7 DEF TypeOK, Commands
<1>9. Words'
  BY DEF Words, SendHead, TaskSends, TaskGoes, Return
<1>10. ChunksFirst' /\ OpenedOnce' /\ Returns'
  BY <1>1, <1>2 DEF TypeOK, ChunksFirst, ChunksAhead, OpenedOnce, Stages, Written, Returns,
     SendHead, TaskSends, TaskGoes, Return
<1>11. OneRequest'
  BY <1>1, <1>3, <1>4 DEF TypeOK, OneRequest, Adds, Silence, Stages, Written, SendHead,
     TaskSends, TaskGoes, Return
<1>12. SuccessAfterEnd'
  BY <1>1, <1>2 DEF TypeOK, WayOk, Words, SuccessAfterEnd, HasEnd, EndsAhead, Alive,
     OneAnswer, Silence, Stages, SendHead, TaskSends, TaskGoes, Return
<1>13. Stages'
  BY <1>1, <1>2 DEF TypeOK, WayOk, Words, Stages, Silence, OneAnswer, AnswerOk, OpenedOnce,
     Alive, SendHead, TaskSends, TaskGoes, Return
<1> QED
  BY <1>6, <1>8, <1>9, <1>10, <1>11, <1>12, <1>13

LEMMA SendFileKeeps ==
    ASSUME IInv, SendFile
    PROVE  IInv'
<1>1. Way' = Way
  BY DEF SendFile, TaskSends, TaskGoes, Return, Way, Held
<1>2. WayOk
  BY WayKind
<1>3. \/ task' = "returned" /\ send' = send
      \/ task' = "waitFile" /\ send' = Append(send, "file") /\ Adds(send, "file", send')
  BY SendAdds DEF Commands, SendFile, TaskSends, TaskGoes, Return
<1>4. /\ send \in Seq(Commands) /\ send' \in Seq(Commands)
      /\ Len(send) \in Nat /\ Len(send') \in Nat
  BY SendKind, SendAdds DEF Commands, SendFile, TaskSends, TaskGoes, Return
<1>5. task # "returned" /\ handler' = handler
  BY DEF SendFile, TaskSends, TaskGoes, Return
<1>6. Len(send') <= 3 /\ SendsFit'
  BY SendKind, <1>3, <1>4, <1>5 DEF TypeOK, Adds, SendsFit, Alive, Stages, SendFile, TaskSends
<1>7. /\ task' \in {"waitHead", "waitFile", "returned"}
      /\ result' \in {"none", "ok", "err", "panic"} /\ closed' \in BOOLEAN
      /\ UNCHANGED <<trouble, disk, late, handlerVars, waitNotify, readerVars, recv, sender,
                     wire, minerVars>>
  BY DEF TypeOK, SendFile, TaskSends, TaskGoes, Return
<1>8. TypeOK'
  BY <1>4, <1>6, <1>7 DEF TypeOK, Commands
<1>9. Words'
  BY DEF Words, SendFile, TaskSends, TaskGoes, Return
<1>10. ChunksFirst' /\ OpenedOnce' /\ Returns'
  BY <1>1, <1>2 DEF TypeOK, ChunksFirst, ChunksAhead, OpenedOnce, Stages, Written, Returns,
     SendFile, TaskSends, TaskGoes, Return
<1>11. OneRequest'
  BY <1>1, <1>3, <1>4 DEF TypeOK, OneRequest, Adds, Silence, Stages, Written, SendFile,
     TaskSends, TaskGoes, Return
<1>12. SuccessAfterEnd'
  BY <1>1, <1>2 DEF TypeOK, WayOk, Words, SuccessAfterEnd, HasEnd, EndsAhead, Alive,
     OneAnswer, Silence, Stages, SendFile, TaskSends, TaskGoes, Return
<1>13. Stages'
  BY <1>1, <1>2 DEF TypeOK, WayOk, Words, Stages, Silence, OneAnswer, AnswerOk, OpenedOnce,
     Alive, SendFile, TaskSends, TaskGoes, Return
<1> QED
  BY <1>6, <1>8, <1>9, <1>10, <1>11, <1>12, <1>13

LEMMA SendCloseKeeps ==
    ASSUME IInv, SendClose
    PROVE  IInv'
<1>1. Way' = Way
  BY DEF SendClose, TaskSends, TaskGoes, Return, Way, Held
<1>2. WayOk
  BY WayKind
<1>3. \/ task' = "returned" /\ send' = send
      \/ task' = "returned" /\ send' = Append(send, "close") /\ Adds(send, "close", send')
  BY SendAdds DEF Commands, SendClose, TaskSends, TaskGoes, Return
<1>4. /\ send \in Seq(Commands) /\ send' \in Seq(Commands)
      /\ Len(send) \in Nat /\ Len(send') \in Nat
  BY SendKind, SendAdds DEF Commands, SendClose, TaskSends, TaskGoes, Return
<1>5. task # "returned" /\ handler' = handler
  BY DEF SendClose, TaskSends, TaskGoes, Return
<1>6. Len(send') <= 3 /\ SendsFit'
  BY SendKind, <1>3, <1>4, <1>5 DEF TypeOK, Adds, SendsFit, Alive, Stages, SendClose, TaskSends
<1>7. /\ task' \in {"waitHead", "waitFile", "returned"}
      /\ result' \in {"none", "ok", "err", "panic"} /\ closed' \in BOOLEAN
      /\ UNCHANGED <<trouble, disk, late, handlerVars, waitNotify, readerVars, recv, sender,
                     wire, minerVars>>
  BY DEF TypeOK, SendClose, TaskSends, TaskGoes, Return
<1>8. TypeOK'
  BY <1>4, <1>6, <1>7 DEF TypeOK, Commands
<1>9. Words'
  BY DEF Words, SendClose, TaskSends, TaskGoes, Return
<1>10. ChunksFirst' /\ OpenedOnce' /\ Returns'
  BY <1>1, <1>2 DEF TypeOK, ChunksFirst, ChunksAhead, OpenedOnce, Stages, Written, Returns,
     SendClose, TaskSends, TaskGoes, Return
<1>11. OneRequest'
  BY <1>1, <1>3, <1>4 DEF TypeOK, OneRequest, Adds, Silence, Stages, Written, SendClose,
     TaskSends, TaskGoes, Return
<1>12. SuccessAfterEnd'
  BY <1>1, <1>2 DEF TypeOK, WayOk, Words, SuccessAfterEnd, HasEnd, EndsAhead, Alive,
     OneAnswer, Silence, Stages, SendClose, TaskSends, TaskGoes, Return
<1>13. Stages'
  BY <1>1, <1>2 DEF TypeOK, WayOk, Words, Stages, Silence, OneAnswer, AnswerOk, OpenedOnce,
     Alive, SendClose, TaskSends, TaskGoes, Return
<1> QED
  BY <1>6, <1>8, <1>9, <1>10, <1>11, <1>12, <1>13

LEMMA CreateFailsKeeps ==
    ASSUME IInv, CreateFails
    PROVE  IInv'
<1>1. Way' = Way
  BY DEF CreateFails, Return, Way, Held
<1>2. WayOk
  BY WayKind
<1>3. \/ task' = "returned" /\ send' = send
      \/ task' = "returned" /\ send' = Append(send, "close") /\ Adds(send, "close", send')
  BY SendAdds DEF Commands, CreateFails, Return
<1>4. /\ send \in Seq(Commands) /\ send' \in Seq(Commands)
      /\ Len(send) \in Nat /\ Len(send') \in Nat
  BY SendKind, SendAdds DEF Commands, CreateFails, Return
<1>5. task # "returned" /\ handler' = handler
  BY DEF CreateFails, Return
<1>6. Len(send') <= 3 /\ SendsFit'
  BY SendKind, <1>3, <1>4, <1>5 DEF TypeOK, Adds, SendsFit, Alive, Stages, CreateFails,
     TaskSends
<1>7. /\ task' \in {"waitHead", "waitFile", "returned"}
      /\ result' \in {"none", "ok", "err", "panic"} /\ closed' \in BOOLEAN
      /\ UNCHANGED <<trouble, disk, late, handlerVars, waitNotify, readerVars, recv, sender,
                     wire, minerVars>>
  BY DEF TypeOK, CreateFails, Return
<1>8. TypeOK'
  BY <1>4, <1>6, <1>7 DEF TypeOK, Commands
<1>9. Words'
  BY DEF Words, CreateFails, Return
<1>10. ChunksFirst' /\ OpenedOnce' /\ Returns'
  BY <1>1, <1>2 DEF TypeOK, ChunksFirst, ChunksAhead, OpenedOnce, Stages, Written, Returns,
     CreateFails, Return
<1>11. OneRequest'
  BY <1>1, <1>3, <1>4 DEF TypeOK, OneRequest, Adds, Silence, Stages, Written, CreateFails,
     Return
<1>12. SuccessAfterEnd'
  BY <1>1, <1>2 DEF TypeOK, WayOk, Words, SuccessAfterEnd, HasEnd, EndsAhead, Alive,
     OneAnswer, Silence, Stages, CreateFails, Return
<1>13. Stages'
  BY <1>1, <1>2 DEF TypeOK, WayOk, Words, Stages, Silence, OneAnswer, AnswerOk, OpenedOnce,
     Alive, CreateFails, Return
<1> QED
  BY <1>6, <1>8, <1>9, <1>10, <1>11, <1>12, <1>13

LEMMA GetChunkKeeps ==
    ASSUME IInv, GetChunk
    PROVE  IInv'
<1>1. Pops(Way, "chunk", Way') /\ WayOk'
  BY GetsPops DEF GetChunk
<1>2. WayOk
  BY WayKind
<1>3. Way # <<>> /\ handler = "get" /\ Way[1] = "chunk" /\ Len(Way') = Len(Way) - 1
  BY <1>1, <1>2 DEF WayOk, Pops, GetChunk, Gets, Fails
<1>4. /\ Written + 1 <= sent /\ Written \in Nat
      /\ task \notin {"sendHead", "waitHead", "create", "sendFile"}
  BY <1>2, <1>3 DEF TypeOK, WayOk, ChunksFirst, ChunksAhead, Written, Stages, Silence,
     OneAnswer
<1>5. \/ /\ handler' = "loop" /\ opened' = TRUE /\ disk' = Written + 1 /\ disk' \in 1..Chunks
         /\ send' = send
      \/ /\ handler' = "exit" /\ UNCHANGED <<disk, late, opened>>
         /\ send' = send \/ send' = Append(send, "close")
  <2>1. \/ opened /\ disk = Written /\ disk # NoFile
        \/ ~opened /\ disk = NoFile
        \/ ~opened /\ disk = 0 /\ Written = 0
    BY <1>3, <1>4 DEF TypeOK, OpenedOnce, Written
  <2>2. Written + 1 \in 1..Chunks
    BY <1>4 DEF TypeOK
  <2>3. ASSUME opened \/ disk # NoFile, disk' = IF opened THEN disk + 1 ELSE 1
        PROVE  disk' = Written + 1 /\ disk' \in 1..Chunks
    BY <2>1, <2>2, <2>3
  <2> QED
    BY <2>3 DEF GetChunk, Fails
<1>6. /\ send \in Seq(Commands) /\ send' \in Seq(Commands)
      /\ Len(send) \in Nat /\ Len(send') \in Nat
      /\ send' = send \/ Adds(send, "close", send')
  BY <1>5, SendKind, SendAdds, LenProperties DEF Commands
<1>7. Len(send') <= 3 /\ SendsFit'
  BY <1>3, <1>5, <1>6 DEF Adds, SendsFit, Alive, TypeOK, GetChunk, Gets, Fails
<1>8. TypeOK'
  <2>1. recv' \in Seq(Messages) /\ Len(recv') <= ReadBuffers
    BY DEF TypeOK, GetChunk, Gets
  <2>2. UNCHANGED <<trouble, task, result, waitNotify, reader, hand, sender, closed, wire, peer,
                    miner, sent, note>>
    BY DEF GetChunk, Gets
  <2>3. disk' \in NoFile..Chunks
    <3>1. disk \in NoFile..Chunks /\ (disk' = disk \/ disk' \in 1..Chunks)
      BY <1>5 DEF TypeOK
    <3> QED
      BY <3>1
  <2>5. handler' \in {"loop", "exit"} /\ opened' \in BOOLEAN
    BY <1>5 DEF TypeOK
  <2>4. late' \in BOOLEAN
    <3>1. late' = late \/ late' = (late \/ result # "none")
      BY Zenon DEF GetChunk
    <3> QED
      BY <3>1 DEF TypeOK
  <2> QED
    BY <1>6, <1>7, <2>1, <2>2, <2>3, <2>4, <2>5 DEF TypeOK, Commands
<1>9. Words' /\ Returns'
  BY <1>3, <1>5 DEF TypeOK, Words, Returns, GetChunk, Gets, Fails
<1>10. ChunksFirst'
  <2>1. /\ Len(Way) \in Nat /\ Len(Way') \in Nat /\ Written \in Int /\ sent \in Int
        /\ ChunksAhead(Way, Written, sent)
    BY <1>1, <1>2 DEF WayOk, TypeOK, Written, ChunksFirst
  <2>2. ChunksAhead(Way', Written + 1, sent)
    BY <1>1, <2>1, ChunksAheadKept, Zenon
  <2>3. ChunksAhead(Way', Written, sent)
    BY <2>1, <2>2 DEF ChunksAhead
  <2>4. Written' = Written + 1 \/ Written' = Written
    BY <1>4, <1>5 DEF Written
  <2>5. sent' = sent /\ miner' = miner
    BY DEF GetChunk, Gets
  <2>6. ChunksAhead(Way', Written', sent')
    BY <2>2, <2>3, <2>4, <2>5
  <2>7. ASSUME miner = "file"
        PROVE  /\ \A i \in 1..Len(Way') : Way'[i] = "chunk"
               /\ Written' + Len(Way') <= sent /\ sent < Chunks
    <3>1. /\ \A i \in 1..Len(Way) : Way[i] = "chunk"
          /\ Written + Len(Way) <= sent /\ sent < Chunks
      BY <2>7 DEF ChunksFirst
    <3> QED
      BY <1>1, <1>3, <2>1, <2>4, <3>1 DEF Pops
  <2> QED
    BY <2>5, <2>6, <2>7 DEF ChunksFirst
<1>11. SuccessAfterEnd'
  <2>1. disk # Chunks
    BY <1>4 DEF TypeOK, Written
  <2>2. EndsAhead(Way) => EndsAhead(Way')
    BY <1>1, <1>2, EndsAheadKept DEF WayOk
  <2>3. HasEnd(Way) => HasEnd(Way')
    BY <1>1, <1>2, HasEndKept DEF WayOk
  <2> QED
    BY <1>3, <1>5, <2>1, <2>2, <2>3 DEF SuccessAfterEnd, Alive, GetChunk, Gets
<1>12. OpenedOnce'
  BY <1>3, <1>5, SMTT(20) DEF TypeOK, OpenedOnce, GetChunk, Gets, Fails
<1>13. Stages'
  BY <1>1, <1>2, <1>3, <1>4, <1>5 DEF TypeOK, WayOk, Stages, Silence, OneAnswer, AnswerOk,
     OpenedOnce, GetChunk, Gets, Fails
<1>14. OneRequest'
  BY <1>1, <1>2, <1>3, <1>5, <1>6 DEF TypeOK, OneRequest, Adds, GetChunk, Gets, Fails
<1> QED
  BY <1>7, <1>8, <1>9, <1>10, <1>11, <1>12, <1>13, <1>14

LEMMA GetEndKeeps ==
    ASSUME IInv, GetEnd
    PROVE  IInv'
<1>1. Pops(Way, "end", Way') /\ WayOk'
  BY GetsPops DEF GetEnd
<1>2. WayOk
  BY WayKind
<1>3. Way # <<>> /\ handler = "get" /\ Way[1] = "end" /\ Len(Way') = Len(Way) - 1
  BY <1>1, <1>2 DEF WayOk, Pops, GetEnd, Gets, Fails
<1>4. \/ /\ handler' = "loop" /\ opened' = FALSE /\ disk = Chunks /\ send' = send
      \/ /\ handler' = "exit" /\ UNCHANGED opened
         /\ send' = send \/ send' = Append(send, "close")
  BY DEF GetEnd, Gets, Fails
<1>5. /\ send \in Seq(Commands) /\ send' \in Seq(Commands)
      /\ Len(send) \in Nat /\ Len(send') \in Nat
      /\ send' = send \/ Adds(send, "close", send')
  BY <1>4, SendKind, SendAdds, LenProperties DEF Commands
<1>6. Len(send') <= 3 /\ SendsFit'
  BY <1>3, <1>4, <1>5 DEF Adds, SendsFit, Alive, TypeOK, GetEnd, Gets, Fails
<1>7. TypeOK'
  <2>1. recv' \in Seq(Messages) /\ Len(recv') <= ReadBuffers
    BY DEF TypeOK, GetEnd, Gets
  <2>2. UNCHANGED <<trouble, disk, late, task, result, waitNotify, reader, hand, sender, closed,
                    wire, peer, miner, sent, note>>
    BY DEF GetEnd, Gets
  <2>3. handler' \in {"loop", "exit"} /\ opened' \in BOOLEAN
    BY <1>4 DEF TypeOK
  <2> QED
    BY <1>5, <1>6, <2>1, <2>2, <2>3 DEF TypeOK, Commands
<1>8. Words' /\ Returns'
  BY <1>3, <1>4 DEF TypeOK, Words, Returns, GetEnd, Gets, Fails
<1>9. ChunksFirst'
  <2>1. /\ Len(Way) \in Nat /\ Len(Way') \in Nat /\ Written \in Int /\ sent \in Int
        /\ ChunksAhead(Way, Written, sent)
    BY <1>1, <1>2 DEF WayOk, TypeOK, Written, ChunksFirst
  <2>2. ChunksAhead(Way', Written, sent)
    BY <1>1, <2>1, ChunksAheadKept, Zenon
  <2>3. miner # "file"
    BY <1>2, <1>3 DEF WayOk, ChunksFirst
  <2>4. Written' = Written /\ sent' = sent /\ miner' = miner
    BY DEF Written, GetEnd, Gets
  <2> QED
    BY <2>2, <2>3, <2>4 DEF ChunksFirst
<1>10. SuccessAfterEnd'
  BY <1>1, <1>2, <1>3, <1>4, EndsAheadKept, HasEndKept DEF WayOk, TypeOK, SuccessAfterEnd,
     Alive, GetEnd, Gets, Fails
<1>11. OpenedOnce'
  BY <1>3, <1>4 DEF TypeOK, OpenedOnce, GetEnd, Gets, Fails
<1>12. Stages'
  <2>1. task \notin {"sendHead", "waitHead", "create", "sendFile"}
    BY <1>2, <1>3 DEF TypeOK, WayOk, Stages, Silence, OneAnswer
  <2>2. UNCHANGED <<task, miner>>
    BY DEF GetEnd, Gets
  <2> QED
    BY <2>1, <2>2 DEF TypeOK, Stages
<1>13. OneRequest'
  BY <1>1, <1>2, <1>3, <1>4, <1>5, SMTT(20) DEF TypeOK, OneRequest, Adds, GetEnd, Gets, Fails
<1> QED
  BY <1>6, <1>7, <1>8, <1>9, <1>10, <1>11, <1>12, <1>13

LEMMA GetNotifyKeeps ==
    ASSUME IInv, NEW m, GetNotify(m)
    PROVE  IInv'
<1>1. Pops(Way, m, Way') /\ WayOk'
  BY GetsPops DEF GetNotify
<1>2. WayOk
  BY WayKind
<1>3. Way # <<>> /\ handler = "get" /\ Way[1] = m /\ Len(Way') = Len(Way) - 1
  BY <1>1, <1>2 DEF WayOk, Pops, GetNotify, Gets
<1>4. TypeOK' /\ SendsFit'
  BY <1>1 DEF TypeOK, SendsFit, Alive, GetNotify, Gets
<1>5. Words' /\ Returns'
  BY <1>3 DEF TypeOK, Words, Returns, GetNotify, Gets
<1>6. ChunksFirst'
  <2>1. /\ Len(Way) \in Nat /\ Len(Way') \in Nat /\ Written \in Int /\ sent \in Int
        /\ ChunksAhead(Way, Written, sent)
    BY <1>1, <1>2 DEF WayOk, TypeOK, Written, ChunksFirst
  <2>2. ChunksAhead(Way', Written, sent)
    BY <1>1, <2>1, ChunksAheadKept DEF GetNotify
  <2>3. miner # "file"
    BY <1>2, <1>3 DEF WayOk, ChunksFirst, GetNotify
  <2>4. Written' = Written /\ sent' = sent /\ miner' = miner
    BY DEF Written, GetNotify, Gets
  <2> QED
    BY <2>2, <2>3, <2>4 DEF ChunksFirst
<1>7. SuccessAfterEnd'
  <2>1. m = "ok" => ~EndsAhead(Way)
    BY <1>2, <1>3 DEF WayOk, EndsAhead
  <2>2. EndsAhead(Way) => EndsAhead(Way')
    BY <1>1, <1>2, EndsAheadKept DEF WayOk, GetNotify
  <2>3. HasEnd(Way) => HasEnd(Way')
    BY <1>1, <1>2, HasEndKept DEF WayOk, GetNotify
  <2> QED
    BY <1>3, <2>1, <2>2, <2>3 DEF SuccessAfterEnd, Alive, GetNotify, Gets
<1>8. OpenedOnce'
  BY <1>3 DEF TypeOK, OpenedOnce, GetNotify, Gets
<1>9. Stages'
  <2>1. UNCHANGED <<task, disk, sent, opened, miner, send, waitNotify>> /\ handler' = "notify"
        /\ note' = m
    BY DEF GetNotify, Gets
  <2>2. task \notin {"sendHead", "create", "sendFile"}
    BY <1>3 DEF Stages, Silence
  <2>3. task = "waitHead" => Way' = <<>> /\ waitNotify = <<>> /\ (m = "ok" => miner = "ready")
                             /\ miner \notin {"idle", "head"}
    BY <1>1, <1>2, <1>3 DEF WayOk, Stages, Silence, OneAnswer, AnswerOk
  <2>4. task = "waitHead" => \A i \in 1..Len(Way') : FALSE
    BY <1>1, <2>3 DEF WayOk
  <2> QED
    BY <2>1, <2>2, <2>3, <2>4 DEF TypeOK, Stages, OneAnswer, AnswerOk
<1>10. OneRequest'
  BY <1>1, <1>2, <1>3 DEF TypeOK, OneRequest, Adds, GetNotify, Gets
<1> QED
  BY <1>4, <1>5, <1>6, <1>7, <1>8, <1>9, <1>10

LEMMA AnswerHeadKeeps ==
    ASSUME IInv, AnswerHead
    PROVE  IInv'
<1>1. \/ Adds(Way, "ok", Way') /\ miner' = "ready"
      \/ Adds(Way, "err", Way') /\ miner' = "quiet"
  BY MinerAdds DEF TypeOK, ChunksFirst, AnswerHead, MinerSends
<1>2. WayOk /\ WayOk'
  BY WayKind, MinerAdds DEF AnswerHead, MinerSends
<1>3. /\ UNCHANGED <<trouble, disk, late, taskVars, handlerVars, waitNotify, readerVars, recv,
                     sender, send, closed, peer>>
      /\ miner = "head" /\ peer = "open"
      /\ wire' \in Seq(Messages) /\ sent' = sent
  BY MinerAdds DEF Messages, AnswerHead, MinerSends
<1>4. TypeOK' /\ Words'
  BY <1>1, <1>3 DEF TypeOK, Words
<1>5. SendsFit' /\ Returns' /\ OpenedOnce'
  BY <1>3 DEF TypeOK, SendsFit, Alive, Returns, OpenedOnce
<1>6. ChunksFirst'
  <2>1. /\ Len(Way) \in Nat /\ Len(Way') \in Nat /\ Written \in Int /\ sent \in Int
        /\ ChunksAhead(Way, Written, sent)
    BY <1>1, <1>2 DEF WayOk, TypeOK, Written, ChunksFirst
  <2>2. ChunksAhead(Way', Written, sent)
    BY <1>1, <2>1, ChunksAheadKept
  <2> QED
    BY <1>1, <1>2, <2>1, <2>2, <1>3 DEF WayOk, TypeOK, ChunksFirst, Written, Adds
<1>7. SuccessAfterEnd'
  <2>1. miner' # "notify" /\ task # "waitFile"
    BY <1>1, <1>3 DEF Stages
  <2> QED
    BY <1>3, <2>1 DEF SuccessAfterEnd
<1>8. Stages'
  <2>1. task # "waitHead" => task \in {"returned"}
    BY <1>3 DEF TypeOK, Stages
  <2>2. ASSUME task = "waitHead"
        PROVE  /\ Len(Way') = 1 /\ handler # "notify" /\ waitNotify = <<>> /\ send = <<>>
               /\ \/ Way'[1] = "ok" /\ miner' = "ready"
                  \/ Way'[1] = "err" /\ miner' = "quiet"
    BY <1>1, <1>2, <1>3, <2>2 DEF Stages, Silence, Adds, WayOk
  <2> QED
    BY <1>3, <2>1, <2>2 DEF TypeOK, Stages, OneAnswer, AnswerOk
<1>9. OneRequest'
  BY <1>1, <1>3 DEF TypeOK, OneRequest, Stages, Written
<1> QED
  BY <1>4, <1>5, <1>6, <1>7, <1>8, <1>9

LEMMA AnswerFileKeeps ==
    ASSUME IInv, AnswerFile
    PROVE  IInv'
<1>1. \/ /\ Adds(Way, "chunk", Way') /\ sent' = sent + 1 /\ sent' \in 1..Chunks
         /\ (miner' = "file" /\ sent' < Chunks) \/ miner' = "end"
      \/ Adds(Way, "err", Way') /\ miner' = "quiet" /\ sent' = sent
  <2>1. sent + 1 \in 1..Chunks
    BY DEF TypeOK, ChunksFirst, AnswerFile
  <2>2. CASE MinerSends("chunk") /\ sent' = sent + 1
    <3>1. miner' = IF sent' = Chunks THEN "end" ELSE "file"
      BY <2>1, <2>2 DEF AnswerFile
    <3> QED
      BY <2>1, <2>2, <3>1, MinerAdds
  <2>3. CASE MinerSends("err") /\ miner' = "quiet" /\ sent' = sent
    BY <2>3, MinerAdds
  <2> QED
    BY <2>2, <2>3 DEF AnswerFile
<1>2. WayOk /\ WayOk'
  BY WayKind, MinerAdds DEF AnswerFile, MinerSends
<1>3. /\ UNCHANGED <<trouble, disk, late, taskVars, handlerVars, waitNotify, readerVars, recv,
                     sender, send, closed, peer>>
      /\ miner = "file" /\ peer = "open"
      /\ wire' \in Seq(Messages)
  BY MinerAdds DEF Messages, AnswerFile, MinerSends
<1>4. TypeOK' /\ Words'
  BY <1>1, <1>3 DEF TypeOK, Words
<1>5. SendsFit' /\ Returns' /\ OpenedOnce'
  BY <1>3 DEF TypeOK, SendsFit, Alive, Returns, OpenedOnce
<1>6. ChunksFirst'
  <2>1. /\ Len(Way) \in Nat /\ Len(Way') \in Nat /\ Written \in Int /\ sent \in Int
        /\ ChunksAhead(Way, Written, sent)
    BY <1>1, <1>2 DEF WayOk, TypeOK, Written, ChunksFirst
  <2>2. Written' = Written
    BY <1>3 DEF Written
  <2>3. ASSUME Adds(Way, "chunk", Way'), sent' = sent + 1
        PROVE  /\ \A i \in 1..Len(Way') : Way'[i] = "chunk"
               /\ Written + Len(Way') <= sent'
    BY <1>3, <2>1, <2>3 DEF ChunksFirst, Adds
  <2>4. ASSUME \A i \in 1..Len(Way') : Way'[i] = "chunk", Written + Len(Way') <= sent + 1
        PROVE  ChunksAhead(Way', Written, sent + 1)
    BY <2>1, <2>4 DEF ChunksAhead
  <2>5. Adds(Way, "err", Way') => ChunksAhead(Way', Written, sent)
    BY <2>1, ChunksAheadKept
  <2> QED
    BY <1>1, <2>2, <2>3, <2>4, <2>5 DEF ChunksFirst
<1>7. SuccessAfterEnd'
  BY <1>1, <1>2, <1>3, EndsAheadKept, HasEndKept DEF TypeOK, WayOk, SuccessAfterEnd, Alive
<1>8. Stages'
  BY <1>1, <1>2, <1>3 DEF TypeOK, WayOk, Stages, Silence, OneAnswer, AnswerOk, Adds, Words
<1>9. OneRequest'
  BY <1>1, <1>3 DEF TypeOK, OneRequest, Stages, Written
<1> QED
  BY <1>4, <1>5, <1>6, <1>7, <1>8, <1>9

LEMMA AnswerEndKeeps ==
    ASSUME IInv, AnswerEnd \/ AnswerNotify
    PROVE  IInv'
<1>1. \/ miner = "end" /\ Adds(Way, "end", Way') /\ miner' = "notify"
      \/ miner = "notify" /\ Adds(Way, "ok", Way') /\ miner' = "quiet"
  BY MinerAdds DEF AnswerEnd, AnswerNotify
<1>2. WayOk /\ WayOk'
  BY WayKind, MinerAdds DEF AnswerEnd, AnswerNotify
<1>3. /\ UNCHANGED <<trouble, disk, late, taskVars, handlerVars, waitNotify, readerVars, recv,
                     sender, send, closed, peer>>
      /\ peer = "open"
      /\ wire' \in Seq(Messages) /\ sent' = sent
  BY MinerAdds DEF AnswerEnd, AnswerNotify, MinerSends
<1>4. TypeOK' /\ Words'
  BY <1>1, <1>3 DEF TypeOK, Words
<1>5. SendsFit' /\ Returns' /\ OpenedOnce'
  BY <1>3 DEF TypeOK, SendsFit, Alive, Returns, OpenedOnce
<1>6. ChunksFirst'
  <2>1. /\ Len(Way) \in Nat /\ Len(Way') \in Nat /\ Written \in Int /\ sent \in Int
        /\ ChunksAhead(Way, Written, sent)
    BY <1>2 DEF WayOk, TypeOK, Written, ChunksFirst
  <2>2. ChunksAhead(Way', Written, sent)
    BY <1>1, <2>1, ChunksAheadKept
  <2>3. Written' = Written
    BY <1>3 DEF Written
  <2> QED
    BY <1>1, <1>3, <2>2, <2>3 DEF ChunksFirst
<1>7. SuccessAfterEnd'
  BY <1>1, <1>2, <1>3, EndsAheadKept, HasEndKept DEF TypeOK, WayOk, SuccessAfterEnd, Alive
<1>8. Stages'
  BY <1>1, <1>3 DEF TypeOK, Stages
<1>9. OneRequest'
  BY <1>1, <1>3 DEF TypeOK, OneRequest
<1> QED
  BY <1>4, <1>5, <1>6, <1>7, <1>8, <1>9

LEMMA MinerGoneKeeps ==
    ASSUME IInv, MinerGone
    PROVE  IInv'
<1>1. Cuts(Way, Way') /\ WayOk'
  BY BreakCuts
<1>2. WayOk
  BY WayKind
<1>3. /\ UNCHANGED <<trouble, disk, late, taskVars, handlerVars, waitNotify, readerVars, recv,
                     sender, send, closed, miner, sent>>
      /\ peer' \in {"eof", "reset"} /\ wire' \in Seq(Messages)
  BY BreakCuts DEF MinerGone
<1>4. TypeOK' /\ Words'
  BY <1>3 DEF TypeOK, Words
<1>5. SendsFit' /\ Returns' /\ OpenedOnce'
  BY <1>3 DEF TypeOK, SendsFit, Alive, Returns, OpenedOnce
<1>6. ChunksFirst'
  <2>1. /\ Len(Way) \in Nat /\ Len(Way') \in Nat /\ Written \in Int /\ sent \in Int
        /\ ChunksAhead(Way, Written, sent)
    BY <1>1, <1>2 DEF WayOk, TypeOK, Written, ChunksFirst
  <2>2. ChunksAhead(Way', Written, sent)
    BY <1>1, <2>1, ChunksAheadKept, Zenon
  <2> QED
    <3>1. Written' = Written /\ sent' = sent /\ miner' = miner
      BY <1>3 DEF Written
    <3>2. miner = "file" =>
            /\ \A i \in 1..Len(Way') : Way'[i] = "chunk"
            /\ Written + Len(Way') <= sent /\ sent < Chunks
      BY <1>1, <2>1 DEF ChunksFirst, Cuts
    <3> QED
      BY <2>2, <3>1, <3>2 DEF ChunksFirst
<1>7. SuccessAfterEnd'
  BY <1>1, <1>2, <1>3, EndsAheadKept DEF TypeOK, WayOk, SuccessAfterEnd, Alive
<1>8. Stages'
  BY <1>1, <1>2, <1>3 DEF TypeOK, WayOk, Stages, Silence, OneAnswer, AnswerOk, Cuts, Words
<1>9. OneRequest'
  BY <1>1, <1>2, <1>3 DEF TypeOK, OneRequest, Stages, Written, Cuts, WayOk
<1> QED
  BY <1>4, <1>5, <1>6, <1>7, <1>8, <1>9

LEMMA TransmitKeeps ==
    ASSUME IInv, Transmit
    PROVE  IInv'
<1>1. Way' = Way
  BY DEF Transmit, Way, Held
<1>2. WayOk
  BY WayKind
<1>3. /\ send' \in Seq(Commands) /\ Pops(send, send[1], send')
      /\ Len(send) \in Nat /\ Len(send') \in Nat /\ send # <<>> /\ Len(send) = Len(send') + 1
  BY SendPops, SendKind, LenProperties DEF Transmit, Pops
<1>4. \/ miner' = miner
      \/ miner' = "quiet"
      \/ miner = "idle" /\ miner' = "head"
      \/ send[1] = "file" /\ miner = "ready" /\ miner' = "file"
  BY <1>3, SendPops DEF Transmit, Pops
<1>5. /\ UNCHANGED <<trouble, disk, late, taskVars, handlerVars, waitNotify, readerVars, recv,
                     wire, peer, sent>>
      /\ sender' \in {"run", "sleep"} /\ closed' \in BOOLEAN /\ (closed => closed')
  BY DEF TypeOK, Transmit
<1>6. TypeOK' /\ Words'
  BY <1>3, <1>4, <1>5 DEF TypeOK, Words, Commands
<1>7. SendsFit' /\ Returns' /\ OpenedOnce'
  BY <1>3, <1>5 DEF SendsFit, Alive, Returns, OpenedOnce, TypeOK
<1>8. ChunksFirst'
  BY <1>1, <1>2, <1>3, <1>4, <1>5 DEF WayOk, TypeOK, ChunksFirst, ChunksAhead, Written,
     OneRequest
<1>9. SuccessAfterEnd'
  BY <1>1, <1>4, <1>5 DEF SuccessAfterEnd, Alive, HasEnd, EndsAhead
<1>10. Stages'
  BY <1>1, <1>2, <1>3, <1>4, <1>5, SMTT(20) DEF TypeOK, WayOk, Stages, Silence, OneAnswer,
     AnswerOk, OneRequest, Pops
<1>11. OneRequest'
  BY <1>1, <1>3, <1>4, <1>5 DEF OneRequest, Written, Pops
<1> QED
  BY <1>6, <1>7, <1>8, <1>9, <1>10, <1>11

-----------------------------------------------------------------------------
LEMMA InitInv == Init => IInv
<1> SUFFICES ASSUME Init
             PROVE  IInv
  OBVIOUS
<1>1. Way = <<>> /\ Len(Way) = 0
  <2>1. <<>> \in Seq(Messages) /\ <<>> \o <<>> = <<>>
    BY ConcatEmptySeq
  <2>2. Way = (<<>> \o <<>>) \o <<>>
    BY DEF Init, Way, Held
  <2> QED
    BY <2>1, <2>2
<1>2. \A i \in 1..Len(Way) : FALSE
  BY <1>1
<1>3. TypeOK /\ Words
  <2>1. /\ recv \in Seq(Messages) /\ Len(recv) <= ReadBuffers /\ wire \in Seq(Messages)
        /\ send \in Seq({"head", "file", "close"}) /\ Len(send) <= 3
    BY EmptySeq DEF Init
  <2>2. disk \in NoFile..Chunks /\ sent \in 0..Chunks
    BY DEF Init
  <2> QED
    BY <2>1, <2>2 DEF Init, TypeOK, Words
<1>4. ChunksFirst /\ SuccessAfterEnd
  BY <1>2 DEF Init, ChunksFirst, ChunksAhead, SuccessAfterEnd
<1>5. OpenedOnce /\ Stages /\ OneRequest /\ SendsFit /\ Returns
  BY <1>1 DEF Init, OpenedOnce, Stages, Silence, OneRequest, SendsFit, Returns
<1> QED
  BY <1>3, <1>4, <1>5

LEMMA StutterKeeps == IInv /\ UNCHANGED vars => IInv'
<1> SUFFICES ASSUME IInv, UNCHANGED vars
             PROVE  IInv'
  OBVIOUS
<1> USE DEF vars
<1>1. Way' = Way
  BY DEF Way, Held
<1>2. TypeOK' /\ Words'
  BY DEF TypeOK, Words
<1>3. ChunksFirst' /\ SuccessAfterEnd'
  BY <1>1 DEF TypeOK, ChunksFirst, SuccessAfterEnd, Written, Alive
<1>4. OpenedOnce' /\ OneRequest' /\ SendsFit' /\ Returns'
  BY <1>1 DEF TypeOK, OpenedOnce, OneRequest, SendsFit, Returns, Written, Alive
<1>5. Stages'
  BY <1>1 DEF TypeOK, Stages, Silence, OneAnswer, AnswerOk
<1> QED
  BY <1>2, <1>3, <1>4, <1>5

LEMMA StepKeeps == IInv /\ [Next]_vars => IInv'
<1> SUFFICES ASSUME IInv, [Next]_vars
             PROVE  IInv'
  OBVIOUS
<1>1. ASSUME Task
      PROVE  IInv'
  BY <1>1, SendHeadKeeps, WaitsKeeps, CreateFileKeeps, CreateFailsKeeps, SendFileKeeps,
     SendCloseKeeps, Zenon DEF Task
<1>2. ASSUME Handler
      PROVE  IInv'
  BY <1>2, HandlerLoopKeeps, GetChunkKeeps, GetEndKeeps, GetNotifyKeeps, NotifyKeeps,
     HandlerExitKeeps, Zenon DEF Handler
<1>3. ASSUME Reader \/ Sender
      PROVE  IInv'
  BY <1>3, ReadKeeps, PushKeeps, EndsKeeps, TransmitKeeps, Zenon DEF Reader, Sender
<1>4. ASSUME Miner
      PROVE  IInv'
  BY <1>4, AnswerHeadKeeps, AnswerFileKeeps, AnswerEndKeeps, Zenon DEF Miner
<1> QED
  BY <1>1, <1>2, <1>3, <1>4, TimerFiresKeeps, MinerGoneKeeps, StutterKeeps, Zenon DEF Next

LEMMA Inductive == Spec => []IInv
<1>1. Init => IInv
  BY InitInv
<1>2. IInv /\ [Next]_vars => IInv'
  BY StepKeeps
<1> QED
  BY <1>1, <1>2, PTL DEF Spec

(* The goroutines, the channels and the connection stay what they are: the *)
(* three messages the cacher ever has in "send" fit it, so that no SendMsg *)
(* blocks, and the file never holds more chunks than the slice.            *)
THEOREM TypeCorrect == Spec => []TypeOK
<1>1. IInv => TypeOK
  OBVIOUS
<1> QED
  BY <1>1, Inductive, PTL

-----------------------------------------------------------------------------
(* What a step does to the file and the result, as Download allows it.     *)
Allowed == D!Create \/ D!Grow \/ (\E r \in {"ok", "err", "panic"} : D!End(r))
           \/ UNCHANGED <<disk, result, late>>

LEMMA ReturnAllowed ==
    ASSUME IInv, task # "returned", NEW r \in {"ok", "err", "panic"}, Return(r),
           r = "ok" => disk = Chunks, UNCHANGED <<disk, late>>
    PROVE  Allowed
<1>1. result = "none" /\ result' = r
  BY DEF Returns, Return
<1> QED
  BY <1>1 DEF Allowed, D!End

LEMMA ChunkAllowed ==
    ASSUME IInv, GetChunk
    PROVE  Allowed
<1>1. WayOk /\ Pops(Way, "chunk", Way') /\ handler = "get" /\ result' = result
  BY WayKind, GetsPops DEF GetChunk, Gets
<1>2. Way # <<>> /\ Way[1] = "chunk"
  BY GetsPops DEF GetChunk, Pops, WayOk
<1>3. Written + 1 <= sent /\ Written \in Nat
  BY <1>1, <1>2 DEF TypeOK, WayOk, ChunksFirst, ChunksAhead, Written
<1>4. \/ opened /\ disk = Written
      \/ ~opened /\ disk = NoFile
      \/ ~opened /\ disk = 0 /\ Written = 0
  BY <1>1, <1>3 DEF TypeOK, OpenedOnce, Written
<1>5. disk # Chunks /\ (disk # NoFile => disk \in 0..Chunks-1)
  BY <1>3 DEF TypeOK, Written
<1>6. result # "ok" /\ (late => FALSE)
  BY <1>1, <1>5 DEF SuccessAfterEnd, Returns
<1>7. CASE UNCHANGED <<disk, late>>
  BY <1>1, <1>7 DEF Allowed
<1>8. ASSUME opened \/ disk # NoFile, disk' = IF opened THEN disk + 1 ELSE 1,
             late' = (late \/ result # "none")
      PROVE  Allowed
  <2>1. disk \in 0..Chunks-1 /\ disk' = disk + 1
    BY <1>4, <1>5, <1>8, <1>3
  <2>2. late = FALSE
    BY <1>6 DEF TypeOK
  <2>3. CASE result = "none"
    <3>1. late' = late
      BY <2>2, <2>3, <1>8
    <3> QED
      BY <1>1, <2>1, <2>3, <3>1 DEF Allowed, D!Grow
  <2>4. CASE result # "none"
    <3>1. late' = TRUE
      BY <2>4, <1>8
    <3> QED
      BY <1>1, <1>6, <2>1, <2>2, <2>4, <3>1 DEF Allowed, D!Grow
  <2> QED
    BY <2>3, <2>4
<1> QED
  BY <1>7, <1>8 DEF GetChunk

LEMMA StepAllowed == IInv /\ [Next]_vars => Allowed
<1> SUFFICES ASSUME IInv, [Next]_vars
             PROVE  Allowed
  OBVIOUS
<1>1. CASE SendHead \/ SendFile \/ SendClose
  <2>1. /\ task # "returned" /\ UNCHANGED <<disk, late>>
        /\ \/ UNCHANGED result
           \/ Return("panic")
           \/ Return("ok") /\ task = "sendClose"
    BY <1>1 DEF SendHead, SendFile, SendClose, TaskSends, TaskGoes
  <2>2. task = "sendClose" => disk = Chunks
    BY DEF SuccessAfterEnd
  <2>3. CASE UNCHANGED result
    BY <2>1, <2>3 DEF Allowed
  <2> QED
    BY <2>1, <2>2, <2>3, ReturnAllowed
<1>2. CASE WaitHead \/ WaitFile \/ TimerFires \/ CreateFails
  <2>1. /\ task # "returned" /\ UNCHANGED <<disk, late>>
        /\ UNCHANGED result \/ Return("panic") \/ Return("err")
    BY <1>2 DEF WaitHead, WaitFile, Waits, TaskGoes, TimerFires, CreateFails
  <2>2. CASE UNCHANGED result
    BY <2>1, <2>2 DEF Allowed
  <2> QED
    BY <2>1, <2>2, ReturnAllowed
<1>3. CASE CreateFile
  <2>1. disk = NoFile /\ result = "none"
    BY <1>3 DEF CreateFile, Stages, Returns, TypeOK
  <2> QED
    BY <1>3, <2>1 DEF CreateFile, TaskGoes, Allowed, D!Create, D!NoFile
<1>4. CASE GetChunk
  BY <1>4, ChunkAllowed
<1>5. CASE HandlerLoop \/ GetNothing \/ GetEnd \/ Notify \/ HandlerExit
           \/ \E m \in Messages : GetNotify(m)
  BY <1>5 DEF HandlerLoop, GetNothing, GetEnd, GetNotify, Gets, Notify, HandlerExit, Allowed
<1>6. CASE Reader \/ Sender
  BY <1>6 DEF Reader, Sender, Read, Push, ReadFails, Transmit, SenderExit, CloseSend, Allowed
<1>7. CASE Miner \/ MinerGone
  BY <1>7 DEF Miner, AnswerHead, AnswerFile, AnswerEnd, AnswerNotify, MinerSends, MinerGone,
     Allowed
<1>8. CASE UNCHANGED vars
  BY <1>8 DEF vars, Allowed
<1> QED
  BY <1>1, <1>2, <1>3, <1>4, <1>5, <1>6, <1>7, <1>8, Zenon DEF Next, Task, Handler

(* Transfer implements Download: the file is whole when recvFile returns   *)
(* success, whatever the order in which the four goroutines and the miner  *)
(* run and whatever breaks, nobody touches it after a success, and after a *)
(* failure at most one more chunk is written.                              *)
THEOREM ImplementsDownload == Spec => KeepsDownload
<1>1. Init => D!Init
  BY DEF Init, D!Init, D!NoFile
<1>2. IInv /\ [Next]_vars => [D!Next]_(D!vars)
  BY StepAllowed DEF Allowed, D!Next, D!vars
<1> QED
  BY <1>1, <1>2, Inductive, PTL DEF Spec, KeepsDownload, D!Spec
=============================================================================
