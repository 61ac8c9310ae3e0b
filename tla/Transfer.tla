------------------------------ MODULE Transfer ------------------------------
(***************************************************************************)
(* The download of one slice from a storage miner, base/trans/tcp.  Four   *)
(* goroutines of the cacher work on one connection:                        *)
(*                                                                         *)
(*   task      ConMgr.recvFile, run by the cache's download task;          *)
(*   handler   ConMgr.handler, which takes the miner's messages from the   *)
(*             channel "recv", writes the file and passes notifications on *)
(*             to the task through the channel "waitNotify";               *)
(*   reader    TcpCon.readMsg, from the connection to "recv";              *)
(*   sender    TcpCon.sendMsg, from the channel "send" to the connection.  *)
(*                                                                         *)
(* The miner answers a request for the head with a notification, and one   *)
(* for the file with the file's chunks, an end and a notification.         *)
(***************************************************************************)
EXTENDS Integers, Sequences

CONSTANTS
    Chunks,         \* the slice, in messages of the miner
    ReadBuffers     \* length of recv, TCP_Message_Read_Buffers

ASSUME BuffersAssumption == Chunks \in Nat \ {0} /\ ReadBuffers \in Nat \ {0}

Messages == {"ok", "err", "chunk", "end"}
NoMessage == "none"

VARIABLES
    trouble,        \* fixed: the disk, the connection and the miner may fail or be slow
    disk,           \* chunks in the file, or NoFile
    task, result,   \* next step of recvFile, and what it returned
    late,           \* history: a write came after the return
    handler,        \* next step of the handler
    note,           \* the notification the handler passes on
    opened,         \* the handler has the file open
    waitNotify,     \* the channel of length 1
    reader, hand,   \* next step of the reader and the message it read
    recv,           \* the channel
    sender,         \* next step of the sender
    send,           \* the channel; it never holds TCP_Message_Send_Buffers
    closed,         \* TcpCon.stop: the cacher closed the connection
    wire,           \* messages on their way to the cacher
    peer,           \* the miner's side: "open", "eof" or "reset"
    miner, sent     \* the miner's next answer, and the chunks it has sent

taskVars == <<task, result>>
handlerVars == <<handler, note, opened>>
readerVars == <<reader, hand>>
minerVars == <<peer, miner, sent>>
vars == <<trouble, disk, late, taskVars, handlerVars, waitNotify, readerVars, recv, sender, send,
          closed, wire, minerVars>>

NoFile == -1

TypeOK ==
    /\ trouble \in BOOLEAN
    /\ disk \in NoFile..Chunks
    /\ task \in {"sendHead", "waitHead", "create", "sendFile", "waitFile", "sendClose",
                 "returned"}
    /\ result \in {"none", "ok", "err", "panic"}
    /\ late \in BOOLEAN /\ opened \in BOOLEAN /\ closed \in BOOLEAN
    /\ handler \in {"loop", "get", "notify", "exit", "done"}
    /\ note \in Messages \cup {NoMessage} /\ hand \in Messages \cup {NoMessage}
    /\ waitNotify \in {<<>>, <<"ok">>, <<"err">>}
    /\ reader \in {"read", "push", "done"}
    /\ recv \in Seq(Messages) /\ Len(recv) <= ReadBuffers
    /\ sender \in {"run", "sleep", "done"}
    /\ send \in Seq({"head", "file", "close"}) /\ Len(send) <= 3
    /\ wire \in Seq(Messages)
    /\ peer \in {"open", "eof", "reset"}
    /\ miner \in {"idle", "head", "ready", "file", "end", "notify", "quiet"}
    /\ sent \in 0..Chunks

(* downloadFromStorage has connected; there is no file (see FreshTarget in *)
(* SliceCache).                                                            *)
Init ==
    /\ trouble \in BOOLEAN
    /\ disk = NoFile /\ late = FALSE
    /\ task = "sendHead" /\ result = "none"
    /\ handler = "loop" /\ note = NoMessage /\ opened = FALSE
    /\ waitNotify = <<>>
    /\ reader = "read" /\ hand = NoMessage /\ recv = <<>>
    /\ sender = "run" /\ send = <<>>
    /\ closed = FALSE
    /\ wire = <<>> /\ peer = "open" /\ miner = "idle" /\ sent = 0

-----------------------------------------------------------------------------
(* recvFile.                                                               *)

(* It returns, and its deferred call closes the connection.                *)
Return(r) ==
    /\ task' = "returned"
    /\ result' = r
    /\ closed' = TRUE

(* SendMsg: the sender may have closed the channel.                        *)
TaskSends(step, m, next) ==
    /\ task = step
    /\ IF sender = "done"
       THEN Return("panic") /\ UNCHANGED send
       ELSE /\ send' = Append(send, m)
            /\ next
    /\ UNCHANGED <<trouble, disk, late, handlerVars, waitNotify, readerVars, recv, sender,
                   wire, minerVars>>

TaskGoes(step) == task' = step /\ UNCHANGED <<result, closed>>

SendHead == TaskSends("sendHead", "head", TaskGoes("waitHead"))
SendFile == TaskSends("sendFile", "file", TaskGoes("waitFile"))
SendClose == TaskSends("sendClose", "close", Return("ok"))

(* What was notified before the handler closed the channel is still read.  *)
Waits(step, next) ==
    /\ task = step
    /\ \/ waitNotify = <<"ok">> /\ waitNotify' = <<>> /\ TaskGoes(next)
       \/ waitNotify = <<"err">> /\ waitNotify' = <<>> /\ Return("err")
       \/ waitNotify = <<>> /\ handler = "done" /\ Return("err") /\ UNCHANGED waitNotify
    /\ UNCHANGED <<trouble, disk, late, handlerVars, readerVars, recv, sender, send, wire,
                   minerVars>>

WaitHead == Waits("waitHead", "create")
WaitFile == Waits("waitFile", "sendClose")

(* timerHead or timerFile.                                                 *)
TimerFires ==
    /\ task \in {"waitHead", "waitFile"}
    /\ trouble
    /\ Return("err")
    /\ UNCHANGED <<trouble, disk, late, handlerVars, waitNotify, readerVars, recv, sender,
                   send, wire, minerVars>>

CreateFile ==
    /\ task = "create"
    /\ disk' = 0
    /\ TaskGoes("sendFile")
    /\ UNCHANGED <<trouble, late, handlerVars, waitNotify, readerVars, recv, sender, send,
                   wire, minerVars>>

CreateFails ==
    /\ task = "create" /\ trouble
    /\ IF sender = "done"
       THEN Return("panic") /\ UNCHANGED send
       ELSE Return("err") /\ send' = Append(send, "close")
    /\ UNCHANGED <<trouble, disk, late, handlerVars, waitNotify, readerVars, recv, sender,
                   wire, minerVars>>

-----------------------------------------------------------------------------
(* handler.                                                                *)


(* Mutant of HandlerLoop: it does not look whether the connection is closed.*)
MutHandlerLoopBlind ==
    /\ handler = "loop"
    /\ handler' = "get"
    /\ UNCHANGED <<trouble, disk, late, taskVars, note, opened, waitNotify, readerVars, recv,
                   sender, send, closed, wire, minerVars>>

HandlerLoop ==
    /\ handler = "loop"
    /\ handler' = IF closed THEN "exit" ELSE "get"
    /\ UNCHANGED <<trouble, disk, late, taskVars, note, opened, waitNotify, readerVars, recv,
                   sender, send, closed, wire, minerVars>>

(* GetMsg finds nothing in five seconds, or the closed channel.            *)
GetNothing ==
    /\ handler = "get" /\ recv = <<>>
    /\ handler' = IF reader = "done" THEN "exit" ELSE "loop"
    /\ UNCHANGED <<trouble, disk, late, taskVars, note, opened, waitNotify, readerVars, recv,
                   sender, send, closed, wire, minerVars>>

Gets(m) ==
    /\ handler = "get" /\ recv # <<>>
    /\ Head(recv) = m
    /\ recv' = Tail(recv)
    /\ UNCHANGED <<trouble, taskVars, waitNotify, readerVars, sender, closed, wire,
                   minerVars>>

(* Mutant of GetChunk: the file is opened, and truncated, for each chunk.  *)
MutGetChunkReopens ==
    /\ Gets("chunk")
    /\ disk # NoFile
    /\ handler' = "loop"
    /\ disk' = 1
    /\ late' = (late \/ result # "none")
    /\ UNCHANGED <<opened, note, send>>

(* An error: the handler tells the miner, unless send is closed, and ends. *)
Fails ==
    /\ handler' = "exit"
    /\ send' = IF sender = "done" THEN send ELSE Append(send, "close")

(* The first chunk opens the file, which must be there, and truncates it.  *)
GetChunk ==
    /\ Gets("chunk")
    /\ \/ /\ opened \/ disk # NoFile
          /\ handler' = "loop"
          /\ opened' = TRUE
          /\ disk' = IF opened THEN disk + 1 ELSE 1
          /\ late' = (late \/ result # "none")
          /\ UNCHANGED send
       \/ /\ (~ opened /\ disk = NoFile) \/ trouble
          /\ Fails
          /\ UNCHANGED <<disk, late, opened>>
    /\ UNCHANGED note

(* The end tells how many chunks there were.                               *)
GetEnd ==
    /\ Gets("end")
    /\ IF opened /\ disk = Chunks
       THEN handler' = "loop" /\ opened' = FALSE /\ UNCHANGED send
       ELSE Fails /\ UNCHANGED opened
    /\ UNCHANGED <<disk, late, note>>

GetNotify(m) ==
    /\ m \in {"ok", "err"}
    /\ Gets(m)
    /\ handler' = "notify"
    /\ note' = m
    /\ UNCHANGED <<disk, late, opened, send>>

(* Mutant of Notify: waitNotify is a channel of length 0.                  *)
MutNotifyUnbuffered ==
    /\ handler = "notify" /\ task \in {"waitHead", "waitFile"} /\ waitNotify = <<>>
    /\ waitNotify' = <<note>>
    /\ handler' = "loop" /\ note' = NoMessage
    /\ UNCHANGED <<trouble, disk, late, taskVars, opened, readerVars, recv, sender, send,
                   closed, wire, minerVars>>

(* The notification waits until the task has taken the one before.         *)
Notify ==
    /\ handler = "notify" /\ waitNotify = <<>>
    /\ waitNotify' = <<note>>
    /\ handler' = "loop" /\ note' = NoMessage
    /\ UNCHANGED <<trouble, disk, late, taskVars, opened, readerVars, recv, sender, send,
                   closed, wire, minerVars>>

(* The deferred calls.                                                     *)
HandlerExit ==
    /\ handler = "exit"
    /\ handler' = "done" /\ opened' = FALSE
    /\ closed' = TRUE
    /\ UNCHANGED <<trouble, disk, late, taskVars, note, waitNotify, readerVars, recv, sender,
                   send, wire, minerVars>>

-----------------------------------------------------------------------------
(* readMsg.  At the end of the miner's side it tries again and again, and  *)
(* ends when the cacher has closed its own.                                *)
Read ==
    /\ reader = "read" /\ ~ closed
    /\ wire # <<>>
    /\ hand' = Head(wire) /\ wire' = Tail(wire)
    /\ reader' = "push"
    /\ UNCHANGED <<trouble, disk, late, taskVars, handlerVars, waitNotify, recv, sender, send,
                   closed, minerVars>>

(* Mutant of Push: recv has one place more.                                *)
MutPushOverfills ==
    /\ reader = "push" /\ Len(recv) <= ReadBuffers
    /\ recv' = Append(recv, hand)
    /\ reader' = "read" /\ hand' = NoMessage
    /\ UNCHANGED <<trouble, disk, late, taskVars, handlerVars, waitNotify, sender, send,
                   closed, wire, minerVars>>

Push ==
    /\ reader = "push" /\ Len(recv) < ReadBuffers
    /\ recv' = Append(recv, hand)
    /\ reader' = "read" /\ hand' = NoMessage
    /\ UNCHANGED <<trouble, disk, late, taskVars, handlerVars, waitNotify, sender, send,
                   closed, wire, minerVars>>

(* Mutant of ReadFails: it tries again after its own side was closed, too. *)
MutReadFailsRetries ==
    /\ reader = "read"
    /\ peer = "reset" /\ wire = <<>>
    /\ reader' = "done"
    /\ closed' = TRUE
    /\ UNCHANGED <<trouble, disk, late, taskVars, handlerVars, waitNotify, hand, recv, sender,
                   send, wire, minerVars>>

ReadFails ==
    /\ reader = "read"
    /\ closed \/ (peer = "reset" /\ wire = <<>>)
    /\ reader' = "done"
    /\ closed' = TRUE
    /\ UNCHANGED <<trouble, disk, late, taskVars, handlerVars, waitNotify, hand, recv, sender,
                   send, wire, minerVars>>

-----------------------------------------------------------------------------
(* sendMsg.                                                                *)

Transmit ==
    /\ sender = "run" /\ ~ closed /\ send # <<>>
    /\ send' = Tail(send)
    /\ IF peer = "reset"
       THEN sender' = "sleep" /\ closed' = TRUE /\ UNCHANGED miner
       ELSE /\ UNCHANGED <<sender, closed>>
            /\ miner' = CASE Head(send) = "head" /\ miner = "idle" -> "head"
                          [] Head(send) = "file" /\ miner = "ready" -> "file"
                          [] OTHER -> "quiet"
    /\ UNCHANGED <<trouble, disk, late, taskVars, handlerVars, waitNotify, readerVars, recv,
                   wire, peer, sent>>

SenderExit ==
    /\ sender = "run" /\ closed
    /\ sender' = "sleep"
    /\ UNCHANGED <<trouble, disk, late, taskVars, handlerVars, waitNotify, readerVars, recv,
                   send, closed, wire, minerVars>>

(* A second later it closes the channel.                                   *)
CloseSend ==
    /\ sender = "sleep"
    /\ sender' = "done"
    /\ UNCHANGED <<trouble, disk, late, taskVars, handlerVars, waitNotify, readerVars, recv,
                   send, closed, wire, minerVars>>

-----------------------------------------------------------------------------
(* The storage miner.                                                      *)
MinerSends(m) ==
    /\ peer = "open" /\ wire' = Append(wire, m)
    /\ UNCHANGED <<trouble, disk, late, taskVars, handlerVars, waitNotify, readerVars, recv,
                   sender, send, closed, peer>>

AnswerHead ==
    /\ miner = "head"
    /\ \/ MinerSends("ok") /\ miner' = "ready"
       \/ trouble /\ MinerSends("err") /\ miner' = "quiet"
    /\ UNCHANGED sent

AnswerFile ==
    /\ miner = "file"
    /\ \/ MinerSends("chunk")
          /\ sent' = sent + 1
          /\ miner' = IF sent' = Chunks THEN "end" ELSE "file"
       \/ trouble /\ MinerSends("err") /\ miner' = "quiet" /\ UNCHANGED sent

AnswerEnd == miner = "end" /\ MinerSends("end") /\ miner' = "notify" /\ UNCHANGED sent

AnswerNotify == miner = "notify" /\ MinerSends("ok") /\ miner' = "quiet" /\ UNCHANGED sent

(* It closes its side, or the connection breaks, and only part of what was *)
(* under way arrives.                                                      *)
MinerGone ==
    /\ trouble
    /\ \/ peer = "open" /\ peer' = "eof" /\ UNCHANGED wire
       \/ /\ peer # "reset" /\ peer' = "reset"
          /\ \E n \in 0..Len(wire) : wire' = SubSeq(wire, 1, n)
    /\ UNCHANGED <<trouble, disk, late, taskVars, handlerVars, waitNotify, readerVars, recv,
                   sender, send, closed, miner, sent>>

-----------------------------------------------------------------------------
Task == SendHead \/ WaitHead \/ CreateFile \/ CreateFails \/ SendFile \/ WaitFile \/ SendClose
Handler ==
    \/ HandlerLoop \/ GetNothing \/ GetChunk \/ GetEnd \/ Notify \/ HandlerExit
    \/ \E m \in Messages : GetNotify(m)
Reader == Read \/ Push \/ ReadFails
Sender == Transmit \/ SenderExit \/ CloseSend
Miner == AnswerHead \/ AnswerFile \/ AnswerEnd \/ AnswerNotify

Next == Task \/ TimerFires \/ Handler \/ Reader \/ Sender \/ Miner \/ MinerGone

(* Goroutines that can go on do, timers run out, and a miner whose side is *)
(* open answers; nothing breaks for certain.                               *)
Fairness ==
    /\ WF_vars(Task) /\ WF_vars(TimerFires)
    /\ WF_vars(Handler) /\ WF_vars(Reader) /\ WF_vars(Sender) /\ WF_vars(Miner)

Spec == Init /\ [][Next]_vars
FairSpec == Spec /\ Fairness

-----------------------------------------------------------------------------
(* Properties.                                                             *)

(* The file is whole when recvFile returns success, and nothing touches it *)
(* afterwards; after a failure at most one more chunk is written to it,    *)
(* for the handler looks at the connection before every message.           *)
D == INSTANCE Download
KeepsDownload == D!Spec

(* When nothing fails and the miner is in time, the transfer succeeds:     *)
(* four goroutines and the miner do not end up waiting for each other, and *)
(* the checks of the handler refuse no good file.                          *)
Succeeds == ~ trouble ~> result = "ok"

(* The handler ends whatever happens: a notification nobody waits for any  *)
(* more finds a place in waitNotify.                                       *)
HandlerEnds == <>(handler = "done")

(* The reader ends, though it retries when the miner has closed its side;  *)
(* or it holds a message for a full recv which nobody empties any more,    *)
(* the goroutine the code leaks.                                           *)
ReaderSettles == <>[](reader = "done" \/ (reader = "push" /\ handler = "done"))
=============================================================================
