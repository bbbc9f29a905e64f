--------------------------- MODULE TcpConnection ---------------------------
(***************************************************************************)
(* One HTTP connection on its loop (TcpConnection.cpp), with the socket    *)
(* and the client at its other end.                                        *)
(*                                                                         *)
(* The client sends requests 1, 2, ...; what each asks for is its entry in *)
(* script.  A request arrives in two pieces, so that it may be incomplete  *)
(* in the read buffer or half inside the parser.  The answer to request i  *)
(* is one item "head" and, for a static file, one item "file" per chunk.   *)
(* The loop delivers one readiness record at a time; between its callbacks *)
(* and inside processRead and processWrite the client goes on.             *)
(*                                                                         *)
(* Shutdown (beginShutdown, forceClose) is not modelled here.              *)
(*                                                                         *)
(* Operators named Broken... are faulty variants of the operator that      *)
(* follows them; no specification uses them.                               *)
(***************************************************************************)
EXTENDS Integers, SequencesExt

CONSTANTS Scripts,      \* what the client may ask for: sequences of requests
          MaxPipelined, \* MaxPipelinedRequests (16)
          MaxRequests,  \* m_maxRequestsPerConnection
          IdleTimeout,  \* m_idleTimeoutSeconds
          ReadMax,      \* pieces one readv takes at most
          SendCap       \* items the socket's send buffer holds

\* A request: the token that decides keep-alive, and the size of the file it
\* names, NoFile if it names none.
NoFile == -1
Requests == [kind : {"keep", "close", "bad"}, size : Nat \cup {NoFile}]

ASSUME ConnectionAssumption ==
    /\ Scripts \subseteq Seq(Requests)
    /\ MaxPipelined \in Nat \ {0} /\ MaxRequests \in Nat \ {0}
    /\ IdleTimeout \in Nat \ {0}
    /\ ReadMax \in Nat \ {0} /\ SendCap \in Nat \ {0}

VARIABLES script,     \* the requests of this client
          sent,       \* pieces it has sent
          peer,       \* "open", "shut" (FIN received) or "reset"
          sock,       \* pieces in the socket's receive buffer
          room,       \* free items in the socket's send buffer
          out,        \* items handed to the socket, in order
          pc,         \* where the loop is with this connection
          thenWrite,  \* the record also has EPOLLOUT
          attempts,   \* parsedRequests
          inBuf,      \* pieces in m_readBuf
          writeBuf,   \* items in m_writeBuf
          served,     \* m_requestsServed
          closing,    \* m_closeAfterWrite
          file,       \* m_fileFd open for this request; 0: none
          remaining,  \* m_fileRemaining
          fault,      \* the open file was truncated ("short") or could not
                      \* be opened or sent ("failed"); else "none"
          interest,   \* the write event is enabled
          age,        \* seconds since m_lastActivity
          why         \* why the connection was destroyed

client == <<script, sent, peer>>
reading == <<attempts, inBuf, served>>
writing == <<writeBuf, file, remaining, fault>>
vars == <<client, sock, room, out, pc, thenWrite, reading, writing, closing,
          interest, age, why>>

Least(a, b) == IF a <= b THEN a ELSE b

HeadOf(i) == [req |-> i, part |-> "head"]
Chunk(i) == [req |-> i, part |-> "file"]
Chunks(i, n) == [j \in 1 .. n |-> Chunk(i)]

\* Pieces of the next request that the parser has taken out of m_readBuf.
InParser == sent - sock - inBuf - 2 * served

Init ==
    /\ script \in Scripts
    /\ sent = 0 /\ peer = "open" /\ sock = 0 /\ room = SendCap /\ out = <<>>
    /\ pc = "poll" /\ thenWrite = FALSE
    /\ attempts = 0 /\ inBuf = 0 /\ served = 0
    /\ writeBuf = <<>> /\ file = 0 /\ remaining = 0 /\ fault = "none"
    /\ closing = FALSE /\ interest = FALSE
    /\ age = 0 /\ why = "alive"
-----------------------------------------------------------------------------
\* The client and the file system.

ClientSends ==
    /\ peer = "open" /\ sent < 2 * Len(script)
    /\ sent' = sent + 1 /\ sock' = sock + 1
    /\ UNCHANGED <<script, peer, room, out, pc, thenWrite, reading, writing,
                   closing, interest, age, why>>

ClientReads ==
    /\ peer # "reset" /\ room < SendCap
    /\ room' = SendCap
    /\ UNCHANGED <<client, sock, out, pc, thenWrite, reading, writing, closing,
                   interest, age, why>>

ClientLeaves ==
    /\ \/ peer = "open" /\ peer' \in {"shut", "reset"}
       \/ peer = "shut" /\ peer' = "reset"
    /\ UNCHANGED <<script, sent, sock, room, out, pc, thenWrite, reading,
                   writing, closing, interest, age, why>>

FileShrinks ==
    /\ remaining > 0 /\ fault = "none"
    /\ fault' = "short"
    /\ UNCHANGED <<client, sock, room, out, pc, thenWrite, reading, writeBuf,
                   file, remaining, closing, interest, age, why>>
-----------------------------------------------------------------------------
\* addTask(DELETE): the destructor runs before the call returns; the record
\* has nothing left to dispatch to.
Destroy(reason) ==
    /\ pc' = "dead" /\ why' = reason
    /\ thenWrite' = FALSE
    /\ file' = 0 /\ remaining' = 0
    /\ UNCHANGED <<client, sock, room, out, reading, writeBuf, fault, closing,
                   interest, age>>

\* A second goes by without a byte read or written.
Tick ==
    /\ pc # "dead" /\ age < IdleTimeout
    /\ age' = age + 1
    /\ UNCHANGED <<client, sock, room, out, pc, thenWrite, reading, writing,
                   closing, interest, why>>

\* The loop comes round to processTimeouts after every batch: checkTimeout.
CheckTimeout ==
    /\ pc = "sweep" /\ age >= IdleTimeout
    /\ Destroy("idle")

Sweep ==
    /\ pc = "sweep" /\ age < IdleTimeout
    /\ pc' = "poll"
    /\ UNCHANGED <<client, sock, room, out, thenWrite, reading, writing,
                   closing, interest, age, why>>

Readable == sock > 0 \/ peer # "open"

\* epoll_wait returns with nothing for this connection: level-triggered, so
\* nothing is ready.
EpollNothing ==
    /\ pc = "poll" /\ ~Readable /\ ~(interest /\ room > 0)
    /\ pc' = "sweep"
    /\ UNCHANGED <<client, sock, room, out, thenWrite, reading, writing,
                   closing, interest, age, why>>

\* EpollDispatcher::dispatch: an error record removes the connection.
EpollErr ==
    /\ pc = "poll" /\ peer = "reset"
    /\ Destroy("peer")

EpollIn ==
    /\ pc = "poll" /\ peer # "reset" /\ Readable
    /\ pc' = "read"
    /\ thenWrite' = (interest /\ room > 0)
    /\ UNCHANGED <<client, sock, room, out, reading, writing, closing,
                   interest, age, why>>

EpollOut ==
    /\ pc = "poll" /\ ~Readable /\ interest /\ room > 0
    /\ pc' = "write"
    /\ UNCHANGED <<client, sock, room, out, thenWrite, reading, writing,
                   closing, interest, age, why>>
-----------------------------------------------------------------------------
\* processRead.

\* It returns to dispatch, where the write part of the record may be left.
AfterRead ==
    /\ pc' = IF thenWrite THEN "write" ELSE "sweep"
    /\ thenWrite' = FALSE

\* Buffer::socketRead.
SocketRead ==
    /\ pc = "read" /\ sock > 0
    /\ sock' = sock - Least(sock, ReadMax)
    /\ inBuf' = inBuf + Least(sock, ReadMax)
    /\ age' = 0
    /\ attempts' = 0
    /\ pc' = "parse"
    /\ UNCHANGED <<client, room, out, thenWrite, served, writing, closing,
                   interest, why>>

\* EAGAIN: socketRead returns -2 and nothing is parsed.
SocketReadNothing ==
    /\ pc = "read" /\ peer = "open" /\ sock = 0
    /\ AfterRead
    /\ UNCHANGED <<client, sock, room, out, reading, writing, closing,
                   interest, age, why>>

SocketReadEnd ==
    /\ pc = "read"
    /\ peer = "reset" \/ (peer = "shut" /\ sock = 0)
    /\ Destroy("peer")

BrokenMayParse ==   \* parses while a file is being sent
    inBuf > 0 /\ attempts < MaxPipelined /\ ~closing

\* The condition of the while loop.
MayParse == inBuf > 0 /\ attempts < MaxPipelined /\ ~closing /\ file = 0

Complete == InParser + inBuf >= 2

BrokenKeepAlive(i) == script[i].kind = "keep" /\ served < MaxRequests

\* parseHttpRequest with forceClose: does the answer to i keep the connection?
KeepAlive(i) == script[i].kind = "keep" /\ served + 1 < MaxRequests

HasFile(i) == script[i].kind # "bad" /\ script[i].size # NoFile

BrokenParse ==   \* does not enable the write event
    LET i == served + 1 IN
    /\ pc = "parse" /\ MayParse /\ Complete
    /\ inBuf' = inBuf - (2 - InParser)
    /\ served' = i
    /\ attempts' = attempts + 1
    /\ writeBuf' = Append(writeBuf, HeadOf(i))
    /\ closing' = ~KeepAlive(i)
    /\ file' = IF HasFile(i) THEN i ELSE 0
    /\ remaining' = IF HasFile(i) THEN script[i].size ELSE 0
    /\ UNCHANGED <<client, sock, room, out, pc, thenWrite, fault, interest,
                   age, why>>

\* One round of the loop: the head of the answer goes to m_writeBuf, a file is
\* opened, or cannot be, and then the connection will be closed.
Parse ==
    LET i == served + 1 IN
    /\ pc = "parse" /\ MayParse /\ Complete
    /\ inBuf' = inBuf - (2 - InParser)
    /\ served' = i
    /\ attempts' = attempts + 1
    /\ writeBuf' = Append(writeBuf, HeadOf(i))
    /\ interest' = TRUE
    /\ \/ /\ closing' = ~KeepAlive(i)
          /\ file' = IF HasFile(i) THEN i ELSE 0
          /\ remaining' = IF HasFile(i) THEN script[i].size ELSE 0
          /\ fault' = fault
       \/ /\ HasFile(i)
          /\ closing' = TRUE /\ fault' = "failed"
          /\ UNCHANGED <<file, remaining>>
    /\ UNCHANGED <<client, sock, room, out, pc, thenWrite, age, why>>

\* An incomplete request: whole lines go into the parser, a part of a line
\* stays in the buffer; the loop breaks off.
ParseIncomplete ==
    /\ pc = "parse" /\ MayParse /\ ~Complete
    /\ inBuf' \in {0, inBuf}
    /\ AfterRead
    /\ UNCHANGED <<client, sock, room, out, attempts, served, writing, closing,
                   interest, age, why>>

ParseEnds ==
    /\ pc = "parse" /\ ~MayParse
    /\ AfterRead
    /\ UNCHANGED <<client, sock, room, out, reading, writing, closing,
                   interest, age, why>>
-----------------------------------------------------------------------------
\* processWrite.

\* Buffer::sendData.
SendData ==
    LET k == Least(Len(writeBuf), room) IN
    /\ pc = "write" /\ (peer # "reset" \/ writeBuf = <<>>)
    /\ out' = out \o SubSeq(writeBuf, 1, k)
    /\ writeBuf' = SubSeq(writeBuf, k + 1, Len(writeBuf))
    /\ room' = room - k
    /\ age' = IF k > 0 THEN 0 ELSE age
    /\ pc' = IF writeBuf' = <<>> /\ file # 0 THEN "sendfile" ELSE "written"
    /\ UNCHANGED <<client, sock, thenWrite, reading, file, remaining, fault,
                   closing, interest, why>>

SendFails ==
    /\ pc = "write" /\ peer = "reset" /\ writeBuf # <<>>
    /\ Destroy("peer")

BrokenSendFile ==   \* counts an empty sendfile as activity
    LET k == IF fault = "short" THEN 0 ELSE Least(remaining, room) IN
    /\ pc = "sendfile" /\ (peer # "reset" \/ remaining = 0)
    /\ out' = out \o Chunks(file, k)
    /\ room' = room - k
    /\ age' = 0
    /\ remaining' = remaining - k
    /\ file' = IF remaining' = 0 THEN 0 ELSE file
    /\ pc' = "written"
    /\ UNCHANGED <<client, sock, thenWrite, reading, writeBuf, fault, closing,
                   interest, why>>

\* sendPendingFile: until nothing remains, the socket is full or the file
\* ends early.
SendFile ==
    LET k == IF fault = "short" THEN 0 ELSE Least(remaining, room) IN
    /\ pc = "sendfile" /\ (peer # "reset" \/ remaining = 0)
    /\ out' = out \o Chunks(file, k)
    /\ room' = room - k
    /\ age' = IF k > 0 THEN 0 ELSE age
    /\ remaining' = remaining - k
    /\ file' = IF remaining' = 0 THEN 0 ELSE file
    /\ pc' = "written"
    /\ UNCHANGED <<client, sock, thenWrite, reading, writeBuf, fault, closing,
                   interest, why>>

BrokenSendFileFails ==   \* closes the file and keeps the count
    /\ pc = "sendfile" /\ remaining > 0
    /\ file' = 0 /\ fault' = "failed"
    /\ closing' = TRUE
    /\ pc' = "written"
    /\ UNCHANGED <<client, sock, room, out, thenWrite, reading, writeBuf,
                   remaining, interest, age, why>>

\* sendfile fails, perhaps after some chunks.
SendFileFails ==
    \E k \in 0 .. Least(remaining - 1, room) :
        /\ pc = "sendfile" /\ (k > 0 => fault = "none")
        /\ out' = out \o Chunks(file, k)
        /\ room' = room - k
        /\ age' = IF k > 0 THEN 0 ELSE age
        /\ file' = 0 /\ remaining' = 0 /\ fault' = "failed"
        /\ closing' = TRUE
        /\ pc' = "written"
        /\ UNCHANGED <<client, sock, thenWrite, reading, writeBuf, interest,
                       why>>

BrokenDrained == writeBuf = <<>>

\* The whole answer is in the socket.
Drained == writeBuf = <<>> /\ file = 0

BrokenWriteEnds ==   \* keeps the write event while nothing is left to send
    /\ pc = "written"
    /\ ~(Drained /\ closing)
    /\ interest' = interest
    /\ pc' = IF Drained /\ inBuf > 0 THEN "read" ELSE "sweep"
    /\ UNCHANGED <<client, sock, room, out, thenWrite, reading, writing,
                   closing, age, why>>

WriteCloses ==
    /\ pc = "written" /\ Drained /\ closing
    /\ Destroy("done")

WriteEnds ==
    /\ pc = "written"
    /\ ~(Drained /\ closing)
    /\ interest' = (interest /\ ~Drained)
    /\ pc' = IF Drained /\ inBuf > 0 THEN "read" ELSE "sweep"
    /\ UNCHANGED <<client, sock, room, out, thenWrite, reading, writing,
                   closing, age, why>>
-----------------------------------------------------------------------------
Client == ClientSends \/ ClientReads \/ ClientLeaves \/ FileShrinks

Callback == \/ SocketRead \/ SocketReadNothing \/ SocketReadEnd
            \/ Parse \/ ParseIncomplete \/ ParseEnds
            \/ SendData \/ SendFails \/ SendFile \/ SendFileFails
            \/ WriteCloses \/ WriteEnds

Dispatch == EpollErr \/ EpollIn \/ EpollOut \/ EpollNothing

Timeouts == CheckTimeout \/ Sweep

Loop == Dispatch \/ Callback \/ Timeouts

Next == Client \/ Loop \/ Tick

Spec == Init /\ [][Next]_vars

\* The loop goes round.
LoopFairness == WF_vars(Loop)

\* The client owes nothing, and how fast time goes by is left open.
FairSpec == Spec /\ LoopFairness
-----------------------------------------------------------------------------
\* The answer to request i, and the answers to the first n.
Answer(i) == <<HeadOf(i)>> \o Chunks(i, IF HasFile(i) THEN script[i].size ELSE 0)

Answers(n) == FlattenSeq([i \in 1 .. n |-> Answer(i)])

\* What is in the socket, in m_writeBuf and left of the file are exactly the
\* answers owed, in the order of the requests: no head overtakes the file
\* before it, nothing is lost between the buffers or sent twice
\* (TcpConnection.cpp:105-163, 178-193).  Only an answer whose file could not
\* be opened or sent is cut short, and it is the last.
AnswersInOrder ==
    LET produced == out \o writeBuf \o Chunks(file, remaining)
    IN  pc # "dead" => IF fault = "failed"
                       THEN /\ closing
                            /\ IsStrictPrefix(Answers(served - 1), produced)
                            /\ IsPrefix(produced, Answers(served))
                       ELSE produced = Answers(served)

\* A connection at rest watches for room in the socket exactly as long as it
\* has something to send: neither a stuck answer nor a busy loop
\* (TcpConnection.cpp:162-163, 203-204).
WriteInterest == pc \in {"poll", "sweep"} => (interest <=> ~Drained)

\* The server closes on its own account only after the last answer has left
\* completely, unless its file failed (TcpConnection.cpp:195-200).
FlushBeforeClose ==
    why = "done" => /\ writeBuf = <<>>
                    /\ out = Answers(served) \/ fault = "failed"

\* After an answer that says "Connection: close" nothing more is answered, and
\* at most MaxRequests are (TcpConnection.cpp:106, 110-124).
CloseIsFinal ==
    /\ served <= MaxRequests
    /\ \A i \in 1 .. served - 1 : script[i].kind = "keep"

\* As long as time goes by every connection ends: a silent client, one that
\* stops reading and a file that ended early are left to the idle timeout, and
\* none of the callbacks keeps pushing it back (TcpConnection.cpp:240-246,
\* 332-343).
ConnectionEnds == WF_vars(Tick) => <>(pc = "dead")

\* The answers that were produced reach a client that reads, unless the client
\* leaves, the connection times out or a file fails: no answer waits for an
\* event that does not come (TcpConnection.cpp:162-163, 203-213).
AnswersLeave ==
    WF_vars(ClientReads) =>
        \A n \in 1 .. MaxRequests :
            served >= n ~> \/ n <= served /\ IsPrefix(Answers(n), out)
                           \/ why \in {"peer", "idle"}
                           \/ fault # "none"

\* A request that has been read completely is answered, or the connection is
\* destroyed, without waiting for more data from the client
\* (TcpConnection.cpp:205-209).
BufferedAnswered ==
    WF_vars(ClientReads) =>
        \A n \in 1 .. MaxRequests :
            sent - sock >= 2 * n ~> \/ served >= n \/ pc = "dead"
                                    \/ fault # "none"
=============================================================================
