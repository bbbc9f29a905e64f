--------------------------- MODULE BufferedParser ---------------------------
(***************************************************************************)
(* A connection's parser with its buffers: what processRead reads from the *)
(* socket goes through m_readBuf to the parser (HttpParser), the answers   *)
(* go through m_writeBuf to the socket.  HttpParser looks at the stream of *)
(* the client, from pos to read; here the bytes are where the code has     *)
(* them, in two instances of Buffer that grow, are moved and start again.  *)
(***************************************************************************)
EXTENDS HttpParser, Buffer

CONSTANTS BufferSize, \* what a buffer starts with (10240)
          Heads,      \* the head of an answer, by verdict
          Bodies      \* ... and its body

Verdicts == {"ok", "bad", "large"}

ASSUME AnswerAssumption ==
    /\ BufferSize \in Nat
    /\ \A v \in Verdicts : Heads[v] \in Seq(Nat) /\ Bodies[v] \in Seq(Nat)

VARIABLES readBuf, writeBuf, \* m_readBuf, m_writeBuf
          wire,              \* history: what has been sent
          answered           \* history: the answers so far

allVars == <<vars, readBuf, writeBuf, wire, answered>>

BufferedInit ==
    /\ Init
    /\ readBuf = NewBuffer(BufferSize) /\ writeBuf = NewBuffer(BufferSize)
    /\ wire = <<>> /\ answered = <<>>
-----------------------------------------------------------------------------
\* The bytes s of the n-th answer.
Marked(n, s) == [k \in DOMAIN s |-> <<n, s[k]>>]

\* socketRead, and processRead goes to the parser.
ReceiveBytes(n) ==
    /\ n <= ReadMaxOf(readBuf)
    /\ Receive(n)
    /\ readBuf' = SocketRead(readBuf, SubSeq(stream, read + 1, read + n))
    /\ UNCHANGED <<writeBuf, wire, answered>>

\* prepareMsg: the head, line by line, and the body.
PrepareMsg(head, body) ==
    /\ writeBuf' = AppendString(AppendString(writeBuf, head), body)
    /\ answered' = answered \o head \o body

\* A step of the parser, and prepareMsg if it finishes a request or gives up.
ParseBytes ==
    /\ Parse
    /\ readBuf' = ReadPosIncrease(readBuf, pos' - pos)
    /\ IF results' = results
         THEN UNCHANGED <<writeBuf, answered>>
         ELSE LET n == Len(results')
                  v == results'[n]
              IN  PrepareMsg(Marked(n, Heads[v]), Marked(n, Bodies[v]))
    /\ UNCHANGED wire

\* processWrite, once processRead has returned.
SendBytes(count) ==
    /\ pc # "parse"
    /\ count <= Readable(writeBuf)
    /\ wire' = wire \o SubSeq(Contents(writeBuf), 1, count)
    /\ writeBuf' = Sent(writeBuf, count)
    /\ UNCHANGED <<vars, readBuf, answered>>

\* It comes to the file when the buffer is empty; what it sends of the file
\* does not go through the buffer.
SendFile ==
    /\ Readable(writeBuf) = 0
    /\ FileDone
    /\ UNCHANGED <<readBuf, writeBuf, wire, answered>>
-----------------------------------------------------------------------------
BufferedNext == \/ \E n \in 1 .. ReadMax : ReceiveBytes(n)
                \/ ParseBytes \/ SendFile
                \/ \E n \in 1 .. Readable(writeBuf) : SendBytes(n)

BufferedSpec == BufferedInit /\ [][BufferedNext]_allVars
-----------------------------------------------------------------------------
\* However reads and requests are cut, the parser finds in the read buffer
\* exactly what the client has sent and no request has taken, and the client
\* gets the answers byte by byte in their order, although the buffers are
\* moved, enlarged and started again in between (Buffer.cpp:26-58, 91-127,
\* 135-167).
BuffersInOrder ==
    /\ Contents(readBuf) = SubSeq(stream, pos + 1, read)
    /\ wire \o Contents(writeBuf) = answered

\* A buffer grows only if what it has to hold does not fit: bytes that have
\* been read or sent never cost memory for good (Buffer.cpp:29-56).
Fits(b, c) == Capacity(c) > Capacity(b) => Readable(c) > Capacity(b)

GrowsOnlyIfFull ==
    [][Fits(readBuf, readBuf') /\ Fits(writeBuf, writeBuf')]_allVars
=============================================================================
