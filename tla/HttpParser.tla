----------------------------- MODULE HttpParser -----------------------------
(***************************************************************************)
(* The request parser (HttpRequest.cpp:604-836) on the byte stream of one  *)
(* client.  TCP cuts the stream where it likes: requests arrive in pieces, *)
(* or several at once, and the parser keeps its state from one call to the *)
(* next.                                                                   *)
(*                                                                         *)
(* A byte is CR, LF or any other; the last belongs to a line, whose        *)
(* meaning it stands for, or to a body.  Header names are spelled in one   *)
(* way, so that m_reqHeaders is a function of them.                        *)
(*                                                                         *)
(* Operators named Broken... are faulty variants of the operator that      *)
(* follows them; no specification uses them.                               *)
(***************************************************************************)
EXTENDS Integers, SequencesExt

CONSTANTS Scripts,    \* what the client may send: sequences of requests
          MaxLine,    \* MaxRequestLineSize, MaxHeaderLineSize (8192)
          MaxHeaders, \* MaxHeaderCount (100)
          MaxBody,    \* MaxRequestBodySize (64 MB)
          ReadMax,    \* bytes one readv takes at most
          MaxPipelined \* MaxPipelinedRequests (16)

ASSUME ParserAssumption ==
    /\ MaxLine \in Nat \ {0} /\ MaxHeaders \in Nat /\ MaxBody \in Nat
    /\ ReadMax \in Nat \ {0} /\ MaxPipelined \in Nat \ {0}

\* A line: "request" or "header" if it can be parsed, "bad" if not; its size
\* without CR LF; the name of a header and the number its value denotes, Junk
\* if none.  A request: its lines and its body.
Junk == -1
Bad == [kind |-> "bad", size |-> 0, name |-> "", value |-> Junk]

Lines == {l \in [kind : {"request", "header", "bad"}, size : Nat \ {0},
                   name : STRING, value : Nat \cup {Junk}] :
            l.kind # "header" => l.name = ""}

Chars == {"cr", "lf", "text"}

Requests == [lines : Seq(Lines) \ {<<>>}, body : Seq(Chars)]

Byte(c, l, k) == [char |-> c, line |-> l, at |-> k]
CRLF == <<Byte("cr", Bad, 0), Byte("lf", Bad, 0)>>

LineBytes(l) == [k \in 1 .. l.size |-> Byte("text", l, k)] \o CRLF

RequestBytes(q) ==
    FlattenSeq([i \in DOMAIN q.lines |-> LineBytes(q.lines[i])]) \o CRLF
        \o [k \in DOMAIN q.body |-> Byte(q.body[k], Bad, 0)]

Bytes(s) == FlattenSeq([i \in DOMAIN s |-> RequestBytes(s[i])])

VARIABLES script,       \* the requests of this client
          stream,       \* its bytes
          read,         \* bytes read from the socket so far
          pos,          \* bytes taken out of m_readBuf so far
          pc,           \* where the caller, processRead, is
          parsed,       \* parsedRequests of its last call
          state,        \* m_curState
          headers,      \* m_reqHeaders: name -> value
          bodyExpected, \* m_bodyExpected
          bodySize,     \* m_body.size()
          results       \* how the requests parsed so far were taken

input == <<script, stream>>
request == <<state, headers, bodyExpected, bodySize>>
vars == <<input, read, pos, pc, parsed, request, results>>

NoHeaders == [n \in {} |-> 0]

Init ==
    /\ script \in Scripts /\ stream = Bytes(script)
    /\ read = 0 /\ pos = 0 /\ pc = "wait" /\ parsed = 0
    /\ state = "line" /\ headers = NoHeaders
    /\ bodyExpected = 0 /\ bodySize = 0
    /\ results = <<>>
-----------------------------------------------------------------------------
Least(a, b) == IF a <= b THEN a ELSE b

\* The caller is in a call of the parser ("parse"), or it has returned: since
\* the parser needs more data or has used up the buffer ("wait"), with bytes
\* left to parse ("held"), with a file to send, which has m_fileFd ("file"), or
\* for good, with m_closeAfterWrite ("closed").
Labels == {"parse", "wait", "held", "file", "closed"}

\* socketRead, and processRead goes to the parser, but not while a file is sent
\* nor after the last answer.
Receive(n) ==
    /\ pc # "parse"
    /\ n <= Len(stream) - read
    /\ read' = read + n
    /\ parsed' = 0
    /\ pc' = IF pc \in {"wait", "held"} THEN "parse" ELSE pc
    /\ UNCHANGED <<input, pos, request, results>>

BrokenReset ==   \* the length of the last body stays
    /\ state' = "line" /\ headers' = NoHeaders
    /\ bodySize' = 0
    /\ UNCHANGED bodyExpected

Reset ==
    /\ state' = "line" /\ headers' = NoHeaders
    /\ bodyExpected' = 0 /\ bodySize' = 0

\* m_parseError: the answer is 400, or 413, and the connection will be closed.
Fail(verdict) ==
    /\ results' = Append(results, verdict)
    /\ pc' = "closed"
    /\ Reset

IsCRLF(k) == stream[k].char = "cr" /\ stream[k + 1].char = "lf"

\* findCRLF: the first CR LF of the buffer is at k.
Found(k) == /\ k \in pos + 1 .. read - 1 /\ IsCRLF(k)
            /\ \A j \in pos + 1 .. k - 1 : ~IsCRLF(j)

NoneFound == \A k \in pos + 1 .. read - 1 : ~IsCRLF(k)

SizeTo(k) == k - 1 - pos

\* What the bytes before k say: a line of the client, if they are one.
LineTo(k) ==
    LET l == stream[pos + 1].line
    IN  IF stream[pos + 1].at = 1 /\ l.size = SizeTo(k) THEN l ELSE Bad

BrokenTooLong(n) == n + 2 > MaxLine   \* counts CR LF with the line

TooLong(n) == n > MaxLine

\* No whole line in the buffer: parseRequestLine or parseRequestHeader give up
\* on a line that is too long already.
LineMissing ==
    /\ pc = "parse" /\ state \in {"line", "headers"} /\ NoneFound
    /\ IF TooLong(read - pos)
         THEN Fail("bad")
         ELSE pc' = "wait" /\ UNCHANGED <<request, results>>
    /\ UNCHANGED <<input, read, pos, parsed>>

ParseRequestLine(k) ==
    /\ pc = "parse" /\ state = "line" /\ Found(k)
    /\ IF SizeTo(k) > 0 /\ ~TooLong(SizeTo(k)) /\ LineTo(k).kind = "request"
         THEN /\ pos' = k + 1
              /\ state' = "headers"
              /\ UNCHANGED <<pc, headers, bodyExpected, bodySize, results>>
         ELSE Fail("bad") /\ UNCHANGED pos
    /\ UNCHANGED <<input, read, parsed>>

BrokenHeadersFull == Cardinality(DOMAIN headers) > MaxHeaders

\* m_reqHeaders is full.
HeadersFull == Cardinality(DOMAIN headers) >= MaxHeaders

\* addHeader: a name that comes again replaces its value.
AddHeader(n, v) ==
    headers' = [m \in DOMAIN headers \cup {n} |-> IF m = n THEN v ELSE headers[m]]

ParseHeader(k) ==
    LET l == LineTo(k) IN
    /\ pc = "parse" /\ state = "headers" /\ Found(k) /\ SizeTo(k) > 0
    /\ IF ~TooLong(SizeTo(k)) /\ ~HeadersFull /\ l.kind = "header"
         THEN /\ pos' = k + 1
              /\ AddHeader(l.name, l.value)
              /\ UNCHANGED <<pc, state, bodyExpected, bodySize, results>>
         ELSE Fail("bad") /\ UNCHANGED pos
    /\ UNCHANGED <<input, read, parsed>>

Has(n) == n \in DOMAIN headers

ContentLength == IF Has("length") THEN headers["length"] ELSE 0

\* The empty line.
ParseHeadersEnd(k) ==
    /\ pc = "parse" /\ state = "headers" /\ Found(k) /\ SizeTo(k) = 0
    /\ pos' = k + 1
    /\ \/ /\ Has("te") \/ ContentLength = Junk
          /\ Fail("bad")
       \/ /\ ~Has("te") /\ ContentLength > MaxBody
          /\ Fail("large")
       \/ /\ ~Has("te") /\ ContentLength \in 0 .. MaxBody
          /\ bodyExpected' = IF Has("length") THEN ContentLength ELSE bodyExpected
          /\ state' = IF bodyExpected' > 0 THEN "body" ELSE "done"
          /\ UNCHANGED <<pc, headers, bodySize, results>>
    /\ UNCHANGED <<input, read, parsed>>

Take == Least(bodyExpected - bodySize, read - pos)

BrokenParseBody ==   \* > instead of >=
    /\ pc = "parse" /\ state = "body"
    /\ pos' = pos + Take
    /\ bodySize' = bodySize + Take
    /\ IF bodySize' > bodyExpected
         THEN state' = "done" /\ UNCHANGED pc
         ELSE pc' = "wait" /\ UNCHANGED state
    /\ UNCHANGED <<input, read, parsed, headers, bodyExpected, results>>

ParseBody ==
    /\ pc = "parse" /\ state = "body"
    /\ pos' = pos + Take
    /\ bodySize' = bodySize + Take
    /\ IF bodySize' >= bodyExpected
         THEN state' = "done" /\ UNCHANGED pc
         ELSE pc' = "wait" /\ UNCHANGED state
    /\ UNCHANGED <<input, read, parsed, headers, bodyExpected, results>>

\* The request is answered.  processRead goes on with what is left, unless it
\* has taken its share of requests, the answer is a file that is sent now, or
\* it is the last of the connection.
RequestDone ==
    /\ pc = "parse" /\ state = "done"
    /\ results' = Append(results, "ok")
    /\ parsed' = parsed + 1
    /\ Reset
    /\ \/ pc' \in {"file", "closed"}
       \/ read = pos /\ pc' = "wait"
       \/ read > pos /\ parsed' < MaxPipelined /\ pc' = "parse"
       \/ read > pos /\ parsed' >= MaxPipelined /\ pc' = "held"
    /\ UNCHANGED <<input, read, pos>>

\* processWrite is through with the file, or has given it up.
FileDone ==
    /\ pc = "file"
    /\ pc' \in {IF read > pos THEN "held" ELSE "wait", "closed"}
    /\ UNCHANGED <<input, read, pos, parsed, request, results>>
-----------------------------------------------------------------------------
ParseLine(k) == ParseRequestLine(k) \/ ParseHeader(k) \/ ParseHeadersEnd(k)

Parse == \/ LineMissing \/ ParseBody \/ RequestDone
         \/ \E k \in pos + 1 .. read - 1 : ParseLine(k)

Next == Parse \/ FileDone \/ \E n \in 1 .. ReadMax : Receive(n)

Spec == Init /\ [][Next]_vars
-----------------------------------------------------------------------------
\* The reference: how a request as a whole has to be taken.
HeaderNames(q, n) == {q.lines[i].name : i \in 2 .. n}

LinesOk(q) ==
    /\ q.lines[1].kind = "request"
    /\ \A i \in 2 .. Len(q.lines) : /\ q.lines[i].kind = "header"
                                    /\ Cardinality(HeaderNames(q, i - 1)) < MaxHeaders
    /\ \A i \in DOMAIN q.lines : q.lines[i].size <= MaxLine

LengthOf(q) ==
    LET L == {i \in DOMAIN q.lines : q.lines[i].name = "length"}
    IN  IF L = {} THEN 0 ELSE q.lines[Max(L)].value

Verdict(q) ==
    IF \/ ~LinesOk(q)
       \/ "te" \in HeaderNames(q, Len(q.lines))
       \/ LengthOf(q) = Junk
      THEN "bad"
      ELSE IF LengthOf(q) > MaxBody THEN "large" ELSE "ok"

\* What a client sends: a request that is to be taken ends where its own
\* headers say.
ASSUME ScriptAssumption ==
    \A s \in Scripts :
        /\ s \in Seq(Requests)
        /\ \A i \in DOMAIN s :
              Verdict(s[i]) = "ok" => Len(s[i].body) = LengthOf(s[i])

OnTheEdge(q) == \E i \in DOMAIN q.lines : q.lines[i].size = MaxLine

\* However the network cuts the stream, every request is taken as the whole of
\* it deserves (HttpRequest.cpp:659-836).  One exception is in the code: a line
\* of exactly MaxLine bytes is good if its CR LF comes with it and too long if
\* the read ends between the two (HttpRequest.cpp:664, 704).
VerdictExact ==
    \A i \in DOMAIN results :
        \/ results[i] = Verdict(script[i])
        \/ results[i] = "bad" /\ OnTheEdge(script[i])

\* Pipelining: when a request is over the parser stands exactly at the first
\* byte of the next; no length or header of one request outlives it, and bytes
\* of a body are never taken for lines (HttpRequest.cpp:604-617, 765-782).
Framing ==
    state = "line" /\ pc # "closed" =>
        pos = Len(Bytes(SubSeq(script, 1, Len(results))))

\* parseHttpRequest asks for more data only if the request is not complete, and
\* the caller empties the buffer otherwise.  It is the caller that may stop
\* before a whole request, at its limit of requests or for a file (pc is "held"
\* or "file"; TcpConnection.cpp:105-107, HttpRequest.cpp:784-806).
WaitsOnlyIncomplete ==
    pc = "wait" /\ Len(results) < Len(script) =>
        read < Len(Bytes(SubSeq(script, 1, Len(results) + 1)))

\* When parseHttpRequest has asked for more data, the client has at most one
\* line in the buffer and nothing of a body, and what is kept of the request is
\* always within its limits.  Nothing bounds the buffer while the caller does
\* not parse (HttpRequest.cpp:664, 704, 731-736, 742, 765-782).
MemoryBounded ==
    /\ pc = "wait" => /\ read - pos <= MaxLine
                      /\ state = "body" => read = pos
    /\ Cardinality(DOMAIN headers) <= MaxHeaders
    /\ bodySize <= bodyExpected /\ bodyExpected <= MaxBody
=============================================================================
