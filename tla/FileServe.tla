------------------------------ MODULE FileServe ------------------------------
(***************************************************************************)
(* GET, HEAD and OPTIONS on one keep-alive connection: the route to a      *)
(* static file (HttpRequest.cpp), the answer (Httpresponse.cpp) and the    *)
(* file sent behind it (TcpConnection.cpp), while other workers create,    *)
(* enlarge and delete that file under /api/files/.  They do what           *)
(* SharedFile allows them.  The handler asks the file system up to four    *)
(* times before it sends anything, and each call is a step.                *)
(*                                                                         *)
(* Of a request only what decides its answer is kept: the method, what the *)
(* path names, and the Range header.  The client takes all it is sent.     *)
(*                                                                         *)
(* Operators named Broken... are faulty variants of the operator that      *)
(* follows them; no specification uses them.                               *)
(***************************************************************************)
EXTENDS ByteRange

CONSTANTS TextSize,  \* bytes of a text or JSON body
          MaxSize    \* bound: size of the file

ASSUME ServeAssumption ==
    /\ TextSize \in Nat \ {0}
    /\ MaxSize \in 0 .. WordMax \div 2

Methods == {"get", "head", "options", "other"}

\* No path at all, an answer kept ready (/health, /metrics, /api/files), a path
\* out of the root, the file, or a directory whose index.html is the file.
Targets == {"bad", "fixed", "outside", "file", "directory"}

\* Only a request for the file has a Range header, if there is one: left and
\* right are empty if there is none.
Files == {"file", "directory"}

Requests ==
    [method : Methods, target : Targets, left : {<<>>}, right : {<<>>},
     keepAlive : BOOLEAN]
      \cup [method : {"get", "head"}, target : Files, left : Texts, right : Texts,
            keepAlive : BOOLEAN]

VARIABLES exists, size, \* the file
          removed,      \* history: a DELETE has come since the request did
          failed,       \* history: the system has failed a call on a file
                        \* that was there
          pc,           \* where the connection is with the request
          request,      \* the request
          fileSize,     \* fileSize, NoSize before it is asked for
          response,     \* m_response
          closing,      \* m_closeAfterWrite
          fd,           \* m_fileFd: what it has open, and the size of a file
                        \* that is no longer the one of that name
          fileOffset,   \* m_fileOffset
          remaining,    \* m_fileRemaining
          declared,     \* Content-Length of the answer
          delivered     \* bytes of body sent

history == <<removed, failed>>
file == <<exists, size, history>>
sending == <<closing, fd, fileOffset, remaining>>
wire == <<declared, delivered>>
vars == <<file, pc, request, fileSize, response, sending, wire>>

NoSize == -1
NoLength == -1

NoRequest == [method |-> "get", target |-> "fixed", left |-> <<>>, right |-> <<>>,
              keepAlive |-> TRUE]

\* HttpResponse::reset.
EmptyResponse == [status |-> 0, length |-> NoLength, body |-> 0,
                  hasFile |-> FALSE, start |-> 0, count |-> 0, headOnly |-> FALSE]

Closed == [open |-> FALSE, linked |-> FALSE, size |-> 0]

SF == INSTANCE SharedFile

Init ==
    /\ SF!NoFile /\ removed = FALSE /\ failed = FALSE
    /\ pc = "idle" /\ request = NoRequest /\ fileSize = NoSize
    /\ response = EmptyResponse
    /\ closing = FALSE /\ fd = Closed /\ fileOffset = 0 /\ remaining = 0
    /\ declared = 0 /\ delivered = 0
-----------------------------------------------------------------------------
\* setResponse: a text, and nothing of what the response was told before.
Text(status) == [status |-> status, length |-> NoLength, body |-> TextSize,
                 hasFile |-> FALSE, start |-> 0, count |-> 0, headOnly |-> FALSE]

Respond(r) ==
    /\ response' = r
    /\ pc' = "prepare"

\* The answer to a request that needs no file, nothing if it needs one.
FixedAnswer(q) ==
    CASE q.method = "other"     -> {Text(405)}
      [] q.method = "options"   -> {[EmptyResponse EXCEPT !.status = 204]}
      [] q.method \in {"get", "head"} ->
           CASE q.target = "bad"     -> {Text(400)}
             [] q.target = "fixed"   -> {Text(200)}
             [] q.target = "outside" -> {Text(403)}
             [] OTHER                -> {}

\* The request is parsed; processHttpRequest resets the response.
Start(q) ==
    /\ pc = "idle"
    /\ request' = q
    /\ removed' = FALSE /\ failed' = FALSE
    /\ \/ \E r \in FixedAnswer(q) : Respond(r)
       \/ /\ FixedAnswer(q) = {}
          /\ response' = [EmptyResponse EXCEPT !.headOnly = (q.method = "head")]
          /\ pc' = IF q.target = "file" THEN "exists" ELSE "index"
    /\ UNCHANGED <<exists, size, fileSize, sending, wire>>

\* It is not: m_parseError.
StartUnparsed ==
    /\ pc = "idle"
    /\ request' = [NoRequest EXCEPT !.method = "unparsed", !.keepAlive = FALSE]
    /\ removed' = FALSE /\ failed' = FALSE
    /\ Respond(Text(400))
    /\ UNCHANGED <<exists, size, fileSize, sending, wire>>

Continue(label) ==
    /\ pc' = label
    /\ UNCHANGED response

\* fs::exists.  This question and the next are answered no by an error, too.
Exists ==
    /\ pc = "exists"
    /\ \/ exists /\ Continue("regular")
       \/ Respond(Text(404))
    /\ UNCHANGED <<file, request, fileSize, sending, wire>>

\* fs::is_regular_file of index.html; without one the directory is listed,
\* unless fs::exists or fs::is_directory have failed on it.
Index ==
    /\ pc = "index"
    /\ \/ exists /\ Continue("regular")
       \/ \E status \in {200, 403, 404} : Respond(Text(status))
    /\ UNCHANGED <<file, request, fileSize, sending, wire>>

Regular ==
    /\ pc = "regular"
    /\ \/ exists /\ Continue("size")
       \/ Respond(Text(403))
    /\ UNCHANGED <<file, request, fileSize, sending, wire>>

\* What the response is told of a file of size s.
FileAnswer(s) ==
    LET a == Reply(ParseRange(ParseDecimal(request.left), ParseDecimal(request.right), s), s)
    IN  IF a.status = 416
          THEN Text(416)
          ELSE [status |-> a.status, length |-> a.count, body |-> response.body,
                hasFile |-> TRUE, start |-> a.start, count |-> a.count,
                headOnly |-> response.headOnly]

\* fs::file_size.
FileSize ==
    /\ pc = "size" /\ exists
    /\ fileSize' = size
    /\ Respond(FileAnswer(size))
    /\ UNCHANGED <<file, request, sending, wire>>

\* Its error goes unseen: a file that is gone, or that the call fails for, has
\* the largest size there is.
FileSizeFails ==
    /\ pc = "size"
    /\ failed' = (failed \/ exists)
    /\ fileSize' = WordMax
    /\ Respond(FileAnswer(WordMax))
    /\ UNCHANGED <<exists, size, removed, request, sending, wire>>
-----------------------------------------------------------------------------
BrokenMarkHead(r) == r   \* trusts the mark set before the route

\* parseHttpRequest marks the answer to HEAD once more.
MarkHead(r) ==
    IF request.method = "unparsed" THEN r
    ELSE [r EXCEPT !.headOnly = (request.method = "head")]

ContentLength(r) ==
    IF r.body > 0 THEN r.body ELSE IF ~r.hasFile THEN 0 ELSE r.length

\* prepareMsg, and back in processRead.
PrepareMsg ==
    /\ pc = "prepare"
    /\ response' = MarkHead(response)
    /\ declared' = ContentLength(response')
    /\ delivered' = 0
    /\ closing' = ~request.keepAlive
    /\ pc' = IF response'.hasFile /\ ~response'.headOnly THEN "open" ELSE "head"
    /\ UNCHANGED <<file, request, fileSize, fd, fileOffset, remaining>>

BrokenOpen ==   \* all of the file from the offset on
    /\ pc = "open" /\ exists
    /\ fd' = [open |-> TRUE, linked |-> TRUE, size |-> 0]
    /\ fileOffset' = response.start /\ remaining' = fileSize
    /\ pc' = "head"
    /\ UNCHANGED <<file, request, fileSize, response, closing, wire>>

Open ==
    /\ pc = "open" /\ exists
    /\ fd' = [open |-> TRUE, linked |-> TRUE, size |-> 0]
    /\ fileOffset' = response.start /\ remaining' = response.count
    /\ pc' = "head"
    /\ UNCHANGED <<file, request, fileSize, response, closing, wire>>

\* The file is gone, or cannot be opened: no permission, no descriptor left.
OpenFails ==
    /\ pc = "open"
    /\ failed' = (failed \/ exists)
    /\ closing' = TRUE
    /\ pc' = "head"
    /\ UNCHANGED <<exists, size, removed, request, fileSize, response, fd, fileOffset, remaining, wire>>

\* processWrite has sent m_writeBuf.
SendHead ==
    /\ pc = "head"
    /\ delivered' = IF response.headOnly THEN 0 ELSE response.body
    /\ pc' = "file"
    /\ UNCHANGED <<file, request, fileSize, response, sending, declared>>

FdSize == IF fd.linked THEN size ELSE fd.size

\* There is something to send, at an offset that is one for the kernel.
Sending == pc = "file" /\ fd.open /\ remaining > 0
InRange == fileOffset <= WordMax \div 2

\* sendfile of k bytes, as often as there is something to send.
SendFile(k) ==
    /\ Sending /\ InRange
    /\ k <= remaining /\ fileOffset + k <= FdSize
    /\ fileOffset' = fileOffset + k
    /\ remaining' = remaining - k
    /\ delivered' = delivered + k
    /\ UNCHANGED <<file, pc, request, fileSize, response, closing, fd, declared>>

CloseFile == fd' = Closed /\ fileOffset' = 0 /\ remaining' = 0

\* sendfile fails, here at an offset that is none for the kernel ...
SendFileRefused ==
    /\ Sending /\ ~InRange
    /\ CloseFile
    /\ closing' = TRUE
    /\ UNCHANGED <<file, pc, request, fileSize, response, wire>>

\* ... or with any other error.
SendFileFails ==
    /\ Sending /\ InRange
    /\ failed' = TRUE
    /\ CloseFile
    /\ closing' = TRUE
    /\ UNCHANGED <<exists, size, removed, pc, request, fileSize, response, wire>>

\* The answer is sent.
Finish ==
    /\ pc = "file" /\ (fd.open => remaining = 0)
    /\ IF fd.open THEN CloseFile ELSE UNCHANGED <<fd, fileOffset, remaining>>
    /\ pc' = IF closing THEN "closed" ELSE "done"
    /\ UNCHANGED <<file, request, fileSize, response, closing, wire>>

\* sendfile finds the end of the file, again and again.
Starved == Sending /\ InRange /\ fileOffset >= FdSize

BrokenIdleTimeout ==   \* takes a connection with a file to send for busy
    /\ Starved /\ ~fd.open
    /\ CloseFile
    /\ pc' = "closed"
    /\ UNCHANGED <<file, request, fileSize, response, closing, wire>>

\* checkTimeout, when nothing could be sent for long enough; destroy.
IdleTimeout ==
    /\ Starved
    /\ CloseFile
    /\ pc' = "closed"
    /\ UNCHANGED <<file, request, fileSize, response, closing, wire>>

\* The connection waits for the next request; m_response stays as it is.
NextRequest ==
    /\ pc = "done"
    /\ pc' = "idle"
    /\ request' = NoRequest /\ fileSize' = NoSize
    /\ declared' = 0 /\ delivered' = 0
    /\ UNCHANGED <<file, response, sending>>
-----------------------------------------------------------------------------
connection == <<pc, request, fileSize, response, closing, fileOffset, remaining, wire>>

OthersCreate ==
    /\ SF!Create
    /\ UNCHANGED <<history, fd, connection>>

OthersLengthen ==
    /\ size' \in 1 .. MaxSize /\ SF!Lengthen
    /\ UNCHANGED <<history, fd, connection>>

\* The file that is open lives on without its name.
OthersDelete ==
    /\ SF!Unlink
    /\ removed' = TRUE
    /\ fd' = [fd EXCEPT !.linked = FALSE, !.size = FdSize]
    /\ UNCHANGED <<failed, connection>>

\* ... and may have been opened for writing, too.
OthersLengthenOpen ==
    /\ fd.open /\ ~fd.linked
    /\ \E n \in fd.size + 1 .. MaxSize : fd' = [fd EXCEPT !.size = n]
    /\ UNCHANGED <<file, connection>>

Others == OthersCreate \/ OthersLengthen \/ OthersDelete \/ OthersLengthenOpen
-----------------------------------------------------------------------------
Work == \/ Exists \/ Index \/ Regular \/ FileSize \/ FileSizeFails
        \/ PrepareMsg \/ Open \/ OpenFails \/ SendHead
        \/ \E k \in 1 .. MaxSize : SendFile(k)
        \/ SendFileRefused \/ Finish \/ IdleTimeout

Next == \/ \E q \in Requests : Start(q)
        \/ StartUnparsed \/ Work \/ SendFileFails \/ NextRequest \/ Others

Spec == Init /\ [][Next]_vars

\* No request may rely on an error of sendfile to come to its end.
FairSpec == Spec /\ WF_vars(Work)
-----------------------------------------------------------------------------
\* What the client takes for the body of the answer.
Expected == IF request.method = "head" THEN 0 ELSE declared

\* When the connection goes on to the next request, the client has got exactly
\* as many bytes of body as the answer has announced, and it never gets more:
\* whatever the file does in between, the next answer starts where the client
\* looks for it (Httpresponse.cpp:63-71, 104; HttpRequest.cpp:826;
\* TcpConnection.cpp:127-143, 216-247).
AnswerFramed ==
    /\ delivered <= Expected
    /\ pc = "done" => delivered = Expected

\* Uploads of the file, while the request is handled, never make the server
\* close the connection before the answer is complete, nor wait for bytes that
\* do not come: the size that is announced may be out of date, but then the
\* file is longer.  It takes a DELETE, or an error of fs::file_size, open or
\* sendfile, to cut an answer; an error of the earlier calls does not
\* (HttpRequest.cpp:1081-1141; TcpConnection.cpp:126-143, 225-247).
UploadsNeverCut ==
    ~removed /\ ~failed => /\ pc = "closed" => delivered = Expected
                           /\ ~Starved

\* The answer has the bytes that the text of the header asks for: numbers are
\* numbers up to the last word that fits, a range that is one is not ignored,
\* and 416 is sent only if there is nothing to send (HttpRequest.cpp:208-325,
\* 1118-1140; TESTING.md:50).
RangeExact ==
    fileSize # NoSize =>
        LET a == [status |-> response.status, start |-> response.start,
                  count |-> response.count]
        IN  /\ Exact(End(request.left), End(request.right), fileSize, a)
            /\ a.status = 206 => IsRange(request.left, request.right)
            /\ IsRange(request.left, request.right) => a.status \in {206, 416}

\* Every request comes to an end, even if the file it has opened is too short
\* for ever: sendfile then sends nothing, and the idle timeout, which only what
\* is sent puts off, closes the connection (TcpConnection.cpp:240-246, 332-343).
RequestEnds == pc \notin {"idle", "done", "closed"} ~> pc \in {"done", "closed"}
=============================================================================
