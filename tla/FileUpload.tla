----------------------------- MODULE FileUpload -----------------------------
(***************************************************************************)
(* PATCH and DELETE of one file under /api/files/ (HttpRequest.cpp), run   *)
(* by worker threads at the same time: nothing but the file system lies    *)
(* between them, and a handler asks it several times before it writes.     *)
(* Each call into the file system is a step.                               *)
(*                                                                         *)
(* All clients upload the same content, in pieces of their choice and as   *)
(* often as they like (a client that misses an answer repeats the piece),  *)
(* so that of the file only its size matters and which of its bytes were   *)
(* never written.  The name is valid, inside the root and no directory.    *)
(*                                                                         *)
(* Operators named Broken... are faulty variants of the operator that      *)
(* follows them; no specification uses them.                               *)
(***************************************************************************)
EXTENDS Integers

CONSTANTS Handlers,   \* requests being handled, one per worker
          FullSize    \* bound: bytes of the content

ASSUME UploadAssumption == FullSize \in Nat

VARIABLES exists, size, \* the file
          holes,        \* positions of it that nobody has written
          deleted,      \* history: a DELETE has removed it at some time
          pc,           \* pc[h]: where handler h is
          offset,       \* Upload-Offset
          len,          \* size of m_body
          currentSize,  \* currentSize
          written,      \* written
          linked,       \* the file that h has opened is still there
          reply         \* reply[h]: the last answer, its status and size

file == <<exists, size, holes, deleted>>
request == <<offset, len>>
vars == <<file, pc, request, currentSize, written, linked, reply>>

Larger(a, b) == IF a >= b THEN a ELSE b

NoReply == [status |-> 0, size |-> 0]

Init ==
    /\ exists = FALSE /\ size = 0 /\ holes = {} /\ deleted = FALSE
    /\ pc = [h \in Handlers |-> "idle"]
    /\ offset = [h \in Handlers |-> 0] /\ len = [h \in Handlers |-> 0]
    /\ currentSize = [h \in Handlers |-> 0]
    /\ written = [h \in Handlers |-> 0]
    /\ linked = [h \in Handlers |-> FALSE]
    /\ reply = [h \in Handlers |-> NoReply]
-----------------------------------------------------------------------------
\* h goes on, or is through with an answer.
Goto(h, label) ==
    /\ pc' = [pc EXCEPT ![h] = label]
    /\ reply' = reply

Answer(h, status, n) ==
    /\ pc' = [pc EXCEPT ![h] = "idle"]
    /\ reply' = [reply EXCEPT ![h] = [status |-> status, size |-> n]]

StartPatch(h, o, n) ==
    /\ pc[h] = "idle"
    /\ offset' = [offset EXCEPT ![h] = o]
    /\ len' = [len EXCEPT ![h] = n]
    /\ Goto(h, "exists")
    /\ UNCHANGED <<file, currentSize, written, linked>>

BrokenMismatch(o, n, s) == o + n < s   \* the offset may lie beyond the end

\* The piece neither continues the file nor repeats its end.
Mismatch(o, n, s) == o > s \/ o + n < s

\* The piece is the end of the file already.
Duplicate(o, n, s) == n > 0 /\ o < s /\ o + n = s

\* What the handler makes of the size s it has read.
Decide(h, s) ==
    LET o == offset[h]
        n == len[h]
    IN  /\ currentSize' = [currentSize EXCEPT ![h] = s]
        /\ \/ Mismatch(o, n, s) /\ Answer(h, 409, 0)
           \/ ~Mismatch(o, n, s) /\ Duplicate(o, n, s) /\ Answer(h, 200, s)
           \/ ~Mismatch(o, n, s) /\ ~Duplicate(o, n, s) /\ Goto(h, "open")
        /\ UNCHANGED <<file, request, written, linked>>

\* Each question to the file system may fail for a reason of its own.
ExistsFails(h) ==
    /\ pc[h] = "exists"
    /\ Answer(h, 500, 0)
    /\ UNCHANGED <<file, request, currentSize, written, linked>>

\* fs::exists says yes.
Exists(h) ==
    /\ pc[h] = "exists" /\ exists
    /\ Goto(h, "size")
    /\ UNCHANGED <<file, request, currentSize, written, linked>>

NotFound(h) ==
    /\ pc[h] = "exists" /\ ~exists /\ offset[h] # 0
    /\ Answer(h, 404, 0)
    /\ UNCHANGED <<file, request, currentSize, written, linked>>

NewFile(h) ==
    /\ pc[h] = "exists" /\ ~exists /\ offset[h] = 0
    /\ Decide(h, 0)

FileSize(h) ==
    /\ pc[h] = "size" /\ exists
    /\ Decide(h, size)

\* The file is gone, or another error.
FileSizeFails(h) ==
    /\ pc[h] = "size"
    /\ Answer(h, 500, 0)
    /\ UNCHANGED <<file, request, currentSize, written, linked>>

BrokenOpen(h) ==   \* with O_TRUNC
    /\ pc[h] = "open"
    /\ exists' = TRUE
    /\ size' = 0 /\ holes' = {}
    /\ UNCHANGED deleted
    /\ written' = [written EXCEPT ![h] = 0]
    /\ linked' = [linked EXCEPT ![h] = TRUE]
    /\ Goto(h, "write")
    /\ UNCHANGED <<request, currentSize>>

\* open with O_CREAT and without O_TRUNC.
Open(h) ==
    /\ pc[h] = "open"
    /\ exists' = TRUE
    /\ UNCHANGED <<size, holes, deleted>>
    /\ written' = [written EXCEPT ![h] = 0]
    /\ linked' = [linked EXCEPT ![h] = TRUE]
    /\ Goto(h, "write")
    /\ UNCHANGED <<request, currentSize>>

OpenFails(h) ==
    /\ pc[h] = "open"
    /\ Answer(h, 500, 0)
    /\ UNCHANGED <<file, request, currentSize, written, linked>>

\* pwrite of k bytes; what is written to a removed file is lost.
Write(h, k) ==
    LET from == offset[h] + written[h]
        upto == from + k
    IN  /\ pc[h] = "write" /\ k <= len[h] - written[h]
        /\ written' = [written EXCEPT ![h] = @ + k]
        /\ IF linked[h]
             THEN /\ size' = Larger(size, upto)
                  /\ holes' = (holes \ (from + 1 .. upto)) \cup (size + 1 .. from)
             ELSE UNCHANGED <<size, holes>>
        /\ UNCHANGED <<exists, deleted, pc, request, currentSize, linked, reply>>

WriteFails(h) ==
    /\ pc[h] = "write" /\ written[h] < len[h]
    /\ Answer(h, 500, 0)
    /\ linked' = [linked EXCEPT ![h] = FALSE]
    /\ UNCHANGED <<file, request, currentSize, written>>

BrokenNewSize(h) == currentSize[h] + len[h]   \* forgets the overlap

NewSize(h) == Larger(currentSize[h], offset[h] + len[h])

BrokenWritten(h) ==   \* takes a short write for a whole one
    /\ pc[h] = "write" /\ (written[h] > 0 \/ len[h] = 0)
    /\ Answer(h, 200, NewSize(h))
    /\ linked' = [linked EXCEPT ![h] = FALSE]
    /\ UNCHANGED <<file, request, currentSize, written>>

Written(h) ==
    /\ pc[h] = "write" /\ written[h] = len[h]
    /\ Answer(h, 200, NewSize(h))
    /\ linked' = [linked EXCEPT ![h] = FALSE]
    /\ UNCHANGED <<file, request, currentSize, written>>
-----------------------------------------------------------------------------
StartDelete(h) ==
    /\ pc[h] = "idle"
    /\ Goto(h, "delete")
    /\ UNCHANGED <<file, request, currentSize, written, linked>>

DeleteFinds(h) ==
    /\ pc[h] = "delete"
    /\ IF exists THEN Goto(h, "remove") ELSE Answer(h, 404, 0)
    /\ UNCHANGED <<file, request, currentSize, written, linked>>

\* fs::remove.
Remove(h) ==
    /\ pc[h] = "remove" /\ exists
    /\ exists' = FALSE /\ size' = 0 /\ holes' = {} /\ deleted' = TRUE
    /\ linked' = [g \in Handlers |-> FALSE]
    /\ Answer(h, 204, 0)
    /\ UNCHANGED <<request, currentSize, written>>

\* fs::exists or fs::remove fails; a second fs::remove finds nothing.
DeleteFails(h) ==
    /\ pc[h] \in {"delete", "remove"}
    /\ Answer(h, 500, 0)
    /\ UNCHANGED <<file, request, currentSize, written, linked>>
-----------------------------------------------------------------------------
Patch(h) == \/ Exists(h) \/ ExistsFails(h) \/ NotFound(h) \/ NewFile(h)
            \/ FileSize(h) \/ FileSizeFails(h)
            \/ Open(h) \/ OpenFails(h)
            \/ \E k \in 1 .. FullSize : Write(h, k)
            \/ WriteFails(h) \/ Written(h)

Delete(h) == DeleteFinds(h) \/ Remove(h) \/ DeleteFails(h)

Start(h) == \/ \E o \in 0 .. FullSize : \E n \in 0 .. FullSize - o :
                  StartPatch(h, o, n)
            \/ StartDelete(h)

Next == \E h \in Handlers : Start(h) \/ Patch(h) \/ Delete(h)

Spec == Init /\ [][Next]_vars
-----------------------------------------------------------------------------
Labels == {"idle", "exists", "size", "open", "write", "delete", "remove"}

TypeOK ==
    /\ exists \in BOOLEAN /\ deleted \in BOOLEAN /\ size \in Nat
    /\ holes \in SUBSET (1 .. size)
    /\ pc \in [Handlers -> Labels]
    /\ offset \in [Handlers -> Nat] /\ len \in [Handlers -> Nat]
    /\ currentSize \in [Handlers -> Nat] /\ written \in [Handlers -> Nat]
    /\ linked \in [Handlers -> BOOLEAN]
    /\ reply \in [Handlers -> [status : {0, 200, 204, 404, 409, 500}, size : Nat]]
    /\ \A h \in Handlers : pc[h] = "write" => written[h] <= len[h]

\* However the pieces overlap, repeat, run in several workers at once or fail
\* half-way, a file that has never been deleted is a beginning of the content:
\* the size that a handler has read may be out of date when it writes, but
\* then the file has only grown (HttpRequest.cpp:975-1043).
NoHoles == ~deleted => holes = {}

\* Nor does an answer 200 ever promise more than such a file has, neither then
\* nor later; a client goes on from the size it is told
\* (HttpRequest.cpp:1011-1017, 1046-1050).
Backed == \A h \in Handlers : reply[h].status = 200 => reply[h].size <= size

ReplyBacked == ~deleted => Backed

\* Only a DELETE can take away what a piece answered with 200 has stored: when
\* a handler is through and the file it has opened is still there, all of its
\* piece is in it, whatever the others have done to the file meanwhile
\* (HttpRequest.cpp:1019-1044).
PieceStored ==
    [][\A h \in Handlers :
         pc[h] = "write" /\ linked[h] /\ pc'[h] = "idle" /\ reply'[h].status = 200 =>
            offset[h] + 1 .. offset[h] + len[h] \subseteq (1 .. size) \ holes]_vars

\* The handlers together promise no less than SharedFile says: however they
\* interleave, the file never gets shorter except by being removed
\* (HttpRequest.cpp:944, 1019-1044).
SF == INSTANCE SharedFile

ImplementsSharedFile == SF!Spec
=============================================================================
