-------------------------- MODULE FileUploadProofs --------------------------
(***************************************************************************)
(* As long as no DELETE has removed the file, PATCH requests leave no hole *)
(* in it and promise no more than it has, for any number of handlers and   *)
(* any content.                                                            *)
(*                                                                         *)
(* The size a handler has read may be out of date when it writes.  What    *)
(* makes that harmless is that the file only grows: the offset accepted    *)
(* for an old size is inside the file for every later one.                 *)
(***************************************************************************)
EXTENDS FileUpload, TLAPS

\* Handler h may write: its offset is inside the file.
Inside(h) ==
    /\ offset[h] <= currentSize[h] /\ currentSize[h] <= size
    /\ offset[h] + len[h] >= currentSize[h]

Accepted(h) ==
    /\ pc[h] = "open" => Inside(h)
    /\ pc[h] = "write" =>
        Inside(h) /\ linked[h] /\ offset[h] + written[h] <= size

Solid == holes = {}

\* What holds of a file that nobody has deleted yet.
Clean ==
    /\ TypeOK /\ Solid /\ Backed
    /\ \A h \in Handlers : Accepted(h)

IInv == ~deleted => Clean

LEMMA LargerBounds ==
    ASSUME NEW a \in Nat, NEW b \in Nat
    PROVE  /\ Larger(a, b) \in Nat
           /\ Larger(a, b) >= a /\ Larger(a, b) >= b
           /\ Larger(a, b) = a \/ Larger(a, b) = b
  BY DEF Larger

LEMMA FlagSet ==
    ASSUME NEW S, NEW f \in [S -> BOOLEAN], NEW x \in S, NEW b \in BOOLEAN
    PROVE  /\ [f EXCEPT ![x] = b] \in [S -> BOOLEAN]
           /\ [f EXCEPT ![x] = b][x] = b
           /\ \A y \in S \ {x} : [f EXCEPT ![x] = b][y] = f[y]
  <1>1. [f EXCEPT ![x] = b] \in [S -> BOOLEAN]
    BY Zenon
  <1>2. [f EXCEPT ![x] = b][x] = b
    BY Zenon
  <1>3. \A y \in S \ {x} : [f EXCEPT ![x] = b][y] = f[y]
    BY Zenon
  <1>. QED BY <1>1, <1>2, <1>3

LEMMA InitIInv == ASSUME Init PROVE IInv
  <1>. USE DEF Init
  <1>1. exists \in BOOLEAN /\ deleted \in BOOLEAN /\ linked \in [Handlers -> BOOLEAN]
    BY Zenon
  <1>2. TypeOK
    BY <1>1 DEF TypeOK, NoReply, Labels
  <1>. QED BY <1>2 DEF IInv, Clean, Solid, Backed, NoReply, Accepted, Inside

\* A step that keeps the file and the request under way.
LEMMA AnswerKeeps ==
    ASSUME Clean, NEW h \in Handlers, NEW status \in {200, 404, 409, 500},
           NEW n \in Nat, status = 200 => n <= size,
           Answer(h, status, n),
           UNCHANGED <<file, request, written>>,
           currentSize' \in [Handlers -> Nat],
           \A g \in Handlers \ {h} : currentSize'[g] = currentSize[g],
           linked' \in [Handlers -> BOOLEAN],
           \A g \in Handlers \ {h} : linked'[g] = linked[g]
    PROVE  Clean'
  <1>1. reply' \in [Handlers -> [status : {0, 200, 204, 404, 409, 500}, size : Nat]]
    BY DEF Clean, TypeOK, Answer
  <1>2. Backed'
    BY DEF Clean, TypeOK, Answer, Backed, file
  <1>3. \A g \in Handlers : g # h => pc'[g] = pc[g]
    BY DEF Clean, TypeOK, Answer
  <1>4. pc' \in [Handlers -> Labels] /\ pc'[h] = "idle"
    BY DEF Clean, TypeOK, Answer, Labels
  <1>5. TypeOK'
    BY <1>1, <1>3, <1>4 DEF Clean, TypeOK, file, request
  <1>6. \A g \in Handlers : Accepted(g)'
    BY <1>3, <1>4 DEF Clean, Accepted, Inside, file, request
  <1>. QED BY <1>2, <1>5, <1>6 DEF Clean, Solid, file

LEMMA DecideKeeps ==
    ASSUME Clean, NEW h \in Handlers, NEW s \in Nat, s <= size, Decide(h, s)
    PROVE  Clean'
  <1>. DEFINE o == offset[h]
              n == len[h]
  <1>1. /\ currentSize' = [currentSize EXCEPT ![h] = s]
        /\ currentSize' \in [Handlers -> Nat] /\ currentSize'[h] = s
        /\ \A g \in Handlers \ {h} : currentSize'[g] = currentSize[g]
        /\ UNCHANGED <<file, request, written, linked>>
        /\ o \in Nat /\ n \in Nat
    BY DEF Decide, Clean, TypeOK
  <1>2. CASE Answer(h, 409, 0)
    BY <1>1, <1>2, AnswerKeeps DEF Clean, TypeOK
  <1>3. CASE Answer(h, 200, s)
    BY <1>1, <1>3, AnswerKeeps DEF Clean, TypeOK
  <1>4. CASE ~Mismatch(o, n, s) /\ Goto(h, "open")
    <2>1. /\ pc' \in [Handlers -> Labels] /\ pc'[h] = "open"
          /\ \A g \in Handlers \ {h} : pc'[g] = pc[g]
      BY <1>4 DEF Goto, Clean, TypeOK, Labels
    <2>2. o <= s /\ o + n >= s
      BY <1>1, <1>4 DEF Mismatch
    <2>3. TypeOK'
      BY <1>1, <1>4, <2>1 DEF Clean, TypeOK, Goto, file, request
    <2>4. \A g \in Handlers : Accepted(g)'
      BY <1>1, <2>1, <2>2 DEF Clean, Accepted, Inside, file, request
    <2>. QED BY <1>1, <1>4, <2>3, <2>4 DEF Clean, Solid, Backed, Goto, file
  <1>. QED BY <1>2, <1>3, <1>4 DEF Decide

LEMMA StartKeeps ==
    ASSUME Clean, NEW h \in Handlers, NEW o \in Nat, NEW n \in Nat,
           StartPatch(h, o, n)
    PROVE  Clean'
  <1>1. /\ pc' \in [Handlers -> Labels] /\ pc'[h] = "exists"
        /\ \A g \in Handlers \ {h} : pc'[g] = pc[g]
        /\ offset' \in [Handlers -> Nat] /\ len' \in [Handlers -> Nat]
        /\ \A g \in Handlers \ {h} : offset'[g] = offset[g] /\ len'[g] = len[g]
        /\ UNCHANGED <<file, currentSize, written, linked, reply>>
    BY DEF StartPatch, Goto, Clean, TypeOK, Labels
  <1>2. TypeOK'
    BY <1>1 DEF Clean, TypeOK, file
  <1>3. \A g \in Handlers : Accepted(g)'
    BY <1>1 DEF Clean, Accepted, Inside, file
  <1>. QED BY <1>1, <1>2, <1>3 DEF Clean, Solid, Backed, file

LEMMA ExistsKeeps ==
    ASSUME Clean, NEW h \in Handlers, Exists(h)
    PROVE  Clean'
  <1>1. /\ pc' \in [Handlers -> Labels] /\ pc'[h] = "size"
        /\ \A g \in Handlers \ {h} : pc'[g] = pc[g]
        /\ UNCHANGED <<file, request, currentSize, written, linked, reply>>
    BY DEF Exists, Goto, Clean, TypeOK, Labels
  <1>2. TypeOK'
    BY <1>1 DEF Clean, TypeOK, file, request
  <1>3. \A g \in Handlers : Accepted(g)'
    BY <1>1 DEF Clean, Accepted, Inside, file, request
  <1>. QED BY <1>1, <1>2, <1>3 DEF Clean, Solid, Backed, file

LEMMA OpenKeeps ==
    ASSUME Clean, NEW h \in Handlers, Open(h)
    PROVE  Clean'
  <1>1. /\ pc[h] = "open" /\ pc' \in [Handlers -> Labels] /\ pc'[h] = "write"
        /\ \A g \in Handlers \ {h} :
              pc'[g] = pc[g] /\ written'[g] = written[g] /\ linked'[g] = linked[g]
        /\ written' \in [Handlers -> Nat] /\ written'[h] = 0
        /\ UNCHANGED <<size, holes, deleted, request, currentSize, reply>>
    BY DEF Open, Goto, Clean, TypeOK, Labels
  <1>2. linked' \in [Handlers -> BOOLEAN] /\ linked'[h] = TRUE /\ exists' \in BOOLEAN
    BY Zenon, FlagSet DEF Open, Clean, TypeOK
  <1>3. TypeOK'
    BY <1>1, <1>2 DEF Clean, TypeOK, request
  <1>4. ASSUME NEW g \in Handlers PROVE Accepted(g)'
    BY <1>1, <1>2 DEF Clean, TypeOK, Accepted, Inside, request
  <1>. QED BY <1>1, <1>3, <1>4 DEF Clean, Solid, Backed

LEMMA WriteKeeps ==
    ASSUME Clean, NEW h \in Handlers, NEW k \in Nat \ {0}, Write(h, k)
    PROVE  Clean'
  <1>. DEFINE from == offset[h] + written[h]
              upto == from + k
  <1>1. /\ from \in Nat /\ upto \in Nat /\ from <= size /\ linked[h]
        /\ pc[h] = "write" /\ k <= len[h] - written[h]
        /\ written' = [written EXCEPT ![h] = @ + k]
        /\ UNCHANGED <<exists, deleted, pc, request, currentSize, linked, reply>>
        /\ offset[h] \in Nat /\ written[h] \in Nat /\ len[h] \in Nat /\ size \in Nat
    BY DEF Write, Clean, TypeOK, Accepted
  <1>2. /\ size' = Larger(size, upto)
        /\ holes' = (holes \ (from + 1 .. upto)) \cup (size + 1 .. from)
    BY <1>1 DEF Write
  <1>3. size' \in Nat /\ size' >= size /\ size' >= upto
    BY <1>1, <1>2, LargerBounds
  <1>4. size + 1 .. from = {}
    BY <1>1
  <1>5. holes' = {}
    BY <1>2, <1>4 DEF Clean, Solid
  <1>6. /\ written' \in [Handlers -> Nat] /\ written'[h] = written[h] + k
        /\ \A g \in Handlers \ {h} : written'[g] = written[g]
    BY <1>1 DEF Clean, TypeOK
  <1>7. TypeOK'
    BY <1>1, <1>3, <1>5, <1>6 DEF Clean, TypeOK, request
  <1>8. ASSUME NEW g \in Handlers PROVE Accepted(g)'
    <2>1. Inside(g) => Inside(g)'
      BY <1>1, <1>3 DEF Clean, TypeOK, Inside, request
    <2>2. pc[g] = "write" => offset'[g] + written'[g] <= size'
      <3>1. CASE g = h
        BY <1>1, <1>3, <1>6, <3>1 DEF request
      <3>2. CASE g # h
        BY <1>1, <1>3, <1>6, <3>2 DEF Clean, TypeOK, Accepted, request
      <3>. QED BY <3>1, <3>2
    <2>. QED BY <1>1, <2>1, <2>2 DEF Clean, Accepted
  <1>9. Backed'
    BY <1>1, <1>3 DEF Clean, TypeOK, Backed
  <1>. QED BY <1>5, <1>7, <1>8, <1>9 DEF Clean, Solid

LEMMA WrittenKeeps ==
    ASSUME Clean, NEW h \in Handlers, Written(h)
    PROVE  Clean'
  <1>1. /\ currentSize[h] \in Nat /\ offset[h] + len[h] \in Nat
        /\ currentSize[h] <= size /\ offset[h] + len[h] <= size /\ size \in Nat
    BY DEF Written, Clean, TypeOK, Accepted, Inside
  <1>2. NewSize(h) \in Nat /\ NewSize(h) <= size
    BY <1>1, LargerBounds DEF NewSize
  <1>3. /\ linked' \in [Handlers -> BOOLEAN]
        /\ \A g \in Handlers \ {h} : linked'[g] = linked[g]
    <2>1. linked' = [linked EXCEPT ![h] = FALSE] /\ linked \in [Handlers -> BOOLEAN]
      BY DEF Written, Clean, TypeOK
    <2>. QED BY Zenon, <2>1, FlagSet
  <1>4. /\ UNCHANGED <<file, request, currentSize, written>>
        /\ Answer(h, 200, NewSize(h))
    BY DEF Written
  <1>. QED BY SMTT(30), <1>2, <1>3, <1>4, AnswerKeeps DEF Clean, TypeOK

LEMMA FailureKeeps ==
    ASSUME Clean, NEW h \in Handlers,
           NotFound(h) \/ ExistsFails(h) \/ FileSizeFails(h) \/ OpenFails(h) \/ WriteFails(h)
    PROVE  Clean'
  <1>1. /\ UNCHANGED <<file, request, currentSize, written>>
        /\ Answer(h, 404, 0) \/ Answer(h, 500, 0)
    BY DEF NotFound, ExistsFails, FileSizeFails, OpenFails, WriteFails
  <1>2. linked' = linked \/ linked' = [linked EXCEPT ![h] = FALSE]
    BY DEF NotFound, ExistsFails, FileSizeFails, OpenFails, WriteFails
  <1>3. linked \in [Handlers -> BOOLEAN]
    BY DEF Clean, TypeOK
  <1>4. /\ linked' \in [Handlers -> BOOLEAN]
        /\ \A g \in Handlers \ {h} : linked'[g] = linked[g]
    BY Zenon, <1>2, <1>3, FlagSet
  <1>. QED BY <1>1, <1>4, AnswerKeeps DEF Clean, TypeOK

\* A DELETE that only looks, or comes too late.
LEMMA DeleteKeeps ==
    ASSUME Clean, NEW h \in Handlers,
           StartDelete(h) \/ DeleteFinds(h) \/ DeleteFails(h)
    PROVE  Clean'
  <1>1. UNCHANGED <<file, request, currentSize, written, linked>>
    BY DEF StartDelete, DeleteFinds, DeleteFails
  <1>2. ASSUME NEW status \in {404, 500}, Answer(h, status, 0) PROVE Clean'
    <2>1. currentSize' \in [Handlers -> Nat] /\ linked' \in [Handlers -> BOOLEAN]
      BY <1>1 DEF Clean, TypeOK
    <2>. QED BY <1>1, <1>2, <2>1, AnswerKeeps
  <1>3. CASE Goto(h, "delete") \/ Goto(h, "remove")
    <2>1. /\ pc' \in [Handlers -> Labels] /\ pc'[h] \in {"delete", "remove"}
          /\ \A g \in Handlers \ {h} : pc'[g] = pc[g]
          /\ reply' = reply
      BY <1>3 DEF Goto, Clean, TypeOK, Labels
    <2>2. TypeOK'
      BY <1>1, <2>1 DEF Clean, TypeOK, file, request
    <2>3. \A g \in Handlers : Accepted(g)'
      BY <1>1, <2>1 DEF Clean, Accepted, Inside, file, request
    <2>. QED BY <1>1, <2>1, <2>2, <2>3 DEF Clean, Solid, Backed, file
  <1>. QED BY <1>2, <1>3 DEF StartDelete, DeleteFinds, DeleteFails

LEMMA CleanStep ==
    ASSUME Clean, [Next]_vars, ~deleted'
    PROVE  Clean'
  <1>1. CASE UNCHANGED vars
    BY <1>1 DEF vars, file, request, Clean, TypeOK, Solid, Backed, Accepted, Inside
  <1>2. ASSUME NEW h \in Handlers, Start(h) PROVE Clean'
    <2>1. ASSUME NEW o \in 0 .. FullSize, NEW n \in 0 .. FullSize - o,
                 StartPatch(h, o, n)
          PROVE  Clean'
      <3>1. o \in Nat /\ n \in Nat
        BY UploadAssumption
      <3>. QED BY <2>1, <3>1, StartKeeps
    <2>. QED BY <1>2, <2>1, DeleteKeeps DEF Start
  <1>3. ASSUME NEW h \in Handlers, Patch(h) PROVE Clean'
    <2>1. CASE NewFile(h)
      BY <2>1, DecideKeeps DEF NewFile, Clean, TypeOK
    <2>2. CASE FileSize(h)
      BY <2>2, DecideKeeps DEF FileSize, Clean, TypeOK
    <2>3. CASE \E k \in 1 .. FullSize : Write(h, k)
      BY <2>3, WriteKeeps
    <2>4. CASE Exists(h) \/ Open(h) \/ Written(h)
      BY <2>4, ExistsKeeps, OpenKeeps, WrittenKeeps
    <2>. QED BY <1>3, <2>1, <2>2, <2>3, <2>4, FailureKeeps DEF Patch
  <1>4. ASSUME NEW h \in Handlers, Delete(h) PROVE Clean'
    <2>1. ~Remove(h)
      BY DEF Remove
    <2>. QED BY <1>4, <2>1, DeleteKeeps DEF Delete
  <1>. QED BY <1>1, <1>2, <1>3, <1>4 DEF Next

\* What has been deleted stays so.
LEMMA DeletedStays ==
    ASSUME deleted, [Next]_vars
    PROVE  deleted'
  <1>1. CASE UNCHANGED vars
    BY <1>1 DEF vars, file
  <1>2. ASSUME NEW h \in Handlers, Start(h) \/ Delete(h) PROVE deleted'
    BY <1>2 DEF Start, StartPatch, StartDelete, Delete, DeleteFinds, Remove,
                DeleteFails, file
  <1>3. ASSUME NEW h \in Handlers, Patch(h) PROVE deleted'
    BY <1>3 DEF Patch, Exists, NotFound, ExistsFails, NewFile, Decide, FileSize, FileSizeFails,
                Open, OpenFails, Write, WriteFails, Written, file
  <1>. QED BY <1>1, <1>2, <1>3 DEF Next

LEMMA NextIInv ==
    ASSUME IInv, [Next]_vars
    PROVE  IInv'
  BY CleanStep, DeletedStays DEF IInv
-----------------------------------------------------------------------------
\* However many handlers overlap, the file is a beginning of the content until
\* a DELETE removes it (HttpRequest.cpp:975-1043).
THEOREM UploadsLeaveNoHole == Spec => []NoHoles
  <1>1. Init => IInv
    BY InitIInv
  <1>2. IInv /\ [Next]_vars => IInv'
    BY NextIInv
  <1>3. IInv => NoHoles
    BY DEF IInv, Clean, Solid, NoHoles
  <1>. QED BY <1>1, <1>2, <1>3, PTL DEF Spec

\* What an answer 200 has promised stays in the file until a DELETE removes it
\* (HttpRequest.cpp:1011-1017, 1046-1050).
THEOREM AnswersAreBacked == Spec => []ReplyBacked
  <1>1. Init => IInv
    BY InitIInv
  <1>2. IInv /\ [Next]_vars => IInv'
    BY NextIInv
  <1>3. IInv => ReplyBacked
    BY DEF IInv, Clean, ReplyBacked
  <1>. QED BY <1>1, <1>2, <1>3, PTL DEF Spec
-----------------------------------------------------------------------------
\* What holds whether or not the file has been deleted: a handler that writes
\* to the file as it is has the first bytes of its piece in it.
Stored(h) ==
    linked[h] => /\ pc[h] = "write" /\ exists
                 /\ offset[h] + 1 .. offset[h] + written[h] \subseteq (1 .. size) \ holes

RInv ==
    /\ TypeOK
    /\ ~exists => size = 0
    /\ \A h \in Handlers : Stored(h)

LEMMA InitRInv == ASSUME Init PROVE RInv
  <1>. USE DEF Init
  <1>1. exists \in BOOLEAN /\ deleted \in BOOLEAN /\ linked \in [Handlers -> BOOLEAN]
    BY Zenon
  <1>2. TypeOK
    BY <1>1 DEF TypeOK, NoReply, Labels
  <1>. QED BY <1>2 DEF RInv, Stored

\* A step of h that leaves the file and the other handlers alone.
LEMMA QuietType ==
    ASSUME TypeOK, NEW h \in Handlers,
           UNCHANGED <<file, request>>,
           Goto(h, "exists") \/ Goto(h, "size") \/ Goto(h, "open") \/ Goto(h, "delete")
             \/ Goto(h, "remove")
             \/ \E status \in {200, 204, 404, 409, 500}, n \in Nat : Answer(h, status, n),
           currentSize' \in [Handlers -> Nat], written' = written,
           linked' \in [Handlers -> BOOLEAN]
    PROVE  /\ TypeOK'
           /\ \A g \in Handlers \ {h} : pc'[g] = pc[g]
  <1>1. CASE \E status \in {200, 204, 404, 409, 500}, n \in Nat : Answer(h, status, n)
    BY <1>1 DEF TypeOK, Answer, Labels, file, request
  <1>2. CASE \/ Goto(h, "exists") \/ Goto(h, "size") \/ Goto(h, "open")
             \/ Goto(h, "delete") \/ Goto(h, "remove")
    BY <1>2 DEF TypeOK, Goto, Labels, file, request
  <1>. QED BY <1>1, <1>2

LEMMA QuietKeeps ==
    ASSUME RInv, NEW h \in Handlers,
           TypeOK', UNCHANGED <<file, written>>,
           \A g \in Handlers \ {h} : /\ pc'[g] = pc[g] /\ linked'[g] = linked[g]
                                    /\ offset'[g] = offset[g],
           linked'[h] = FALSE
    PROVE  RInv'
  BY DEF RInv, Stored, file

\* ... and that has not opened it.
LEMMA OffKeeps ==
    ASSUME RInv, NEW h \in Handlers, pc[h] # "write",
           UNCHANGED <<file, request, written, linked>>,
           Goto(h, "exists") \/ Goto(h, "size") \/ Goto(h, "open") \/ Goto(h, "delete")
             \/ Goto(h, "remove")
             \/ \E status \in {200, 204, 404, 409, 500}, n \in Nat : Answer(h, status, n),
           currentSize' \in [Handlers -> Nat]
    PROVE  RInv'
  <1>1. linked' \in [Handlers -> BOOLEAN] /\ linked[h] = FALSE
    BY DEF RInv, TypeOK, Stored
  <1>2. TypeOK' /\ \A g \in Handlers \ {h} : pc'[g] = pc[g]
    BY <1>1, QuietType DEF RInv
  <1>3. linked' = linked /\ linked'[h] = FALSE /\ offset' = offset
    BY <1>1, Zenon DEF request
  <1>4. /\ UNCHANGED <<file, written>>
        /\ \A g \in Handlers \ {h} : /\ pc'[g] = pc[g] /\ linked'[g] = linked[g]
                                     /\ offset'[g] = offset[g]
    BY <1>2, <1>3, ZenonT(60)
  <1>. QED BY <1>2, <1>3, <1>4, QuietKeeps, ZenonT(60)

LEMMA DecideRInv ==
    ASSUME RInv, NEW h \in Handlers, pc[h] # "write", NEW s \in Nat, Decide(h, s)
    PROVE  RInv'
  <1>1. currentSize' \in [Handlers -> Nat]
    BY DEF Decide, RInv, TypeOK
  <1>2. UNCHANGED <<file, request, written, linked>>
    BY DEF Decide
  <1>3. \/ Goto(h, "open")
        \/ \E status \in {200, 204, 404, 409, 500}, n \in Nat : Answer(h, status, n)
    BY DEF Decide
  <1>. QED BY <1>1, <1>2, <1>3, OffKeeps

LEMMA StartRInv ==
    ASSUME RInv, NEW h \in Handlers, NEW o \in Nat, NEW n \in Nat, StartPatch(h, o, n)
    PROVE  RInv'
  <1>1. linked[h] = FALSE
    BY DEF RInv, TypeOK, Stored, StartPatch
  <1>2. /\ pc' \in [Handlers -> Labels] /\ pc'[h] = "exists"
        /\ offset' \in [Handlers -> Nat] /\ len' \in [Handlers -> Nat]
        /\ \A g \in Handlers \ {h} :
              pc'[g] = pc[g] /\ offset'[g] = offset[g] /\ len'[g] = len[g]
        /\ UNCHANGED <<file, currentSize, written, linked, reply>>
    BY DEF StartPatch, Goto, RInv, TypeOK, Labels
  <1>3. TypeOK'
    BY <1>2 DEF RInv, TypeOK, file
  <1>. QED BY <1>1, <1>2, <1>3, QuietKeeps

LEMMA OpenRInv ==
    ASSUME RInv, NEW h \in Handlers, Open(h)
    PROVE  RInv' /\ size' = size /\ exists'
  <1>1. /\ pc' \in [Handlers -> Labels] /\ pc'[h] = "write"
        /\ \A g \in Handlers \ {h} : pc'[g] = pc[g] /\ written'[g] = written[g]
        /\ written' \in [Handlers -> Nat] /\ written'[h] = 0
        /\ UNCHANGED <<size, holes, deleted, request, currentSize, reply>>
    BY DEF Open, Goto, RInv, TypeOK, Labels
  <1>2. /\ linked' \in [Handlers -> BOOLEAN]
        /\ \A g \in Handlers \ {h} : linked'[g] = linked[g]
    <2>1. linked' = [linked EXCEPT ![h] = TRUE] /\ linked \in [Handlers -> BOOLEAN]
      BY DEF Open, RInv, TypeOK
    <2>. QED BY Zenon, <2>1, FlagSet
  <1>3. exists' = TRUE
    BY DEF Open
  <1>4. TypeOK'
    BY <1>1, <1>2, <1>3 DEF RInv, TypeOK, request
  <1>5. ASSUME NEW g \in Handlers PROVE Stored(g)'
    <2>1. CASE g = h
      <3>1. offset'[h] + 1 .. offset'[h] + written'[h] = {}
        BY <1>1 DEF RInv, TypeOK, request
      <3>. QED BY <1>1, <1>3, <2>1, <3>1 DEF Stored
    <2>2. CASE g # h
      BY <1>1, <1>2, <1>3, <2>2 DEF RInv, Stored, request
    <2>. QED BY <2>1, <2>2
  <1>. QED BY <1>1, <1>3, <1>4, <1>5 DEF RInv

LEMMA WriteRInv ==
    ASSUME RInv, NEW h \in Handlers, NEW k \in Nat \ {0}, Write(h, k)
    PROVE  /\ RInv' /\ exists' = exists
           /\ size' = size \/ (exists /\ size' > size)
  <1>. DEFINE from == offset[h] + written[h]
              upto == from + k
  <1>1. /\ from \in Nat /\ upto \in Nat /\ from < upto
        /\ pc[h] = "write" /\ k <= len[h] - written[h]
        /\ UNCHANGED <<exists, deleted, pc, request, currentSize, linked, reply>>
        /\ offset[h] \in Nat /\ written[h] \in Nat /\ len[h] \in Nat /\ size \in Nat
        /\ holes \in SUBSET (1 .. size)
    BY DEF Write, RInv, TypeOK
  <1>2. /\ written' \in [Handlers -> Nat] /\ written'[h] = written[h] + k
        /\ \A g \in Handlers \ {h} : written'[g] = written[g]
    BY DEF Write, RInv, TypeOK
  <1>3. \/ linked[h] = FALSE /\ UNCHANGED <<size, holes>>
        \/ /\ linked[h] = TRUE /\ size' = Larger(size, upto)
           /\ holes' = (holes \ (from + 1 .. upto)) \cup (size + 1 .. from)
    BY DEF Write, RInv, TypeOK
  <1>4. /\ size' \in Nat /\ size' >= size
        /\ linked[h] => size' >= upto
        /\ size' = size \/ size' > size
    BY <1>1, <1>3, LargerBounds
  <1>5. holes' \in SUBSET (1 .. size')
    <2>1. CASE UNCHANGED <<size, holes>>
      BY <1>1, <2>1
    <2>2. CASE /\ linked[h]
               /\ holes' = (holes \ (from + 1 .. upto)) \cup (size + 1 .. from)
      <3>1. 1 .. size \subseteq 1 .. size' /\ size + 1 .. from \subseteq 1 .. size'
        BY <1>1, <1>4, <2>2
      <3>. QED BY <1>1, <2>2, <3>1
    <2>. QED BY <1>3, <2>1, <2>2
  <1>6. TypeOK'
    BY <1>1, <1>2, <1>4, <1>5 DEF RInv, TypeOK, request
  <1>7. linked[h] => exists
    BY DEF RInv, Stored
  <1>8. size' = size \/ (exists /\ size' > size)
    BY <1>3, <1>4, <1>7
  <1>9. ASSUME NEW g \in Handlers, linked[g]
        PROVE  offset[g] + 1 .. offset[g] + written'[g] \subseteq (1 .. size') \ holes'
    <2>1. /\ offset[g] \in Nat /\ written[g] \in Nat
          /\ offset[g] + 1 .. offset[g] + written[g] \subseteq (1 .. size) \ holes
      BY <1>9 DEF RInv, TypeOK, Stored
    <2>2. ASSUME NEW i \in (1 .. size) \ holes PROVE i \in (1 .. size') \ holes'
      BY <1>1, <1>3, <1>4, <2>2
    <2>3. CASE g # h
      BY <1>2, <2>1, <2>2, <2>3
    <2>4. CASE g = h
      <3>1. ASSUME NEW i \in from + 1 .. upto PROVE i \in (1 .. size') \ holes'
        BY <1>1, <1>3, <1>4, <1>9, <2>4, <3>1
      <3>2. offset[h] + 1 .. offset[h] + written'[h]
              = (offset[h] + 1 .. from) \cup (from + 1 .. upto)
        BY <1>1, <1>2
      <3>. QED BY <2>1, <2>2, <2>4, <3>1, <3>2
    <2>. QED BY <2>3, <2>4
  <1>10. ASSUME NEW g \in Handlers PROVE Stored(g)'
    BY <1>1, <1>9 DEF RInv, Stored, request
  <1>. QED BY <1>1, <1>6, <1>8, <1>10 DEF RInv

LEMMA EndRInv ==
    ASSUME RInv, NEW h \in Handlers, Written(h) \/ WriteFails(h)
    PROVE  RInv'
  <1>1. /\ UNCHANGED <<file, request, currentSize, written>>
        /\ Answer(h, 200, NewSize(h)) \/ Answer(h, 500, 0)
        /\ linked' = [linked EXCEPT ![h] = FALSE]
    BY DEF Written, WriteFails
  <1>2. NewSize(h) \in Nat
    <2>1. currentSize[h] \in Nat /\ offset[h] + len[h] \in Nat
      BY DEF RInv, TypeOK
    <2>. QED BY <2>1, LargerBounds DEF NewSize
  <1>3. /\ linked' \in [Handlers -> BOOLEAN] /\ linked'[h] = FALSE
        /\ \A g \in Handlers \ {h} : linked'[g] = linked[g]
    <2>1. linked \in [Handlers -> BOOLEAN]
      BY DEF RInv, TypeOK
    <2>. QED BY Zenon, <1>1, <2>1, FlagSet
  <1>4. TypeOK' /\ \A g \in Handlers \ {h} : pc'[g] = pc[g]
    <2>1. currentSize' \in [Handlers -> Nat] /\ written' = written
      BY <1>1 DEF RInv, TypeOK
    <2>2. \E status \in {200, 204, 404, 409, 500}, n \in Nat : Answer(h, status, n)
      BY <1>1, <1>2
    <2>. QED BY <1>1, <1>3, <2>1, <2>2, QuietType DEF RInv
  <1>5. /\ UNCHANGED <<file, written>>
        /\ \A g \in Handlers \ {h} : /\ pc'[g] = pc[g] /\ linked'[g] = linked[g]
                                     /\ offset'[g] = offset[g]
    BY <1>1, <1>3, <1>4, Zenon DEF request
  <1>. QED BY <1>3, <1>4, <1>5, QuietKeeps, Zenon

LEMMA RemoveRInv ==
    ASSUME RInv, NEW h \in Handlers, Remove(h)
    PROVE  RInv' /\ exists /\ exists' = FALSE /\ size' = 0
  <1>1. /\ exists /\ exists' = FALSE /\ size' = 0 /\ holes' = {} /\ deleted' = TRUE
        /\ linked' = [g \in Handlers |-> FALSE]
        /\ Answer(h, 204, 0) /\ UNCHANGED <<request, currentSize, written>>
        /\ pc[h] = "remove"
    BY DEF Remove
  <1>2. \A g \in Handlers : linked'[g] = FALSE
    BY <1>1, Zenon
  <1>3. linked' \in [Handlers -> BOOLEAN] /\ exists' \in BOOLEAN /\ deleted' \in BOOLEAN
    BY <1>1, Zenon
  <1>4. /\ pc' \in [Handlers -> Labels] /\ pc'[h] = "idle"
        /\ \A g \in Handlers \ {h} : pc'[g] = pc[g]
        /\ reply' \in [Handlers -> [status : {0, 200, 204, 404, 409, 500}, size : Nat]]
    BY <1>1 DEF Answer, RInv, TypeOK, Labels
  <1>5. ASSUME NEW g \in Handlers, pc'[g] = "write" PROVE written'[g] <= len'[g]
    BY <1>1, <1>4, <1>5 DEF RInv, TypeOK, request
  <1>6. TypeOK'
    <2>1. size' \in Nat /\ holes' \in SUBSET (1 .. size')
      BY <1>1
    <2>2. /\ offset' \in [Handlers -> Nat] /\ len' \in [Handlers -> Nat]
          /\ currentSize' \in [Handlers -> Nat] /\ written' \in [Handlers -> Nat]
      BY <1>1 DEF RInv, TypeOK, request
    <2>. QED BY <1>3, <1>4, <1>5, <2>1, <2>2, Zenon DEF TypeOK
  <1>7. \A g \in Handlers : Stored(g)'
    BY <1>2, Zenon DEF Stored
  <1>. QED BY <1>1, <1>6, <1>7, Zenon DEF RInv

\* What a step of the handlers is for SharedFile: only three of them touch it.
LEMMA NextRInv ==
    ASSUME RInv, [Next]_vars
    PROVE  RInv' /\ [SF!Next]_<<exists, size>>
  <1>1. CASE UNCHANGED vars
    BY <1>1 DEF vars, file, request, RInv, TypeOK, Stored
  <1>2. ASSUME NEW h \in Handlers, Start(h) PROVE RInv' /\ UNCHANGED <<exists, size>>
    <2>1. ASSUME NEW o \in 0 .. FullSize, NEW n \in 0 .. FullSize - o,
                 StartPatch(h, o, n)
          PROVE  RInv' /\ UNCHANGED <<exists, size>>
      <3>1. o \in Nat /\ n \in Nat
        BY UploadAssumption
      <3>. QED BY <2>1, <3>1, StartRInv DEF StartPatch, file
    <2>2. CASE StartDelete(h)
      <3>1. currentSize' \in [Handlers -> Nat]
        BY <2>2 DEF StartDelete, RInv, TypeOK
      <3>. QED BY <2>2, <3>1, OffKeeps DEF StartDelete, file
    <2>. QED BY <1>2, <2>1, <2>2 DEF Start
  <1>3. ASSUME NEW h \in Handlers, Patch(h) \/ Delete(h)
        PROVE  RInv' /\ [SF!Next]_<<exists, size>>
    <2>1. CASE NewFile(h)
      <3>1. RInv'
        BY <2>1, DecideRInv DEF NewFile
      <3>. QED BY <2>1, <3>1 DEF NewFile, Decide, file
    <2>2. CASE FileSize(h)
      <3>1. RInv'
        BY <2>2, DecideRInv DEF FileSize, RInv, TypeOK
      <3>. QED BY <2>2, <3>1 DEF FileSize, Decide, file
    <2>3. CASE \E k \in 1 .. FullSize : Write(h, k)
      <3>1. PICK k \in Nat \ {0} : Write(h, k)
        BY <2>3
      <3>. QED BY <3>1, WriteRInv DEF SF!Next, SF!Lengthen
    <2>4. CASE Open(h)
      <3>1. RInv' /\ size' = size /\ exists' = TRUE
        BY <2>4, OpenRInv DEF Open
      <3>2. ~exists => size' = 0
        BY <3>1 DEF RInv
      <3>3. exists \in BOOLEAN
        BY DEF RInv, TypeOK
      <3>. QED BY <3>1, <3>2, <3>3 DEF SF!Next, SF!Create
    <2>5. CASE Written(h) \/ WriteFails(h)
      <3>1. RInv'
        BY <2>5, EndRInv
      <3>. QED BY <2>5, <3>1 DEF Written, WriteFails, file
    <2>6. CASE Remove(h)
      BY <2>6, RemoveRInv DEF SF!Next, SF!Unlink
    <2>7. CASE \/ Exists(h) \/ NotFound(h) \/ ExistsFails(h) \/ FileSizeFails(h) \/ OpenFails(h)
               \/ DeleteFinds(h) \/ DeleteFails(h)
      <3>1. /\ UNCHANGED <<file, request, written, linked>> /\ pc[h] # "write"
            /\ currentSize' = currentSize
            /\ \/ Goto(h, "size") \/ Goto(h, "remove")
               \/ Answer(h, 404, 0) \/ Answer(h, 500, 0)
        BY <2>7 DEF Exists, NotFound, ExistsFails, FileSizeFails, OpenFails, DeleteFinds, DeleteFails
      <3>2. currentSize' \in [Handlers -> Nat]
        BY <3>1 DEF RInv, TypeOK
      <3>. QED BY <3>1, <3>2, OffKeeps DEF file
    <2>. QED BY <1>3, <2>1, <2>2, <2>3, <2>4, <2>5, <2>6, <2>7 DEF Patch, Delete
  <1>. QED BY <1>1, <1>2, <1>3 DEF Next
-----------------------------------------------------------------------------
\* The handlers implement SharedFile, for any number of them: no interleaving
\* of PATCH and DELETE makes the file shorter but by removing it
\* (HttpRequest.cpp:944, 1019-1044).
THEOREM UploadIsSharedFile == Spec => ImplementsSharedFile
  <1>1. Init => RInv /\ SF!NoFile
    BY InitRInv DEF Init, SF!NoFile
  <1>2. RInv /\ [Next]_vars => RInv' /\ [SF!Next]_<<exists, size>>
    BY NextRInv
  <1>. QED BY <1>1, <1>2, PTL DEF Spec, ImplementsSharedFile, SF!Spec

\* The step that ends a write with 200 is Written.
LEMMA OnlyWritten ==
    ASSUME RInv, Next, NEW h \in Handlers,
           pc[h] = "write", pc'[h] = "idle", reply'[h].status = 200
    PROVE  Written(h)
  <1>1. ASSUME NEW g \in Handlers, pc' = [pc EXCEPT ![g] = pc'[g]] PROVE g = h
    BY <1>1 DEF RInv, TypeOK
  <1>2. ASSUME NEW g \in Handlers, NEW l, Goto(g, l), l # "idle" PROVE FALSE
    BY <1>2 DEF Goto, RInv, TypeOK
  <1>3. ASSUME NEW g \in Handlers, NEW status, NEW n, Answer(g, status, n)
        PROVE  g = h /\ status = 200
    BY <1>3 DEF Answer, RInv, TypeOK
  <1>4. ASSUME NEW g \in Handlers, Start(g) PROVE FALSE
    BY <1>2, <1>4 DEF Start, StartPatch, StartDelete
  <1>5. ASSUME NEW g \in Handlers, Delete(g) PROVE FALSE
    BY <1>2, <1>3, <1>5 DEF Delete, DeleteFinds, Remove, DeleteFails
  <1>6. ASSUME NEW g \in Handlers, NEW s, pc[g] # "write", Decide(g, s) PROVE FALSE
    BY <1>2, <1>3, <1>6 DEF Decide
  <1>7. ASSUME NEW g \in Handlers, Patch(g) PROVE Written(h)
    <2>1. CASE Exists(g) \/ NotFound(g) \/ ExistsFails(g) \/ FileSizeFails(g) \/ Open(g) \/ OpenFails(g)
      BY <1>2, <1>3, <2>1 DEF Exists, NotFound, ExistsFails, FileSizeFails, Open, OpenFails
    <2>2. CASE NewFile(g) \/ FileSize(g)
      BY <1>6, <2>2 DEF NewFile, FileSize
    <2>3. CASE \E k \in 1 .. FullSize : Write(g, k)
      BY <2>3 DEF Write
    <2>4. CASE WriteFails(g)
      BY <1>3, <2>4 DEF WriteFails
    <2>5. CASE Written(g)
      BY <1>3, <2>5 DEF Written
    <2>. QED BY <1>7, <2>1, <2>2, <2>3, <2>4, <2>5 DEF Patch
  <1>. QED BY <1>4, <1>5, <1>7 DEF Next

\* A piece that is answered with 200 is in the file, all of it, unless a DELETE
\* has taken the file away; it does not matter what was deleted before, nor what
\* other handlers write at the same time (HttpRequest.cpp:1019-1044).
THEOREM PiecesAreStored == Spec => PieceStored
  <1>. DEFINE P == \A h \in Handlers :
                     pc[h] = "write" /\ linked[h] /\ pc'[h] = "idle"
                       /\ reply'[h].status = 200 =>
                     offset[h] + 1 .. offset[h] + len[h] \subseteq (1 .. size) \ holes
  <1>1. Init => RInv
    BY InitRInv
  <1>2. RInv /\ [Next]_vars => RInv'
    BY NextRInv
  <1>3. RInv /\ [Next]_vars => [P]_vars
    <2>. SUFFICES ASSUME RInv, Next PROVE P
      OBVIOUS
    <2>. SUFFICES ASSUME NEW h \in Handlers, pc[h] = "write", linked[h],
                         pc'[h] = "idle", reply'[h].status = 200
                  PROVE  offset[h] + 1 .. offset[h] + len[h] \subseteq (1 .. size) \ holes
      OBVIOUS
    <2>1. written[h] = len[h]
      BY OnlyWritten DEF Written
    <2>. QED BY <2>1 DEF RInv, Stored
  <1>. QED BY <1>1, <1>2, <1>3, PTL DEF Spec, PieceStored
=============================================================================
