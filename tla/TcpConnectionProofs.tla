------------------------ MODULE TcpConnectionProofs ------------------------
(***************************************************************************)
(* What holds of every connection, whatever the client asks for and does,  *)
(* the limits and the size of the socket's buffers: the answers leave in   *)
(* the order of the requests and complete, the write event is watched when *)
(* it is needed, and "Connection: close" is final.                         *)
(***************************************************************************)
EXTENDS TcpConnection, SequenceTheorems, FiniteSetTheorems,
        WellFoundedInduction, NaturalsInduction, TLAPS

\* A set of numbers that has 0 and with each number the next one has all.
LEMMA NatSet ==
  ASSUME NEW S \in SUBSET Nat, 0 \in S, \A n \in S : n + 1 \in S
  PROVE  S = Nat
<1> DEFINE T == Nat \ S
<1> SUFFICES ASSUME T # {} PROVE FALSE
  OBVIOUS
<1>1. PICK x \in T : \A y \in T : ~(<<y, x>> \in OpToRel(<, Nat))
  <2>1. T \in SUBSET Nat
    OBVIOUS
  <2> HIDE DEF T
  <2> QED
    BY <2>1, NatLessThanWellFounded, WFMin
<1>2. x \in Nat /\ x # 0
  OBVIOUS
<1>3. <<x - 1, x>> \in OpToRel(<, Nat)
  BY <1>2 DEF OpToRel
<1>4. x - 1 \notin T
  BY <1>1, <1>3, Zenon
<1>5. x - 1 \in S
  BY <1>2, <1>4
<1>6. (x - 1) + 1 \in S
  BY <1>5
<1> QED
  BY <1>2, <1>6
-----------------------------------------------------------------------------
\* FlattenSeq: f holds what the first 1, ..., n of the sequences make together.
Flattens(f, s, n) ==
    f = [i \in 1 .. n |-> IF i = 1 THEN s[i] ELSE f[i - 1] \o s[i]]

LEMMA FlattenExists ==
  ASSUME NEW s, NEW n \in Nat
  PROVE  \E f : Flattens(f, s, n)
<1> DEFINE S == {m \in Nat : \E f : Flattens(f, s, m)}
<1>1. 0 \in S
  <2> DEFINE f == [i \in 1 .. 0 |-> s[i]]
  <2>1. f = [i \in 1 .. 0 |-> IF i = 1 THEN s[i] ELSE f[i - 1] \o s[i]]
    OBVIOUS
  <2> QED
    BY <2>1, Zenon DEF Flattens
<1>2. ASSUME NEW m \in S PROVE m + 1 \in S
  <2>1. PICK f : f = [i \in 1 .. m |-> IF i = 1 THEN s[i] ELSE f[i - 1] \o s[i]]
    BY DEF Flattens
  <2> DEFINE last == IF m = 0 THEN s[1] ELSE f[m] \o s[m + 1]
             g == [i \in 1 .. m + 1 |-> IF i = m + 1 THEN last ELSE f[i]]
  <2>2. ASSUME NEW i \in 1 .. m + 1
        PROVE  g[i] = IF i = 1 THEN s[i] ELSE g[i - 1] \o s[i]
    <3>1. CASE i = m + 1
      <4>1. m # 0 => m \in 1 .. m + 1 /\ m # m + 1
        OBVIOUS
      <4>2. m # 0 => g[m] = f[m]
        BY <4>1
      <4> QED
        BY <3>1, <4>2
    <3>2. CASE i # m + 1
      <4>1. i \in 1 .. m
        BY <3>2
      <4>2. f[i] = IF i = 1 THEN s[i] ELSE f[i - 1] \o s[i]
        BY <2>1, <4>1
      <4>3. g[i] = f[i]
        BY <3>2
      <4>4. i # 1 => i - 1 \in 1 .. m + 1 /\ i - 1 # m + 1
        BY <4>1
      <4>5. i # 1 => g[i - 1] = f[i - 1]
        BY <4>4
      <4> HIDE DEF g
      <4> QED
        BY <4>2, <4>3, <4>5
    <3> QED
      BY <3>1, <3>2
  <2>3. g = [i \in 1 .. m + 1 |-> g[i]]
    OBVIOUS
  <2> HIDE DEF g
  <2>4. Flattens(g, s, m + 1)
    BY <2>2, <2>3 DEF Flattens
  <2> QED
    BY <2>4
<1> HIDE DEF S
<1>3. S = Nat
  <2>1. S \in SUBSET Nat
    BY DEF S
  <2> QED
    BY <1>1, <1>2, <2>1, NatSet
<1> QED
  BY <1>3 DEF S

LEMMA FlattenUnique ==
  ASSUME NEW s, NEW m \in Nat, NEW n \in Nat, m <= n,
         NEW f, Flattens(f, s, m), NEW g, Flattens(g, s, n)
  PROVE  \A i \in 1 .. m : f[i] = g[i]
<1> DEFINE S == {i \in Nat : i \in 1 .. m => f[i] = g[i]}
<1>f. \A i \in 1 .. m : f[i] = IF i = 1 THEN s[i] ELSE f[i - 1] \o s[i]
  <2>1. f = [i \in 1 .. m |-> IF i = 1 THEN s[i] ELSE f[i - 1] \o s[i]]
    BY Zenon DEF Flattens
  <2> QED
    BY <2>1
<1>g. \A i \in 1 .. m : g[i] = IF i = 1 THEN s[i] ELSE g[i - 1] \o s[i]
  <2>1. g = [i \in 1 .. n |-> IF i = 1 THEN s[i] ELSE g[i - 1] \o s[i]]
    BY Zenon DEF Flattens
  <2>2. 1 .. m \subseteq 1 .. n
    OBVIOUS
  <2> QED
    BY <2>1, <2>2
<1>1. 0 \in S
  OBVIOUS
<1>2. ASSUME NEW i \in S PROVE i + 1 \in S
  <2> SUFFICES ASSUME i + 1 \in 1 .. m PROVE f[i + 1] = g[i + 1]
    OBVIOUS
  <2>1. i # 0 => f[i] = g[i]
    OBVIOUS
  <2>2. (i + 1) - 1 = i
    OBVIOUS
  <2> QED
    BY <2>1, <2>2, <1>f, <1>g
<1> HIDE DEF S
<1>3. S = Nat
  <2>1. S \in SUBSET Nat
    BY DEF S
  <2> QED
    BY <1>1, <1>2, <2>1, NatSet
<1> QED
  BY <1>3 DEF S

LEMMA FlattenIs ==
  ASSUME NEW s, Len(s) \in Nat \ {0}, NEW f, Flattens(f, s, Len(s))
  PROVE  FlattenSeq(s) = f[Len(s)]
<1> DEFINE G(g) == g = [i \in 1 .. Len(s) |->
                          IF i = 1 THEN s[i] ELSE g[i - 1] \o s[i]]
           c == CHOOSE g : G(g)
<1>1. FlattenSeq(s) = c[Len(s)]
  BY DEF FlattenSeq
<1>2. G(f)
  BY DEF Flattens
<1>3. G(c)
  <2> HIDE DEF G
  <2> QED
    BY <1>2
<1>4. Flattens(c, s, Len(s))
  BY <1>3, Zenon DEF Flattens
<1> HIDE DEF c
<1>5. \A i \in 1 .. Len(s) : f[i] = c[i]
  BY <1>4, FlattenUnique
<1> QED
  BY <1>1, <1>5

\* One sequence more.
LEMMA FlattenNext ==
  ASSUME NEW n \in Nat, NEW T, NEW a \in [1 .. n + 1 -> Seq(T)]
  PROVE  FlattenSeq(a) = FlattenSeq([i \in 1 .. n |-> a[i]]) \o a[n + 1]
<1> DEFINE b == [i \in 1 .. n |-> a[i]]
<1>l. Len(a) = n + 1 /\ Len(b) = n
  OBVIOUS
<1>0. n + 1 \in Nat
  OBVIOUS
<1>1. PICK f : Flattens(f, a, n + 1)
  BY <1>0, FlattenExists, Zenon
<1>2. FlattenSeq(a) = f[n + 1]
  BY <1>1, <1>l, FlattenIs
<1>3. f[n + 1] = IF n = 0 THEN a[1] ELSE f[n] \o a[n + 1]
  <2>1. f = [i \in 1 .. n + 1 |-> IF i = 1 THEN a[i] ELSE f[i - 1] \o a[i]]
    BY <1>1, Zenon DEF Flattens
  <2>2. n + 1 \in 1 .. n + 1 /\ (n + 1) - 1 = n
    OBVIOUS
  <2>3. f[n + 1] = IF n + 1 = 1 THEN a[n + 1] ELSE f[(n + 1) - 1] \o a[n + 1]
    BY <2>1, <2>2
  <2> QED
    BY <2>2, <2>3
<1>4. CASE n = 0
  <2>1. b = <<>>
    BY <1>4
  <2>2. FlattenSeq(b) = b
    BY <1>4, <1>l DEF FlattenSeq
  <2>3. <<>> \o a[1] = a[1]
    BY <1>4, ConcatEmptySeq
  <2> QED
    BY <1>2, <1>3, <1>4, <2>1, <2>2, <2>3
<1>5. CASE n # 0
  <2>1. PICK g : Flattens(g, b, n)
    BY FlattenExists
  <2>2. FlattenSeq(b) = g[n]
    BY <1>5, <1>l, <2>1, FlattenIs
  <2>3. Flattens(g, a, n)
    <3>1. g = [i \in 1 .. n |-> IF i = 1 THEN b[i] ELSE g[i - 1] \o b[i]]
      BY <2>1, Zenon DEF Flattens
    <3>2. g = [i \in 1 .. n |-> IF i = 1 THEN a[i] ELSE g[i - 1] \o a[i]]
      BY <3>1
    <3> QED
      BY <3>2, Zenon DEF Flattens
  <2>4. g[n] = f[n]
    <3>1. n <= n + 1 /\ n \in 1 .. n
      BY <1>5
    <3>2. PICK k \in Nat : k = n + 1
      BY <1>0
    <3>3. Flattens(f, a, k) /\ n <= k
      BY <1>1, <3>1, <3>2
    <3>4. \A i \in 1 .. n : g[i] = f[i]
      BY <2>3, <3>3, FlattenUnique
    <3> QED
      BY <3>1, <3>4
  <2> QED
    BY <1>2, <1>3, <1>5, <2>2, <2>4
<1> QED
  BY <1>4, <1>5
-----------------------------------------------------------------------------
\* The items of the answers.
Items == [req : Nat, part : {"head", "file"}]

LEMMA ChunksSeq ==
  ASSUME NEW i \in Nat, NEW n \in Nat
  PROVE  /\ Chunks(i, n) \in Seq(Items)
         /\ Len(Chunks(i, n)) = n
         /\ \A j \in 1 .. n : Chunks(i, n)[j] = Chunk(i)
<1>1. Chunk(i) \in Items
  BY DEF Chunk, Items
<1> HIDE DEF Items
<1> QED
  BY <1>1 DEF Chunks

LEMMA NoChunks ==
  ASSUME NEW i
  PROVE  Chunks(i, 0) = <<>>
  BY DEF Chunks

LEMMA ChunksJoin ==
  ASSUME NEW i \in Nat, NEW m \in Nat, NEW n \in Nat
  PROVE  Chunks(i, m) \o Chunks(i, n) = Chunks(i, m + n)
<1>1. m + n \in Nat
  OBVIOUS
<1>2. /\ Chunks(i, m) \o Chunks(i, n) \in Seq(Items)
      /\ Chunks(i, m + n) \in Seq(Items)
      /\ Len(Chunks(i, m) \o Chunks(i, n)) = m + n
      /\ Len(Chunks(i, m + n)) = m + n
  BY <1>1, ChunksSeq, ConcatProperties, SMTT(30)
<1>3. ASSUME NEW j \in 1 .. m + n
      PROVE  (Chunks(i, m) \o Chunks(i, n))[j] = Chunks(i, m + n)[j]
  <2>1. Chunks(i, m + n)[j] = Chunk(i)
    BY <1>1, ChunksSeq
  <2>2. (Chunks(i, m) \o Chunks(i, n))[j] =
           IF j <= m THEN Chunks(i, m)[j] ELSE Chunks(i, n)[j - m]
    BY ChunksSeq, ConcatProperties, SMTT(30)
  <2> QED
    BY <2>1, <2>2, ChunksSeq
<1> QED
  BY <1>2, <1>3, SeqEqual

LEMMA HeadItem ==
  ASSUME NEW i \in Nat
  PROVE  HeadOf(i) \in Items /\ <<HeadOf(i)>> \in Seq(Items)
  BY DEF HeadOf, Items

LEMMA AnswerSeq ==
  ASSUME script \in Seq(Requests), NEW i \in 1 .. Len(script)
  PROVE  /\ Answer(i) \in Seq(Items)
         /\ HasFile(i) => script[i].size \in Nat
<1>1. script[i] \in Requests
  BY ElementOfSeq
<1>2. HasFile(i) => script[i].size \in Nat
  BY <1>1 DEF HasFile, Requests
<1>3. i \in Nat /\ 0 \in Nat
  OBVIOUS
<1>4. Chunks(i, IF HasFile(i) THEN script[i].size ELSE 0) \in Seq(Items)
  BY <1>2, <1>3, ChunksSeq
<1> QED
  BY <1>2, <1>3, <1>4, HeadItem, ConcatProperties DEF Answer

LEMMA NoAnswers == Answers(0) = <<>>
<1>1. [i \in 1 .. 0 |-> Answer(i)] = <<>>
  OBVIOUS
<1>2. FlattenSeq(<<>>) = <<>>
  BY DEF FlattenSeq
<1> QED
  BY <1>1, <1>2 DEF Answers

\* The answers to one request more.
LEMMA AnswersNext ==
  ASSUME script \in Seq(Requests), NEW n \in Nat, n + 1 <= Len(script)
  PROVE  Answers(n + 1) = Answers(n) \o Answer(n + 1)
<1> DEFINE a == [i \in 1 .. n + 1 |-> Answer(i)]
<1>1. a \in [1 .. n + 1 -> Seq(Items)]
  BY AnswerSeq, LenProperties
<1>2. [i \in 1 .. n |-> a[i]] = [i \in 1 .. n |-> Answer(i)]
  OBVIOUS
<1>3. a[n + 1] = Answer(n + 1)
  OBVIOUS
<1>4. FlattenSeq(a) = FlattenSeq([i \in 1 .. n |-> a[i]]) \o a[n + 1]
  <2> HIDE DEF a
  <2> QED
    BY <1>1, FlattenNext
<1> QED
  BY <1>2, <1>3, <1>4 DEF Answers

LEMMA AnswersSeq ==
  ASSUME script \in Seq(Requests), NEW n \in 0 .. Len(script)
  PROVE  Answers(n) \in Seq(Items)
<1> DEFINE S == {m \in Nat : m <= Len(script) => Answers(m) \in Seq(Items)}
<1>l. Len(script) \in Nat
  BY LenProperties
<1>1. 0 \in S
  BY NoAnswers, EmptySeq
<1>2. ASSUME NEW m \in S PROVE m + 1 \in S
  <2> SUFFICES ASSUME m + 1 <= Len(script)
               PROVE  Answers(m + 1) \in Seq(Items)
    OBVIOUS
  <2>1. Answers(m) \in Seq(Items) /\ m + 1 \in 1 .. Len(script)
    BY <1>l
  <2>2. Answer(m + 1) \in Seq(Items)
    BY <2>1, AnswerSeq
  <2> QED
    BY <2>1, <2>2, AnswersNext, ConcatProperties
<1>3. S = Nat
  <2>1. S \in SUBSET Nat
    OBVIOUS
  <2> HIDE DEF S
  <2> QED
    BY <1>1, <1>2, <2>1, NatSet
<1> QED
  BY <1>3, <1>l

LEMMA AnswersStay ==
  ASSUME script' = script
  PROVE  \A n : Answers(n)' = Answers(n)
  BY DEF Answers, Answer, HasFile

\* A sequence is a prefix of each of its continuations.
LEMMA PrefixOfConcat ==
  ASSUME NEW T, NEW s \in Seq(T), NEW t \in Seq(T)
  PROVE  /\ IsPrefix(s, s \o t)
         /\ t # <<>> => IsStrictPrefix(s, s \o t)
<1>1. /\ s \o t \in Seq(T) /\ Len(s \o t) = Len(s) + Len(t)
      /\ Len(s) \in Nat /\ Len(t) \in Nat
  BY ConcatProperties, LenProperties
<1>2. SubSeq(s, 1, Len(s)) = SubSeq(s \o t, 1, Len(s))
  <2>1. CASE Len(s) = 0
    BY <2>1, SubSeqEmpty
  <2>2. CASE Len(s) # 0
    <3>1. 1 \in 1 .. Len(s) /\ Len(s) \in 1 .. Len(s)
      BY <1>1, <2>2
    <3> QED
      BY <3>1, SubSeqOfConcat1, SubSeqFull
  <2> QED
    BY <2>1, <2>2
<1>3. t # <<>> => s # s \o t
  BY ConcatEqualIffEmpty
<1> QED
  BY <1>1, <1>2, <1>3 DEF IsPrefix, IsStrictPrefix
-----------------------------------------------------------------------------
TypeOK ==
    /\ script \in Scripts
    /\ sent \in 0 .. 2 * Len(script) /\ peer \in {"open", "shut", "reset"}
    /\ sock \in Nat /\ room \in 0 .. SendCap /\ out \in Seq(Items)
    /\ pc \in {"poll", "read", "parse", "write", "sendfile", "written",
               "sweep", "dead"}
    /\ thenWrite \in BOOLEAN
    /\ attempts \in 0 .. MaxPipelined
    /\ inBuf \in Nat /\ served \in 0 .. Len(script)
    /\ writeBuf \in Seq(Items)
    /\ file \in Nat /\ remaining \in Nat
    /\ fault \in {"none", "short", "failed"}
    /\ closing \in BOOLEAN /\ interest \in BOOLEAN
    /\ age \in 0 .. IdleTimeout
    /\ why \in {"alive", "idle", "peer", "done"}

\* The file that is open is that of the last request; a connection whose file
\* failed is to be closed; a file is sent when the heads before it are out.
FileInv ==
    /\ file = 0 => remaining = 0
    /\ file # 0 => /\ file = served /\ HasFile(served)
                   /\ remaining <= script[served].size
    /\ fault = "failed" => closing /\ file = 0
    /\ pc = "sendfile" => writeBuf = <<>> /\ file # 0
    /\ pc = "dead" => file = 0
    /\ why = "done" => pc = "dead"

LEMMA Least1 ==
  ASSUME NEW a \in Nat, NEW b \in Nat
  PROVE  Least(a, b) \in Nat /\ Least(a, b) <= a /\ Least(a, b) <= b
  BY DEF Least

LEMMA ScriptSeq ==
  ASSUME TypeOK
  PROVE  script \in Seq(Requests) /\ Len(script) \in Nat
  BY ConnectionAssumption, LenProperties DEF TypeOK

LEMMA SizeInt ==
  ASSUME TypeOK, NEW i \in 1 .. Len(script)
  PROVE  script[i].size \in Int
<1>1. script[i] \in Requests
  BY ScriptSeq, ElementOfSeq
<1>2. \A r \in Requests : r.size \in Int
  BY DEF Requests, NoFile
<1> QED
  BY <1>1, <1>2

\* A complete request is one that the client has sent.
LEMMA ParsesSent ==
  ASSUME TypeOK, Complete
  PROVE  served + 1 \in 1 .. Len(script) /\ inBuf - (2 - InParser) \in Nat
  BY ScriptSeq DEF TypeOK, Complete, InParser

\* What one callback or event may do to the types.
LEMMA TypeInductive == /\ Init => TypeOK
                       /\ TypeOK /\ [Next]_vars => TypeOK'
<1>1. ASSUME Init PROVE TypeOK
  <2>1. script \in Seq(Requests) /\ Len(script) \in Nat
    BY <1>1, ConnectionAssumption, LenProperties DEF Init
  <2>2. out \in Seq(Items) /\ writeBuf \in Seq(Items)
    BY <1>1, EmptySeq DEF Init
  <2>3. thenWrite \in BOOLEAN /\ closing \in BOOLEAN /\ interest \in BOOLEAN
    BY <1>1, Zenon DEF Init
  <2> QED
    BY <1>1, <2>1, <2>2, <2>3, ConnectionAssumption DEF Init, TypeOK
<1>2. ASSUME TypeOK, [Next]_vars PROVE TypeOK'
  <2> USE DEF TypeOK
  <2>l. script \in Seq(Requests) /\ Len(script) \in Nat
    BY <1>2, ScriptSeq
  <2>1. CASE Client
    <3>1. CASE ClientSends
      BY <1>2, <3>1, <2>l DEF ClientSends, reading, writing
    <3>2. CASE ClientReads
      BY <1>2, <3>2, ConnectionAssumption DEF ClientReads, client, reading, writing
    <3>3. CASE ClientLeaves
      BY <1>2, <3>3 DEF ClientLeaves, reading, writing
    <3>4. CASE FileShrinks
      BY <1>2, <3>4 DEF FileShrinks, client, reading
    <3> QED
      BY <2>1, <3>1, <3>2, <3>3, <3>4 DEF Client
  <2>d. ASSUME NEW reason \in {"idle", "peer", "done"}, Destroy(reason)
        PROVE  TypeOK'
    <3>1. thenWrite' \in BOOLEAN
      BY <2>d, Zenon DEF Destroy
    <3> QED
      BY <1>2, <2>d, <3>1 DEF Destroy, client, reading
  <2>2. CASE Dispatch
    <3>1. CASE EpollErr
      BY <3>1, <2>d DEF EpollErr
    <3>2. CASE EpollIn
      <4>1. thenWrite' \in BOOLEAN
        BY <3>2, Zenon DEF EpollIn
      <4> QED
        BY <1>2, <3>2, <4>1 DEF EpollIn, client, reading, writing
    <3>3. CASE EpollOut \/ EpollNothing
      BY <1>2, <3>3 DEF EpollOut, EpollNothing, client, reading, writing
    <3> QED
      BY <2>2, <3>1, <3>2, <3>3 DEF Dispatch
  <2>3. CASE Timeouts \/ Tick
    <3>1. CASE CheckTimeout
      BY <3>1, <2>d DEF CheckTimeout
    <3>2. CASE Sweep
      BY <1>2, <3>2 DEF Sweep, client, reading, writing
    <3>3. CASE Tick
      <4>1. age' \in 0 .. IdleTimeout
        BY <1>2, <3>3, ConnectionAssumption DEF Tick
      <4> QED
        BY <1>2, <3>3, <4>1 DEF Tick, client, reading, writing
    <3> QED
      BY <2>3, <3>1, <3>2, <3>3 DEF Timeouts
  <2>a. ASSUME AfterRead
        PROVE  pc' \in {"write", "sweep"} /\ thenWrite' \in BOOLEAN
    <3>1. thenWrite' \in BOOLEAN
      BY <2>a, Zenon DEF AfterRead
    <3> QED
      BY <2>a, <3>1 DEF AfterRead
  <2>4. CASE SocketRead
    <3>1. Least(sock, ReadMax) \in Nat /\ Least(sock, ReadMax) <= sock
      BY <1>2, Least1, ConnectionAssumption
    <3>2. sock' \in Nat /\ inBuf' \in Nat
      BY <1>2, <2>4, <3>1, SMTT(30) DEF SocketRead
    <3> QED
      BY <1>2, <2>4, <3>2, ConnectionAssumption DEF SocketRead, client, writing
  <2>5. CASE SocketReadNothing \/ ParseEnds
    <3>1. /\ AfterRead
          /\ UNCHANGED <<client, sock, room, out, reading, writing, closing,
                         interest, age, why>>
      BY <2>5 DEF SocketReadNothing, ParseEnds
    <3>2. pc' \in {"write", "sweep"} /\ thenWrite' \in BOOLEAN
      BY <3>1, <2>a
    <3> QED
      BY <1>2, <3>1, <3>2 DEF client, reading, writing
  <2>6. CASE SocketReadEnd \/ SendFails \/ WriteCloses
    <3>1. Destroy("peer") \/ Destroy("done")
      BY <2>6 DEF SocketReadEnd, SendFails, WriteCloses
    <3> QED
      BY <3>1, <2>d
  <2>7. CASE ParseIncomplete
    <3>1. /\ AfterRead /\ inBuf' \in {0, inBuf}
          /\ UNCHANGED <<client, sock, room, out, attempts, served, writing,
                         closing, interest, age, why>>
      BY <2>7 DEF ParseIncomplete
    <3> QED
      BY <1>2, <3>1, <2>a DEF client, writing
  <2>8. CASE Parse
    <3> DEFINE i == served + 1
    <3>1. i \in 1 .. Len(script) /\ inBuf' \in Nat
      BY <1>2, <2>8, ParsesSent DEF Parse
    <3>2. attempts' \in 0 .. MaxPipelined
      BY <1>2, <2>8, ConnectionAssumption DEF Parse, MayParse
    <3>3. writeBuf' \in Seq(Items)
      BY <1>2, <2>8, <3>1, HeadItem, AppendProperties DEF Parse
    <3>4. HasFile(i) => script[i].size \in Nat
      BY <2>l, <3>1, AnswerSeq
    <3>5. closing' \in BOOLEAN /\ interest' \in BOOLEAN
      BY <2>8, Zenon DEF Parse
    <3>f. \/ /\ file' = IF HasFile(i) THEN i ELSE 0
             /\ remaining' = IF HasFile(i) THEN script[i].size ELSE 0
             /\ fault' = fault
          \/ fault' = "failed" /\ UNCHANGED <<file, remaining>>
      BY <2>8 DEF Parse
    <3>6. /\ file' \in Nat /\ remaining' \in Nat
          /\ fault' \in {"none", "short", "failed"}
      <4> HIDE DEF i
      <4> QED
        BY <1>2, <3>1, <3>4, <3>f, SMTT(30)
    <3>7. /\ served' = i /\ UNCHANGED <<client, sock, room, out, pc, thenWrite,
                                        age, why>>
      BY <2>8 DEF Parse
    <3> HIDE DEF i
    <3> QED
      BY <1>2, <3>1, <3>2, <3>3, <3>5, <3>6, <3>7 DEF client
  <2>9. CASE SendData
    <3> DEFINE k == Least(Len(writeBuf), room)
    <3>1. k \in Nat /\ k <= Len(writeBuf) /\ k <= room /\ Len(writeBuf) \in Nat
      BY <1>2, Least1, LenProperties
    <3>2. room' \in 0 .. SendCap
      BY <1>2, <2>9, <3>1, ConnectionAssumption, SMTT(30) DEF SendData
    <3>3. SubSeq(writeBuf, 1, k) \in Seq(Items) /\ writeBuf' \in Seq(Items)
      <4>1. \A j \in 1 .. Len(writeBuf) : writeBuf[j] \in Items
        BY <1>2, ElementOfSeq
      <4>2. writeBuf' = SubSeq(writeBuf, k + 1, Len(writeBuf))
        BY <2>9 DEF SendData
      <4> HIDE DEF k, Items
      <4>3. SubSeq(writeBuf, 1, k) \in Seq(Items)
        BY <3>1, <4>1, SubSeqProperties
      <4>4. SubSeq(writeBuf, k + 1, Len(writeBuf)) \in Seq(Items)
        BY <3>1, <4>1, SubSeqProperties
      <4> QED
        BY <4>2, <4>3, <4>4
    <3>4. out' \in Seq(Items)
      BY <1>2, <2>9, <3>3, ConcatProperties DEF SendData
    <3>5. age' \in 0 .. IdleTimeout
      BY <1>2, <2>9, ConnectionAssumption DEF SendData
    <3>6. /\ pc' \in {"sendfile", "written"}
          /\ UNCHANGED <<client, sock, thenWrite, reading, file, remaining,
                         fault, closing, interest, why>>
      BY <2>9 DEF SendData
    <3> QED
      BY <1>2, <3>2, <3>3, <3>4, <3>5, <3>6 DEF client, reading
  <2>10. CASE SendFile
    <3> DEFINE k == IF fault = "short" THEN 0 ELSE Least(remaining, room)
    <3>1. k \in Nat /\ k <= remaining /\ k <= room
      <4>1. remaining \in Nat /\ room \in Nat
        BY <1>2
      <4> QED
        BY <4>1, Least1
    <3>2. room' \in 0 .. SendCap /\ remaining' \in Nat
      BY <1>2, <2>10, <3>1, ConnectionAssumption, SMTT(30) DEF SendFile
    <3>3. out' \in Seq(Items)
      <4>1. Chunks(file, k) \in Seq(Items)
        BY <1>2, <3>1, ChunksSeq
      <4> QED
        BY <1>2, <2>10, <4>1, ConcatProperties DEF SendFile
    <3>4. age' \in 0 .. IdleTimeout /\ file' \in Nat
      BY <1>2, <2>10, ConnectionAssumption DEF SendFile
    <3>5. /\ pc' = "written"
          /\ UNCHANGED <<client, sock, thenWrite, reading, writeBuf, fault,
                         closing, interest, why>>
      BY <2>10 DEF SendFile
    <3> QED
      BY <1>2, <3>2, <3>3, <3>4, <3>5 DEF client, reading
  <2>11. CASE SendFileFails
    <3>1. PICK k \in 0 .. Least(remaining - 1, room) :
             /\ out' = out \o Chunks(file, k)
             /\ room' = room - k
             /\ age' = IF k > 0 THEN 0 ELSE age
             /\ file' = 0 /\ remaining' = 0 /\ fault' = "failed"
             /\ closing' = TRUE
             /\ pc' = "written"
             /\ UNCHANGED <<client, sock, thenWrite, reading, writeBuf, interest,
                            why>>
      BY <2>11 DEF SendFileFails
    <3>2. k \in Nat /\ k <= room
      BY <1>2 DEF Least
    <3>3. room' \in 0 .. SendCap
      BY <1>2, <3>1, <3>2, ConnectionAssumption
    <3>4. out' \in Seq(Items)
      <4>1. Chunks(file, k) \in Seq(Items)
        BY <1>2, <3>2, ChunksSeq
      <4> QED
        BY <1>2, <3>1, <4>1, ConcatProperties
    <3>5. closing' \in BOOLEAN
      BY <3>1, Zenon
    <3>6. age' \in 0 .. IdleTimeout
      BY <1>2, <3>1, ConnectionAssumption
    <3> QED
      BY <1>2, <3>1, <3>3, <3>4, <3>5, <3>6 DEF client, reading
  <2>12. CASE WriteEnds
    <3>1. interest' \in BOOLEAN
      BY <2>12, Zenon DEF WriteEnds
    <3> QED
      BY <1>2, <2>12, <3>1 DEF WriteEnds, client, reading, writing
  <2>13. CASE UNCHANGED vars
    BY <1>2, <2>13 DEF vars, client, reading, writing
  <2> QED
    BY <1>2, <2>1, <2>2, <2>3, <2>4, <2>5, <2>6, <2>7, <2>8, <2>9, <2>10,
       <2>11, <2>12, <2>13 DEF Next, Loop, Callback
<1> QED
  BY <1>1, <1>2

\* What FileInv and the properties read of a state: most steps leave it alone.
books == <<script, out, served, writeBuf, file, remaining, closing, why>>

\* The steps that leave the books alone.
LEMMA Quiet ==
  ASSUME \/ ClientSends \/ ClientReads \/ ClientLeaves \/ FileShrinks \/ Tick
         \/ Sweep \/ EpollNothing \/ EpollIn \/ EpollOut
         \/ SocketRead \/ SocketReadNothing \/ ParseIncomplete \/ ParseEnds
         \/ WriteEnds \/ UNCHANGED vars
  PROVE  /\ UNCHANGED books
         /\ fault' = fault \/ (fault = "none" /\ fault' = "short")
         /\ pc' = pc \/ (pc # "dead" /\ pc' \notin {"sendfile", "dead"})
  BY DEF ClientSends, ClientReads, ClientLeaves, FileShrinks, Tick, Sweep,
     EpollNothing, EpollIn, EpollOut, SocketRead, SocketReadNothing,
     ParseIncomplete, ParseEnds, AfterRead, WriteEnds, vars, client, reading,
     writing, books

\* The steps that destroy the connection.
LEMMA Destroys ==
  ASSUME CheckTimeout \/ EpollErr \/ SocketReadEnd \/ SendFails \/ WriteCloses
  PROVE  /\ pc # "dead" /\ pc' = "dead" /\ file' = 0 /\ remaining' = 0
         /\ UNCHANGED <<script, out, served, writeBuf, closing, fault>>
         /\ why' \in {"idle", "peer", "done"}
         /\ why' = "done" => WriteCloses
  BY DEF CheckTimeout, EpollErr, SocketReadEnd, SendFails, WriteCloses, Destroy,
     client, reading

\* Next, as far as the books are concerned.
LEMMA Steps ==
  ASSUME [Next]_vars
  PROVE  \/ \/ ClientSends \/ ClientReads \/ ClientLeaves \/ FileShrinks \/ Tick
            \/ Sweep \/ EpollNothing \/ EpollIn \/ EpollOut
            \/ SocketRead \/ SocketReadNothing \/ ParseIncomplete \/ ParseEnds
            \/ WriteEnds \/ UNCHANGED vars
         \/ CheckTimeout \/ EpollErr \/ SocketReadEnd \/ SendFails \/ WriteCloses
         \/ Parse \/ SendData \/ SendFile \/ SendFileFails
  BY DEF Next, Client, Loop, Callback, Dispatch, Timeouts

LEMMA FileInductive == /\ Init => FileInv
                       /\ TypeOK /\ FileInv /\ [Next]_vars => FileInv'
<1>1. Init => FileInv
  BY DEF Init, FileInv
<1>2. ASSUME TypeOK, FileInv, [Next]_vars PROVE FileInv'
  <2>t. served \in Nat /\ file \in Nat /\ remaining \in Nat /\ room \in Nat
    BY <1>2, ConnectionAssumption DEF TypeOK
  <2> USE DEF FileInv, HasFile
  <2>1. CASE \/ ClientSends \/ ClientReads \/ ClientLeaves \/ FileShrinks \/ Tick
             \/ Sweep \/ EpollNothing \/ EpollIn \/ EpollOut
             \/ SocketRead \/ SocketReadNothing \/ ParseIncomplete \/ ParseEnds
             \/ WriteEnds \/ UNCHANGED vars
    BY <1>2, <2>1, Quiet DEF books
  <2>2. CASE CheckTimeout \/ EpollErr \/ SocketReadEnd \/ SendFails \/ WriteCloses
    BY <1>2, <2>2, Destroys
  <2>3. CASE Parse
    <3> DEFINE i == served + 1
    <3>1. i \in 1 .. Len(script)
      BY <1>2, <2>3, ParsesSent DEF Parse
    <3>2. /\ pc = "parse" /\ file = 0 /\ ~closing
          /\ served' = i /\ UNCHANGED <<script, pc, why>>
          /\ \/ /\ file' = IF HasFile(i) THEN i ELSE 0
                /\ remaining' = IF HasFile(i) THEN script[i].size ELSE 0
                /\ fault' = fault
             \/ /\ closing' = TRUE /\ fault' = "failed"
                /\ UNCHANGED <<file, remaining>>
      BY <2>3 DEF Parse, MayParse, client
    <3>3. script[i].size \in Int
      BY <1>2, <3>1, SizeInt
    <3> HIDE DEF i
    <3> QED
      BY <1>2, <3>1, <3>2, <3>3
  <2>4. CASE SendData
    BY <1>2, <2>4 DEF SendData, client, reading
  <2>5. CASE SendFile
    <3> DEFINE k == IF fault = "short" THEN 0 ELSE Least(remaining, room)
    <3>1. k \in Nat /\ k <= remaining
      BY <2>t DEF Least
    <3>2. /\ remaining' = remaining - k
          /\ file' = IF remaining' = 0 THEN 0 ELSE file
          /\ pc = "sendfile" /\ pc' = "written"
          /\ UNCHANGED <<script, served, writeBuf, fault, closing, why>>
      BY <2>5 DEF SendFile, client, reading
    <3>3. file # 0 => script[served].size \in Int
      <4>1. file # 0 => served \in 1 .. Len(script)
        BY <1>2, <2>t DEF TypeOK
      <4> QED
        BY <1>2, <4>1, SizeInt
    <3> HIDE DEF k
    <3> QED
      BY <1>2, <2>t, <3>1, <3>2, <3>3
  <2>6. CASE SendFileFails
    <3>1. /\ file' = 0 /\ remaining' = 0 /\ fault' = "failed" /\ closing' = TRUE
          /\ pc = "sendfile" /\ pc' = "written"
          /\ UNCHANGED why
      BY <2>6 DEF SendFileFails
    <3> QED
      BY <1>2, <3>1
  <2> QED
    BY <1>2, <2>1, <2>2, <2>3, <2>4, <2>5, <2>6, Steps
<1> QED
  BY <1>1, <1>2

\* As long as the connection is not to be closed every answer so far keeps it,
\* and there is room for one more.
CloseInv ==
    ~closing => /\ served < MaxRequests
                /\ \A i \in 1 .. served : script[i].kind = "keep"

LEMMA CloseInductive ==
  /\ Init => CloseInv /\ CloseIsFinal
  /\ TypeOK /\ CloseInv /\ CloseIsFinal /\ [Next]_vars
       => (CloseInv /\ CloseIsFinal)'
<1>1. Init => CloseInv /\ CloseIsFinal
  BY ConnectionAssumption DEF Init, CloseInv, CloseIsFinal
<1>2. ASSUME TypeOK, CloseInv, CloseIsFinal, [Next]_vars
      PROVE  CloseInv' /\ CloseIsFinal'
  <2>t. served \in Nat
    BY <1>2 DEF TypeOK
  <2> USE DEF CloseInv, CloseIsFinal
  <2>1. CASE Parse
    <3> DEFINE i == served + 1
    <3>1. /\ ~closing /\ served' = i /\ script' = script
          /\ closing' = ~KeepAlive(i) \/ closing' = TRUE
      BY <2>1 DEF Parse, MayParse, client
    <3>2. ~closing' => script[i].kind = "keep" /\ served + 1 < MaxRequests
      BY <3>1, Zenon DEF KeepAlive
    <3>3. /\ served < MaxRequests
          /\ \A j \in 1 .. served : script[j].kind = "keep"
      BY <1>2, <3>1
    <3>4. i - 1 = served /\ i \in Nat
      BY <2>t
    <3>5. CloseIsFinal'
      BY <2>t, <3>1, <3>3, <3>4, ConnectionAssumption
    <3>6. CloseInv'
      BY <2>t, <3>1, <3>2, <3>3, <3>4, ConnectionAssumption
    <3> QED
      BY <3>5, <3>6
  <2>2. CASE SendFileFails
    BY <1>2, <2>2 DEF SendFileFails, client, reading
  <2>3. CASE SendData \/ SendFile
    BY <1>2, <2>3 DEF SendData, SendFile, client, reading
  <2>4. CASE CheckTimeout \/ EpollErr \/ SocketReadEnd \/ SendFails \/ WriteCloses
    BY <1>2, <2>4, Destroys
  <2>5. CASE \/ ClientSends \/ ClientReads \/ ClientLeaves \/ FileShrinks \/ Tick
             \/ Sweep \/ EpollNothing \/ EpollIn \/ EpollOut
             \/ SocketRead \/ SocketReadNothing \/ ParseIncomplete \/ ParseEnds
             \/ WriteEnds \/ UNCHANGED vars
    BY <1>2, <2>5, Quiet DEF books
  <2> QED
    BY <1>2, <2>1, <2>2, <2>3, <2>4, <2>5, Steps
<1> QED
  BY <1>1, <1>2

\* Types, for any client, limits and buffers.
THEOREM TypeCorrect == Spec => []TypeOK
  BY TypeInductive, PTL DEF Spec

\* Nothing is answered after an answer that says "Connection: close", and no
\* connection gets more answers than allowed, however its requests arrive
\* (TcpConnection.cpp:106, 110-124).
THEOREM CloseStaysFinal == Spec => []CloseIsFinal
<1>1. Init => TypeOK /\ CloseInv /\ CloseIsFinal
  BY TypeInductive, CloseInductive
<1>2. TypeOK /\ CloseInv /\ CloseIsFinal /\ [Next]_vars
        => (TypeOK /\ CloseInv /\ CloseIsFinal)'
  BY TypeInductive, CloseInductive
<1> QED
  BY <1>1, <1>2, PTL DEF Spec
-----------------------------------------------------------------------------
\* In processWrite the write event may still be enabled when nothing is left;
\* elsewhere it is enabled exactly if something is.
WriteInv ==
    IF pc \in {"sendfile", "written"} THEN ~Drained => interest
    ELSE pc # "dead" => (interest <=> ~Drained)

LEMMA WriteInductive ==
  /\ Init => WriteInv
  /\ TypeOK /\ FileInv /\ WriteInv /\ [Next]_vars => WriteInv'
<1>1. Init => WriteInv
  BY DEF Init, WriteInv, Drained
<1>2. ASSUME TypeOK, FileInv, WriteInv, [Next]_vars PROVE WriteInv'
  <2> USE DEF WriteInv
  \* A step within the callbacks that read, or outside of all.
  <2>u. ASSUME UNCHANGED <<writeBuf, file, interest>>,
               pc' \notin {"sendfile", "written"},
               pc \notin {"sendfile", "written", "dead"} \/ pc' = pc
        PROVE  WriteInv'
    BY <1>2, <2>u DEF Drained
  <2>1. CASE \/ ClientSends \/ ClientReads \/ ClientLeaves \/ FileShrinks \/ Tick
             \/ UNCHANGED vars
    BY <1>2, <2>1 DEF ClientSends, ClientReads, ClientLeaves, FileShrinks, Tick,
       vars, reading, writing, Drained
  <2>2. CASE Sweep \/ EpollNothing \/ EpollIn \/ EpollOut \/ SocketRead
    BY <2>2, <2>u DEF Sweep, EpollNothing, EpollIn, EpollOut, SocketRead, writing
  <2>3. CASE SocketReadNothing \/ ParseIncomplete \/ ParseEnds
    BY <2>3, <2>u DEF SocketReadNothing, ParseIncomplete, ParseEnds, AfterRead,
       writing
  <2>4. CASE CheckTimeout \/ EpollErr \/ SocketReadEnd \/ SendFails \/ WriteCloses
    BY <2>4, Destroys
  <2>5. CASE Parse
    <3>1. pc' = "parse" /\ interest' = TRUE
          /\ writeBuf' = Append(writeBuf, HeadOf(served + 1))
      BY <2>5 DEF Parse
    <3>2. writeBuf' # <<>>
      <4>1. served + 1 \in Nat /\ writeBuf \in Seq(Items)
        BY <1>2 DEF TypeOK
      <4> QED
        BY <3>1, <4>1, HeadItem, AppendProperties
    <3> QED
      BY <3>1, <3>2 DEF Drained
  <2>6. CASE SendData
    <3>1. /\ pc = "write" /\ pc' \in {"sendfile", "written"}
          /\ UNCHANGED <<file, interest>>
      BY <2>6 DEF SendData
    <3>2. Drained => Drained'
      <4>1. Drained => Len(writeBuf) = 0 /\ Least(Len(writeBuf), room) = 0
        BY <1>2, ConnectionAssumption DEF Drained, TypeOK, Least
      <4>2. Drained => writeBuf' = <<>>
        BY <2>6, <4>1 DEF SendData, Drained
      <4> QED
        BY <3>1, <4>2 DEF Drained
    <3> QED
      BY <1>2, <3>1, <3>2
  <2>7. CASE SendFile \/ SendFileFails
    <3>1. /\ pc = "sendfile" /\ pc' = "written" /\ file' \in {0, file}
          /\ UNCHANGED <<writeBuf, interest>>
      BY <2>7 DEF SendFile, SendFileFails
    <3> QED
      BY <1>2, <3>1 DEF Drained
  <2>8. CASE WriteEnds
    <3>1. /\ pc = "written" /\ interest' = (interest /\ ~Drained)
          /\ pc' \in {"read", "sweep"} /\ UNCHANGED <<writeBuf, file>>
      BY <2>8 DEF WriteEnds, writing
    <3>2. Drained' <=> Drained
      BY <3>1 DEF Drained
    <3> QED
      BY <1>2, <3>1, <3>2
  <2> QED
    BY <1>2, <2>1, <2>2, <2>3, <2>4, <2>5, <2>6, <2>7, <2>8, Steps
<1> QED
  BY <1>1, <1>2

\* A connection at rest watches for room in the socket exactly as long as it
\* has something to send (TcpConnection.cpp:162-163, 203-204).
THEOREM InterestMatches == Spec => []WriteInterest
<1>1. Init => TypeOK /\ FileInv /\ WriteInv
  BY TypeInductive, FileInductive, WriteInductive
<1>2. TypeOK /\ FileInv /\ WriteInv /\ [Next]_vars
        => (TypeOK /\ FileInv /\ WriteInv)'
  BY TypeInductive, FileInductive, WriteInductive
<1>3. WriteInv => WriteInterest
  BY DEF WriteInv, WriteInterest
<1> QED
  BY <1>1, <1>2, <1>3, PTL DEF Spec
-----------------------------------------------------------------------------
\* What has been produced for the client so far.
Produced == out \o writeBuf \o Chunks(file, remaining)

LEMMA ProducedStays ==
  ASSUME UNCHANGED <<out, writeBuf, file, remaining>>
  PROVE  Produced' = Produced
  BY DEF Produced, Chunks, Chunk

\* Nothing is produced for a file that is not open.
LEMMA ProducedNoFile ==
  ASSUME TypeOK, FileInv, file = 0
  PROVE  Produced = out \o writeBuf /\ out \o writeBuf \in Seq(Items)
<1>1. out \o writeBuf \in Seq(Items)
  BY ConcatProperties DEF TypeOK
<1>2. Chunks(file, remaining) = <<>>
  BY NoChunks DEF FileInv
<1> QED
  BY <1>1, <1>2, ConcatEmptySeq DEF Produced

\* processRead produces one answer more, or the beginning of one whose file
\* cannot be opened.
LEMMA ParseProduces ==
  ASSUME TypeOK, FileInv, AnswersInOrder, Parse
  PROVE  AnswersInOrder'
<1> DEFINE i == served + 1
<1>l. script \in Seq(Requests) /\ Len(script) \in Nat
  BY ScriptSeq
<1>1. i \in 1 .. Len(script) /\ i \in Nat /\ i - 1 = served
      /\ served \in Nat /\ served + 1 <= Len(script)
  BY ParsesSent DEF Parse, TypeOK
<1>2. /\ pc = "parse" /\ pc' = pc /\ file = 0 /\ ~closing
      /\ served' = i /\ UNCHANGED <<script, out>>
      /\ writeBuf' = Append(writeBuf, HeadOf(i))
      /\ \/ /\ file' = IF HasFile(i) THEN i ELSE 0
            /\ remaining' = IF HasFile(i) THEN script[i].size ELSE 0
            /\ fault' = fault
         \/ /\ closing' = TRUE /\ fault' = "failed"
            /\ UNCHANGED <<file, remaining>>
  BY DEF Parse, MayParse, client
<1>3. fault # "failed" /\ Produced = Answers(served)
  BY <1>2 DEF FileInv, AnswersInOrder, Produced
<1>4. out \o writeBuf = Answers(served) /\ out \o writeBuf \in Seq(Items)
  BY <1>2, <1>3, ProducedNoFile
<1>h. <<HeadOf(i)>> \in Seq(Items)
  BY <1>1, HeadItem
<1>5. out \o writeBuf' = Answers(served) \o <<HeadOf(i)>>
  <2>1. writeBuf' = writeBuf \o <<HeadOf(i)>>
    BY <1>1, <1>2, HeadItem, AppendIsConcat DEF TypeOK
  <2>2. out \o (writeBuf \o <<HeadOf(i)>>) = (out \o writeBuf) \o <<HeadOf(i)>>
    BY <1>h, ConcatAssociative, SMTT(30) DEF TypeOK
  <2> QED
    BY <1>4, <2>1, <2>2
<1>6. Answers(i) = Answers(served) \o Answer(i)
  BY <1>l, <1>1, AnswersNext
<1>s. Answers(served) \in Seq(Items)
  BY <1>4
<1>a. /\ Answers(served)' = Answers(i)
      /\ Answers(served - 1)' = Answers(served)
  <2> HIDE DEF i
  <2>1. served' - 1 = served
    BY <1>1, <1>2
  <2> QED
    BY <1>2, <2>1 DEF Answers, Answer, HasFile
<1>p. AnswersInOrder' <=>
        IF fault' = "failed"
        THEN /\ closing'
             /\ IsStrictPrefix(Answers(served), Produced')
             /\ IsPrefix(Produced', Answers(i))
        ELSE Produced' = Answers(i)
  BY <1>2, <1>a DEF AnswersInOrder, Produced
<1> DEFINE n == IF HasFile(i) THEN script[i].size ELSE 0
<1>n. n \in Nat
  BY <1>l, <1>1, AnswerSeq
<1>c. Chunks(i, n) \in Seq(Items)
  BY <1>1, <1>n, ChunksSeq
<1>7. (Answers(served) \o <<HeadOf(i)>>) \o Chunks(i, n) = Answers(i)
  <2>1. Answer(i) = <<HeadOf(i)>> \o Chunks(i, n)
    BY DEF Answer
  <2> HIDE DEF n, i
  <2> QED
    BY <1>6, <1>s, <1>h, <1>c, <2>1, ConcatAssociative
<1>8. CASE /\ file' = IF HasFile(i) THEN i ELSE 0
           /\ remaining' = n
           /\ fault' = fault
  <2>1. Chunks(file', remaining') = Chunks(i, n)
    BY <1>8, NoChunks
  <2>2. Produced' = (Answers(served) \o <<HeadOf(i)>>) \o Chunks(i, n)
    BY <1>2, <1>5, <2>1 DEF Produced, Chunks, Chunk
  <2> QED
    BY <1>3, <1>7, <1>8, <1>p, <2>2
<1>9. CASE /\ closing' = TRUE /\ fault' = "failed"
           /\ UNCHANGED <<file, remaining>>
  <2>1. Chunks(file', remaining') = <<>>
    BY <1>2, <1>9, NoChunks DEF FileInv
  <2>2. Produced' = Answers(served) \o <<HeadOf(i)>> \o <<>>
    BY <1>2, <1>5, <2>1 DEF Produced, Chunks, Chunk
  <2>3. Answers(served) \o <<HeadOf(i)>> \in Seq(Items)
    BY <1>s, <1>h, ConcatProperties
  <2>4. Produced' = Answers(served) \o <<HeadOf(i)>>
    BY <2>2, <2>3, ConcatEmptySeq
  <2>5. IsStrictPrefix(Answers(served), Produced')
    BY <1>s, <1>h, <2>4, PrefixOfConcat
  <2>6. IsPrefix(Produced', Answers(i))
    BY <1>7, <1>c, <2>3, <2>4, PrefixOfConcat
  <2> QED
    BY <1>9, <1>p, <2>5, <2>6
<1> QED
  BY <1>2, <1>8, <1>9

\* processWrite hands on what is in m_writeBuf, and nothing else.
LEMMA SendDataKeeps ==
  ASSUME TypeOK, SendData
  PROVE  Produced' = Produced
<1> DEFINE k == Least(Len(writeBuf), room)
           a == SubSeq(writeBuf, 1, k)
           b == SubSeq(writeBuf, k + 1, Len(writeBuf))
<1>1. k \in Nat /\ k <= Len(writeBuf) /\ Len(writeBuf) \in Nat
  BY Least1, LenProperties DEF TypeOK
<1>2. /\ out' = out \o a /\ writeBuf' = b
      /\ UNCHANGED <<file, remaining>>
  BY DEF SendData
<1>3. writeBuf \in Seq(Items) /\ out \in Seq(Items)
      /\ file \in Nat /\ remaining \in Nat
  BY DEF TypeOK
<1>e. \A j \in 1 .. Len(writeBuf) : writeBuf[j] \in Items
  BY <1>3, ElementOfSeq
<1> HIDE DEF k
<1>4. a \in Seq(Items) /\ b \in Seq(Items)
  BY <1>1, <1>e, SubSeqProperties
<1>5. a \o b = writeBuf
  <2>1. 1 \in 1 .. Len(writeBuf) + 1 /\ k \in 1 - 1 .. Len(writeBuf)
        /\ Len(writeBuf) \in k .. Len(writeBuf)
    BY <1>1
  <2>2. a \o b = SubSeq(writeBuf, 1, Len(writeBuf))
    <3> HIDE DEF Items
    <3> QED
      BY <1>3, <2>1, ConcatAdjacentSubSeq, Zenon
  <2> QED
    BY <1>3, <2>2, SubSeqFull
<1> HIDE DEF a, b
<1>6. out' \o writeBuf' = out \o writeBuf
  <2>1. (out \o a) \o b = out \o (a \o b)
    BY <1>3, <1>4, ConcatAssociative
  <2> QED
    BY <1>2, <1>5, <2>1
<1> QED
  BY <1>2, <1>6 DEF Produced, Chunks, Chunk

\* sendPendingFile hands on what is left of the file.
LEMMA SendFileKeeps ==
  ASSUME TypeOK, FileInv, SendFile
  PROVE  Produced' = Produced
<1> DEFINE k == IF fault = "short" THEN 0 ELSE Least(remaining, room)
<1>1. k \in Nat /\ k <= remaining /\ remaining \in Nat
  <2>1. remaining \in Nat /\ room \in Nat
    BY ConnectionAssumption DEF TypeOK
  <2> QED
    BY <2>1, Least1
<1>2. /\ pc = "sendfile" /\ out' = out \o Chunks(file, k)
      /\ remaining' = remaining - k
      /\ file' = IF remaining' = 0 THEN 0 ELSE file
      /\ writeBuf' = writeBuf
  BY DEF SendFile
<1>3. /\ writeBuf = <<>> /\ out \in Seq(Items) /\ file \in Nat
  BY <1>2 DEF TypeOK, FileInv
<1> HIDE DEF k
<1>4. remaining - k \in Nat /\ k + (remaining - k) = remaining
  BY <1>1
<1>5. /\ Chunks(file, k) \in Seq(Items)
      /\ Chunks(file, remaining - k) \in Seq(Items)
  BY <1>1, <1>3, <1>4, ChunksSeq
<1>6. Chunks(file, k) \o Chunks(file, remaining - k) = Chunks(file, remaining)
  <2>1. PICK m \in Nat : m = remaining - k
    BY <1>4
  <2>2. Chunks(file, k) \o Chunks(file, m) = Chunks(file, k + m)
    BY <1>1, <1>3, ChunksJoin
  <2> QED
    BY <1>4, <2>1, <2>2
<1>7. Chunks(file', remaining') = Chunks(file, remaining - k)
  BY <1>2, NoChunks
<1>8. out' \in Seq(Items)
  BY <1>2, <1>3, <1>5, ConcatProperties
<1>9. Produced' = out' \o Chunks(file, remaining - k)
  <2>1. out' \o writeBuf' = out'
    BY <1>2, <1>3, <1>8, ConcatEmptySeq
  <2> QED
    BY <1>7, <2>1 DEF Produced, Chunks, Chunk
<1>10. Produced = out \o Chunks(file, remaining)
  <2>1. out \o writeBuf = out
    BY <1>3, ConcatEmptySeq
  <2> QED
    BY <2>1 DEF Produced
<1>11. (out \o Chunks(file, k)) \o Chunks(file, remaining - k)
          = out \o (Chunks(file, k) \o Chunks(file, remaining - k))
  BY <1>3, <1>5, ConcatAssociative
<1> QED
  BY <1>2, <1>6, <1>9, <1>10, <1>11

\* What is sent when the file fails is more than the answers before it and a
\* beginning of its own.
LEMMA SendFileFailsCuts ==
  ASSUME TypeOK, FileInv, AnswersInOrder, SendFileFails
  PROVE  AnswersInOrder'
<1>l. script \in Seq(Requests) /\ Len(script) \in Nat
  BY ScriptSeq
<1>1. PICK k \in 0 .. Least(remaining - 1, room) :
         /\ pc = "sendfile" /\ out' = out \o Chunks(file, k)
         /\ file' = 0 /\ remaining' = 0 /\ fault' = "failed"
         /\ closing' = TRUE /\ pc' = "written"
         /\ UNCHANGED <<script, writeBuf, served>>
  BY DEF SendFileFails, client, reading
<1>t. /\ out \in Seq(Items) /\ file \in Nat /\ remaining \in Nat /\ room \in Nat
      /\ served \in 0 .. Len(script)
  BY ConnectionAssumption DEF TypeOK
<1>2. k \in Nat /\ remaining - k \in Nat /\ k + (remaining - k) = remaining
  BY <1>t DEF Least
<1>3. /\ writeBuf = <<>> /\ file = served /\ served # 0 /\ HasFile(served)
      /\ remaining <= script[served].size /\ fault # "failed"
  BY <1>1 DEF FileInv
<1>4. /\ served \in 1 .. Len(script) /\ served \in Nat /\ served - 1 \in Nat
      /\ (served - 1) + 1 = served /\ served - 1 \in 0 .. Len(script)
  BY <1>l, <1>t, <1>3
<1>n. PICK n \in Nat : n = script[served].size
  BY <1>l, <1>3, <1>4, AnswerSeq
<1>5. n - remaining \in Nat /\ (n - remaining) + remaining = n
  BY <1>t, <1>3, <1>n
<1> DEFINE A == Answers(served - 1)
           H == <<HeadOf(served)>>
           past == Chunks(served, n - remaining)
           rest == Chunks(served, remaining)
           now == Chunks(served, k)
           cut == Chunks(served, remaining - k)
<1>a. A \in Seq(Items)
  BY <1>l, <1>4, AnswersSeq
<1>h. H \in Seq(Items)
  BY <1>4, HeadItem
<1>b. past \in Seq(Items)
  BY <1>4, <1>5, ChunksSeq
<1>r. rest \in Seq(Items)
  BY <1>t, <1>4, ChunksSeq
<1>w. now \in Seq(Items)
  BY <1>2, <1>4, ChunksSeq
<1>c. cut \in Seq(Items)
  BY <1>2, <1>4, ChunksSeq
<1>7. now \o cut = rest
  <2>1. PICK m \in Nat : m = remaining - k
    BY <1>2
  <2>2. Chunks(served, k) \o Chunks(served, m) = Chunks(served, k + m)
    BY <1>2, <1>4, ChunksJoin
  <2> QED
    BY <1>2, <2>1, <2>2
<1>8. Answers(served) = A \o (H \o (past \o rest))
  <2>1. Answers(served) = A \o Answer(served)
    <3>1. PICK m \in Nat : m = served - 1
      BY <1>4
    <3>2. Answers(m + 1) = Answers(m) \o Answer(m + 1)
      BY <1>l, <1>4, <3>1, AnswersNext
    <3> QED
      BY <1>4, <3>1, <3>2
  <2>2. Answer(served) = H \o Chunks(served, n)
    BY <1>3, <1>n DEF Answer
  <2>3. past \o rest = Chunks(served, n)
    <3>1. PICK m \in Nat : m = n - remaining
      BY <1>5
    <3>2. PICK r \in Nat : r = remaining
      BY <1>t
    <3>3. PICK i \in Nat : i = served
      BY <1>4
    <3>4. Chunks(i, m) \o Chunks(i, r) = Chunks(i, m + r)
      BY ChunksJoin
    <3> QED
      BY <1>5, <3>1, <3>2, <3>3, <3>4
  <2> QED
    BY <2>1, <2>2, <2>3
<1>9. Produced = Answers(served) /\ Produced = out \o rest
  <2>1. out \o writeBuf = out
    BY <1>t, <1>3, ConcatEmptySeq
  <2>2. Produced = out \o rest
    BY <1>3, <2>1 DEF Produced
  <2>3. Produced = Answers(served)
    BY <1>1, <1>3 DEF AnswersInOrder, Produced
  <2> QED
    BY <2>2, <2>3
<1>p. out' = out \o now
  BY <1>1, <1>3
<1>q. Produced' = out'
  <2>1. out' \in Seq(Items)
    BY <1>t, <1>w, <1>p, ConcatProperties
  <2>2. out' \o <<>> \o <<>> = out'
    BY <2>1, ConcatEmptySeq
  <2>3. Chunks(file', remaining') = <<>>
    BY <1>1, NoChunks
  <2> QED
    BY <1>1, <1>3, <2>2, <2>3 DEF Produced, Chunks, Chunk
<1> HIDE DEF A, H, past, rest, now, cut
<1>s. PICK begun \in Seq(Items) : begun = H \o past
  BY <1>h, <1>b, ConcatProperties
\* What is out is the answers before, this head and the part of the file sent.
<1>10. out = A \o begun
  <2>1. (A \o begun) \o rest = A \o (begun \o rest)
    BY <1>a, <1>r, ConcatAssociative
  <2>2. (H \o past) \o rest = H \o (past \o rest)
    BY <1>h, <1>b, <1>r, ConcatAssociative, SMTT(30)
  <2>3. out \o rest = (A \o begun) \o rest
    BY <1>8, <1>9, <1>s, <2>1, <2>2
  <2>4. A \o begun \in Seq(Items)
    BY <1>a, ConcatProperties
  <2> QED
    BY <1>t, <1>r, <2>3, <2>4, ConcatSimplifications
<1>11. IsStrictPrefix(A, out')
  <2>1. begun # <<>>
    <3>1. H # <<>>
      BY DEF H
    <3> QED
      BY <1>h, <1>b, <1>s, <3>1, ConcatSimplifications
  <2>2. begun \o now # <<>> /\ begun \o now \in Seq(Items)
    BY <1>w, <2>1, ConcatSimplifications, ConcatProperties
  <2>3. (A \o begun) \o now = A \o (begun \o now)
    BY <1>a, <1>w, ConcatAssociative
  <2>4. out' = A \o (begun \o now)
    BY <1>10, <1>p, <2>3
  <2> QED
    BY <1>a, <2>2, <2>4, PrefixOfConcat
<1>12. IsPrefix(out', Answers(served))
  <2>1. out' \in Seq(Items)
    BY <1>t, <1>w, <1>p, ConcatProperties
  <2>2. (out \o now) \o cut = out \o (now \o cut)
    <3>1. out \in Seq(Items)
      BY <1>t
    <3> QED
      BY <1>w, <1>c, <3>1, ConcatAssociative, SMTT(30)
  <2>3. Answers(served) = out' \o cut
    BY <1>7, <1>9, <1>p, <2>2
  <2> QED
    BY <1>c, <2>1, <2>3, PrefixOfConcat
<1>13. Answers(served)' = Answers(served) /\ Answers(served - 1)' = A
  BY <1>1 DEF Answers, Answer, HasFile, A
<1> QED
  BY <1>1, <1>11, <1>12, <1>13, <1>q DEF AnswersInOrder, Produced

LEMMA AnswersInductive ==
  /\ Init => AnswersInOrder
  /\ TypeOK /\ FileInv /\ AnswersInOrder /\ [Next]_vars => AnswersInOrder'
<1>1. ASSUME Init PROVE AnswersInOrder
  <2>1. out \o writeBuf \o Chunks(file, remaining) = <<>>
    BY <1>1, NoChunks, EmptySeq, ConcatEmptySeq DEF Init
  <2>2. Answers(served) = <<>>
    BY <1>1, NoAnswers DEF Init
  <2> QED
    BY <1>1, <2>1, <2>2 DEF Init, AnswersInOrder
<1>2. ASSUME TypeOK, FileInv, AnswersInOrder, [Next]_vars
      PROVE  AnswersInOrder'
  \* A step that adds no answer and loses nothing of one.
  <2>k. ASSUME UNCHANGED <<script, served, closing>>, Produced' = Produced,
               pc # "dead", fault' = "failed" <=> fault = "failed"
        PROVE  AnswersInOrder'
    <3>1. /\ Answers(served)' = Answers(served)
          /\ Answers(served - 1)' = Answers(served - 1)
      BY <2>k DEF Answers, Answer, HasFile
    <3> QED
      BY <1>2, <2>k, <3>1 DEF AnswersInOrder, Produced
  <2>1. CASE \/ ClientSends \/ ClientReads \/ ClientLeaves \/ FileShrinks \/ Tick
             \/ Sweep \/ EpollNothing \/ EpollIn \/ EpollOut
             \/ SocketRead \/ SocketReadNothing \/ ParseIncomplete \/ ParseEnds
             \/ WriteEnds \/ UNCHANGED vars
    <3>1. /\ UNCHANGED books
          /\ fault' = fault \/ (fault = "none" /\ fault' = "short")
          /\ pc' = pc \/ pc # "dead"
      BY <2>1, Quiet
    <3>2. CASE pc = "dead"
      BY <3>1, <3>2 DEF AnswersInOrder
    <3>3. CASE pc # "dead"
      BY <2>k, <3>1, <3>3, ProducedStays DEF books
    <3> QED
      BY <3>2, <3>3
  <2>2. CASE CheckTimeout \/ EpollErr \/ SocketReadEnd \/ SendFails \/ WriteCloses
    BY <2>2, Destroys DEF AnswersInOrder
  <2>3. CASE SendData
    BY <1>2, <2>3, <2>k, SendDataKeeps DEF SendData, client, reading
  <2>4. CASE SendFile
    BY <1>2, <2>4, <2>k, SendFileKeeps DEF SendFile, client, reading
  <2> QED
    BY <1>2, <2>1, <2>2, <2>3, <2>4, Steps, ParseProduces, SendFileFailsCuts
<1> QED
  BY <1>1, <1>2

\* A connection that is to be closed is when its answers have left.
LEMMA FlushInductive ==
  /\ Init => FlushBeforeClose
  /\ TypeOK /\ FileInv /\ AnswersInOrder /\ FlushBeforeClose /\ [Next]_vars
       => FlushBeforeClose'
<1>1. Init => FlushBeforeClose
  BY DEF Init, FlushBeforeClose
<1>2. ASSUME TypeOK, FileInv, AnswersInOrder, FlushBeforeClose, [Next]_vars
      PROVE  FlushBeforeClose'
  <2>a. UNCHANGED <<script, served>> => Answers(served)' = Answers(served)
    BY DEF Answers, Answer, HasFile
  <2>1. CASE \/ ClientSends \/ ClientReads \/ ClientLeaves \/ FileShrinks \/ Tick
             \/ Sweep \/ EpollNothing \/ EpollIn \/ EpollOut
             \/ SocketRead \/ SocketReadNothing \/ ParseIncomplete \/ ParseEnds
             \/ WriteEnds \/ UNCHANGED vars
    <3>1. /\ UNCHANGED <<script, served, why, writeBuf, out>>
          /\ fault = "failed" => fault' = "failed"
      BY <2>1, Quiet DEF books
    <3> QED
      BY <1>2, <2>a, <3>1 DEF FlushBeforeClose
  <2>2. CASE CheckTimeout \/ EpollErr \/ SocketReadEnd \/ SendFails \/ WriteCloses
    <3>1. /\ pc # "dead" /\ UNCHANGED <<script, served, writeBuf, out, fault>>
          /\ why' = "done" => WriteCloses
      BY <2>2, Destroys
    <3>2. CASE WriteCloses
      <4>1. writeBuf = <<>> /\ file = 0 /\ remaining = 0
        BY <1>2, <3>2 DEF WriteCloses, Drained, FileInv
      <4>2. out \o writeBuf \o Chunks(file, remaining) = out
        BY <1>2, <4>1, NoChunks, ConcatEmptySeq DEF TypeOK
      <4>3. out = Answers(served) \/ fault = "failed"
        BY <1>2, <3>1, <4>2 DEF AnswersInOrder
      <4> QED
        BY <2>a, <3>1, <4>1, <4>3 DEF FlushBeforeClose
    <3>3. CASE ~WriteCloses
      BY <3>1, <3>3 DEF FlushBeforeClose
    <3> QED
      BY <3>2, <3>3
  <2>3. CASE Parse \/ SendData \/ SendFile \/ SendFileFails
    <3>1. pc # "dead" /\ why' = why
      BY <2>3 DEF Parse, SendData, SendFile, SendFileFails
    <3> QED
      BY <1>2, <3>1 DEF FileInv, FlushBeforeClose
  <2> QED
    BY <1>2, <2>1, <2>2, <2>3, Steps
<1> QED
  BY <1>1, <1>2

\* The inductive invariant of the answers.
IInv == TypeOK /\ FileInv /\ AnswersInOrder /\ FlushBeforeClose

LEMMA IInvHolds == Spec => []IInv
<1>1. Init => IInv
  BY TypeInductive, FileInductive, AnswersInductive, FlushInductive DEF IInv
<1>2. IInv /\ [Next]_vars => IInv'
  BY TypeInductive, FileInductive, AnswersInductive, FlushInductive DEF IInv
<1> QED
  BY <1>1, <1>2, PTL DEF Spec

\* What is in the socket, in m_writeBuf and left of the file are exactly the
\* answers owed, in the order of the requests, for every client and however
\* its requests, the socket and the clock interleave (TcpConnection.cpp:105-163,
\* 178-193).
THEOREM AnswersStayInOrder == Spec => []AnswersInOrder
<1>1. IInv => AnswersInOrder
  BY DEF IInv
<1> QED
  BY <1>1, IInvHolds, PTL

\* The server closes on its own account only after the last answer has left
\* completely, unless its file failed (TcpConnection.cpp:195-200).
THEOREM FlushedBeforeClose == Spec => []FlushBeforeClose
<1>1. IInv => FlushBeforeClose
  BY DEF IInv
<1> QED
  BY <1>1, IInvHolds, PTL
=============================================================================
