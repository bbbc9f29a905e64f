------------------------ MODULE BufferedParserProofs ------------------------
(***************************************************************************)
(* The parser takes every request as the whole of it deserves, however its *)
(* bytes are cut into reads, and the buffers between socket and parser     *)
(* lose, repeat and reorder nothing: for any limits, for buffers and reads *)
(* of any size and for any client.                                         *)
(*                                                                         *)
(* In this order: where the lines, the requests and the end of a script    *)
(* are in the stream; what the parser takes (IInv: within its limits,      *)
(* EInv: exactly the requests); what each operation of Buffer does to the  *)
(* contents; the composition (BInv).                                       *)
(***************************************************************************)
EXTENDS BufferedParser, FiniteSetTheorems, SequenceTheorems,
        WellFoundedInduction, NaturalsInduction, TLAPS

\* A set of numbers that has 0, and with every number the next one.
LEMMA NatSet ==
  ASSUME NEW S \in SUBSET Nat, 0 \in S, \A n \in S : n + 1 \in S
  PROVE  S = Nat
<1> DEFINE T == Nat \ S
<1> SUFFICES ASSUME T # {} PROVE FALSE
  OBVIOUS
<1>1. PICK x \in T : \A y \in T : ~(<<y, x>> \in OpToRel(<, Nat))
  <2>1. T \in SUBSET Nat
    OBVIOUS
  <2> HIDE DEF T
  <2> QED
    BY <2>1, NatLessThanWellFounded, WFMin
<1>2. x \in Nat /\ x # 0
  OBVIOUS
<1>3. <<x - 1, x>> \in OpToRel(<, Nat)
  BY <1>2 DEF OpToRel
<1>4. x - 1 \notin T
  BY <1>1, <1>3, Zenon
<1>5. x - 1 \in S
  BY <1>2, <1>4
<1>6. (x - 1) + 1 \in S
  BY <1>5
<1> QED
  BY <1>2, <1>6

\* What is true of 0 and passes on from one number to the next is true up to n.
LEMMA UpTo ==
  ASSUME NEW n \in Nat, NEW T \in SUBSET (0 .. n), 0 \in T,
         \A i \in 1 .. n : i - 1 \in T => i \in T
  PROVE  T = 0 .. n
<1> DEFINE S == {i \in Nat : i <= n => i \in T}
<1>1. 0 \in S
  OBVIOUS
<1>2. ASSUME NEW i \in S PROVE i + 1 \in S
  <2>1. CASE i + 1 <= n
    <3>1. i + 1 \in 1 .. n /\ (i + 1) - 1 = i /\ i \in T
      BY <2>1
    <3> QED
      BY <3>1
  <2>2. CASE ~(i + 1 <= n)
    BY <2>2
  <2> QED
    BY <2>1, <2>2
<1>3. S = Nat
  <2>1. S \in SUBSET Nat
    OBVIOUS
  <2> HIDE DEF S
  <2> QED
    BY <1>1, <1>2, <2>1, NatSet
<1>4. ASSUME NEW i \in 0 .. n PROVE i \in T
  <2>1. i \in Nat /\ i <= n
    OBVIOUS
  <2>2. i \in S
    BY <1>3, <2>1
  <2> QED
    BY <2>1, <2>2
<1> QED
  BY <1>4

-----------------------------------------------------------------------------
\* FlattenSeq recurs on the number of sequences; f is its recursion over ss.
Flattens(f, ss, n) ==
    f = [i \in 1 .. n |-> IF i = 1 THEN ss[i] ELSE f[i - 1] \o ss[i]]

LEMMA FlattensExists ==
  ASSUME NEW ss, NEW n \in Nat
  PROVE  \E f : Flattens(f, ss, n)
<1> DEFINE T == {m \in 0 .. n : \E f : Flattens(f, ss, m)}
<1>1. 0 \in T
  <2> DEFINE f == [i \in 1 .. 0 |-> 0]
  <2>1. f = [i \in 1 .. 0 |-> IF i = 1 THEN ss[i] ELSE f[i - 1] \o ss[i]]
    OBVIOUS
  <2> HIDE DEF f
  <2>2. Flattens(f, ss, 0)
    BY <2>1 DEF Flattens
  <2> QED
    BY <2>2
<1>2. ASSUME NEW m \in 1 .. n, m - 1 \in T PROVE m \in T
  <2>1. PICK f : Flattens(f, ss, m - 1)
    BY <1>2
  <2> DEFINE next(g, i) == IF i = 1 THEN ss[i] ELSE g[i - 1] \o ss[i]
             h == [i \in 1 .. m |-> IF i = m THEN next(f, i) ELSE f[i]]
  <2>2. \A i \in 1 .. m - 1 : f[i] = next(f, i)
    <3>1. f = [i \in 1 .. m - 1 |-> next(f, i)]
      BY <2>1, Zenon DEF Flattens
    <3> HIDE DEF next
    <3> QED
      BY <3>1
  <2>3. \A i \in 1 .. m - 1 : h[i] = f[i]
    <3> HIDE DEF next
    <3> QED
      OBVIOUS
  <2>4. h[m] = next(f, m)
    <3> HIDE DEF next
    <3> QED
      OBVIOUS
  <2>5. \A i \in 1 .. m : h[i] = next(h, i)
    <3> TAKE i \in 1 .. m
    <3>0. h = [j \in 1 .. m |-> h[j]]
      OBVIOUS
    <3> HIDE DEF h
    <3>1. i # 1 => i - 1 \in 1 .. m - 1
      OBVIOUS
    <3>2. next(f, i) = next(h, i)
      BY <2>3, <3>1
    <3>3. i = m \/ i \in 1 .. m - 1
      OBVIOUS
    <3>4. h[i] = next(f, i)
      <4> HIDE DEF next
      <4> QED
        BY <2>2, <2>3, <2>4, <3>3
    <3> QED
      BY <3>2, <3>4
  <2>6. h = [i \in 1 .. m |-> next(h, i)]
    <3>1. h = [j \in 1 .. m |-> h[j]]
      OBVIOUS
    <3> HIDE DEF h, next
    <3> QED
      BY <2>5, <3>1
  <2>7. Flattens(h, ss, m)
    <3> HIDE DEF h
    <3> QED
      BY <2>6 DEF Flattens
  <2> QED
    BY <2>7
<1>3. T = 0 .. n
  <2>1. T \in SUBSET (0 .. n)
    OBVIOUS
  <2> HIDE DEF T
  <2> QED
    BY <1>1, <1>2, <2>1, UpTo
<1> QED
  BY <1>3

\* The first m sequences of ss, one after the other.
Leading(ss, m) == FlattenSeq(SubSeq(ss, 1, m))

LEMMA LeadingIs ==
  ASSUME NEW X, NEW ss \in Seq(Seq(X)), NEW n \in 1 .. Len(ss)
  PROVE  \E f : /\ f[1] = ss[1] /\ Leading(ss, n) = f[n]
                /\ \A i \in 2 .. n : f[i] = f[i - 1] \o ss[i]
<1> DEFINE t == SubSeq(ss, 1, n)
           G(f) == f = [i \in 1 .. Len(t) |-> IF i = 1 THEN t[i] ELSE f[i - 1] \o t[i]]
           c == CHOOSE f : G(f)
<1>1. n \in Nat /\ 1 <= n /\ n <= Len(ss) /\ Len(ss) \in Nat
  BY LenProperties
<1>2. Len(t) = n /\ \A i \in 1 .. n : t[i] = ss[i]
  <2>1. \A i \in 1 .. n : ss[i] \in Seq(X)
    BY <1>1, ElementOfSeq
  <2>2. 1 \in Int /\ n \in Int /\ n - 1 + 1 = n
    BY <1>1
  <2>3. \A i \in 1 .. n : 1 + i - 1 = i
    OBVIOUS
  <2>4. /\ Len(SubSeq(ss, 1, n)) = IF 1 <= n THEN n - 1 + 1 ELSE 0
        /\ \A i \in 1 .. n - 1 + 1 : SubSeq(ss, 1, n)[i] = ss[1 + i - 1]
    BY <2>1, <2>2, SubSeqProperties
  <2> QED
    BY <1>1, <2>2, <2>3, <2>4
<1>3. G(c)
  <2>1. PICK f : Flattens(f, t, n)
    <3> HIDE DEF t
    <3> QED
      BY <1>1, FlattensExists
  <2>2. G(f)
    <3> HIDE DEF t
    <3> QED
      BY <1>2, <2>1, Zenon DEF Flattens
  <2> HIDE DEF G
  <2> QED
    BY <2>2
<1>4. Leading(ss, n) = c[n]
  <2>1. FlattenSeq(t) = c[Len(t)]
    <3>1. Len(t) # 0
      BY <1>1, <1>2
    <3> HIDE DEF t
    <3> QED
      BY <3>1, Zenon DEF FlattenSeq
  <2> HIDE DEF t, c
  <2>2. FlattenSeq(t) = c[n]
    BY <1>2, <2>1
  <2> USE DEF t
  <2> QED
    BY <2>2, Zenon DEF Leading
<1>5. \A i \in 1 .. n : c[i] = IF i = 1 THEN t[i] ELSE c[i - 1] \o t[i]
  <2> HIDE DEF c, t
  <2>1. c = [i \in 1 .. n |-> IF i = 1 THEN t[i] ELSE c[i - 1] \o t[i]]
    BY <1>2, <1>3, Zenon
  <2> DEFINE v(i) == IF i = 1 THEN t[i] ELSE c[i - 1] \o t[i]
  <2>2. c = [i \in 1 .. n |-> v(i)]
    BY <2>1, Zenon
  <2> HIDE DEF v
  <2>3. \A i \in 1 .. n : c[i] = v(i)
    BY <2>2
  <2> USE DEF v
  <2> QED
    BY <2>3, Zenon
<1> HIDE DEF c, t, G
<1>6. c[1] = ss[1]
  <2>1. 1 \in 1 .. n
    BY <1>1
  <2> QED
    BY <1>2, <1>5, <2>1
<1>7. ASSUME NEW i \in 2 .. n PROVE c[i] = c[i - 1] \o ss[i]
  <2>1. i \in 1 .. n /\ i # 1
    BY <1>1
  <2>2. c[i] = c[i - 1] \o t[i] /\ t[i] = ss[i]
    BY <1>2, <1>5, <2>1
  <2> QED
    BY <2>2, Zenon
<1> QED
  BY <1>4, <1>6, <1>7

LEMMA LeadingStep ==
  ASSUME NEW X, NEW ss \in Seq(Seq(X))
  PROVE  /\ Leading(ss, 0) = <<>>
         /\ \A m \in 1 .. Len(ss) : Leading(ss, m) = Leading(ss, m - 1) \o ss[m]
         /\ \A m \in 0 .. Len(ss) : Leading(ss, m) \in Seq(X)
<1>1. Leading(ss, 0) = <<>>
  <2>1. SubSeq(ss, 1, 0) = <<>>
    BY SubSeqEmpty
  <2>2. Len(<<>>) = 0
    OBVIOUS
  <2>3. FlattenSeq(<<>>) = <<>>
    BY <2>2, Zenon DEF FlattenSeq
  <2> QED
    BY <2>1, <2>3, Zenon DEF Leading
<1>2. PICK n \in Nat : n = Len(ss)
  BY LenProperties
<1>3. \A m \in 1 .. n : ss[m] \in Seq(X)
  BY <1>2, ElementOfSeq
<1>4. ASSUME NEW m \in 1 .. n PROVE Leading(ss, m) = Leading(ss, m - 1) \o ss[m]
  <2>1. PICK f : /\ f[1] = ss[1] /\ Leading(ss, m) = f[m]
                 /\ \A i \in 2 .. m : f[i] = f[i - 1] \o ss[i]
    BY <1>2, LeadingIs
  <2>2. CASE m = 1
    <3>1. <<>> \o ss[1] = ss[1]
      BY <1>3, <2>2, ConcatEmptySeq
    <3>2. m - 1 = 0
      BY <2>2
    <3> QED
      BY <1>1, <2>1, <2>2, <3>1, <3>2, Zenon
  <2>3. CASE m # 1
    <3>1. m - 1 \in 1 .. n /\ m \in 2 .. m /\ m - 1 \in Nat /\ 1 <= m - 1
      BY <2>3
    <3>2. PICK h : /\ h[1] = ss[1] /\ Leading(ss, m - 1) = h[m - 1]
                   /\ \A i \in 2 .. m - 1 : h[i] = h[i - 1] \o ss[i]
      BY <1>2, <3>1, LeadingIs
    <3> DEFINE S == {i \in 0 .. m - 1 : i # 0 => f[i] = h[i]}
    <3>3. 0 \in S
      BY <3>1
    <3>4. ASSUME NEW i \in 1 .. m - 1, i - 1 \in S PROVE i \in S
      <4>0. i \in 0 .. m - 1
        BY <3>1
      <4>1. CASE i = 1
        BY <2>1, <3>2, <4>0, <4>1
      <4>2. CASE i # 1
        <5>1. i \in 2 .. m - 1 /\ i \in 2 .. m /\ i - 1 # 0
          BY <3>1, <4>2
        <5>2. f[i - 1] = h[i - 1]
          BY <3>4, <5>1
        <5>3. f[i] = h[i]
          BY <2>1, <3>2, <5>1, <5>2
        <5> QED
          BY <4>0, <5>3
      <4> QED
        BY <4>1, <4>2
    <3>5. S = 0 .. m - 1
      <4>1. S \in SUBSET (0 .. m - 1)
        OBVIOUS
      <4> HIDE DEF S
      <4> QED
        BY <3>1, <3>3, <3>4, <4>1, UpTo
    <3>6. f[m - 1] = h[m - 1]
      <4>1. m - 1 \in S /\ m - 1 # 0
        BY <3>1, <3>5
      <4> QED
        BY <4>1
    <3>7. f[m] = f[m - 1] \o ss[m]
      BY <2>1, <3>1
    <3> QED
      BY <2>1, <3>2, <3>6, <3>7, Zenon
  <2> QED
    BY <2>2, <2>3
<1>5. \A m \in 0 .. n : Leading(ss, m) \in Seq(X)
  <2> DEFINE Is(m) == Leading(ss, m) \in Seq(X)
             S == {m \in 0 .. n : Is(m)}
  <2>1. 0 \in S
    <3>1. Is(0)
      <4>1. <<>> \in Seq(X)
        BY EmptySeq
      <4> QED
        BY <1>1, <4>1, Zenon
    <3> HIDE DEF Is
    <3> QED
      BY <3>1
  <2>2. ASSUME NEW m \in 1 .. n, m - 1 \in S PROVE m \in S
    <3>0. Is(m - 1)
      <4> HIDE DEF Is
      <4> QED
        BY <2>2
    <3>1. PICK p \in Seq(X) : p = Leading(ss, m - 1)
      BY <3>0
    <3>2. PICK q \in Seq(X) : q = ss[m]
      BY <1>3
    <3>3. Leading(ss, m) = p \o q
      BY <1>4, <3>1, <3>2, Zenon
    <3>4. p \o q \in Seq(X)
      BY ConcatProperties
    <3>5. Is(m)
      BY <3>3, <3>4, Zenon
    <3> HIDE DEF Is
    <3> QED
      BY <3>5
  <2>3. S = 0 .. n
    <3>1. S \in SUBSET (0 .. n)
      OBVIOUS
    <3> HIDE DEF S
    <3> QED
      BY <2>1, <2>2, <3>1, UpTo
  <2> QED
    BY <2>3
<1> QED
  BY <1>1, <1>2, <1>4, <1>5

\* Where the sequence behind the first m begins.
Below(ss, m) == Len(Leading(ss, m))

\* Each sequence is found in the flattened one, behind those before it.
LEMMA FlattenIs ==
  ASSUME NEW X, NEW ss \in Seq(Seq(X))
  PROVE  /\ FlattenSeq(ss) \in Seq(X) /\ Below(ss, 0) = 0
         /\ Below(ss, Len(ss)) = Len(FlattenSeq(ss))
         /\ \A m \in 0 .. Len(ss) :
              Below(ss, m) \in Nat /\ Below(ss, m) <= Len(FlattenSeq(ss))
         /\ \A m \in 1 .. Len(ss) :
              /\ Len(ss[m]) \in Nat
              /\ Below(ss, m) = Below(ss, m - 1) + Len(ss[m])
              /\ \A k \in 1 .. Len(ss[m]) :
                   FlattenSeq(ss)[Below(ss, m - 1) + k] = ss[m][k]
<1>1. PICK n \in Nat : n = Len(ss)
  BY LenProperties
<1>2. /\ \A m \in 1 .. n : Leading(ss, m) = Leading(ss, m - 1) \o ss[m]
      /\ \A m \in 0 .. n : Leading(ss, m) \in Seq(X)
      /\ \A m \in 1 .. n : ss[m] \in Seq(X)
  BY <1>1, LeadingStep, ElementOfSeq
<1>3. Below(ss, 0) = 0
  <2>1. Leading(ss, 0) = <<>>
    BY LeadingStep
  <2> QED
    BY <2>1 DEF Below
<1>4. Leading(ss, n) = FlattenSeq(ss)
  <2>1. SubSeq(ss, 1, n) = ss
    BY <1>1, SubSeqFull
  <2> QED
    BY <2>1, Zenon DEF Leading
<1>5. \A m \in 0 .. n : Below(ss, m) \in Nat
  BY <1>2, LenProperties DEF Below
<1>6. ASSUME NEW m \in 1 .. n
      PROVE  /\ Len(ss[m]) \in Nat
             /\ Below(ss, m) = Below(ss, m - 1) + Len(ss[m])
             /\ \A k \in 1 .. Len(ss[m]) : Leading(ss, m)[Below(ss, m - 1) + k] = ss[m][k]
             /\ \A k \in 1 .. Below(ss, m - 1) : Leading(ss, m)[k] = Leading(ss, m - 1)[k]
  <2>1. m - 1 \in 0 .. n
    OBVIOUS
  <2>2. PICK p \in Seq(X) : p = Leading(ss, m - 1)
    BY <1>2, <2>1
  <2>3. PICK q \in Seq(X) : q = ss[m]
    BY <1>2
  <2>4. PICK b \in Nat : b = Len(p)
    BY LenProperties
  <2>5. PICK l \in Nat : l = Len(q)
    BY LenProperties
  <2>6. Leading(ss, m) = p \o q
    BY <1>2, <2>2, <2>3, Zenon
  <2>7. Below(ss, m - 1) = b
    BY <2>2, <2>4, Zenon DEF Below
  <2>8. /\ Len(p \o q) = b + l
        /\ \A i \in 1 .. b + l : (p \o q)[i] = IF i <= b THEN p[i] ELSE q[i - b]
    BY <2>4, <2>5, ConcatProperties
  <2>9. \A k \in 1 .. l : (p \o q)[b + k] = q[k]
    <3> TAKE k \in 1 .. l
    <3>1. b + k \in 1 .. b + l /\ ~(b + k <= b) /\ (b + k) - b = k
      OBVIOUS
    <3> QED
      BY <2>8, <3>1
  <2>10. \A k \in 1 .. b : (p \o q)[k] = p[k]
    BY <2>8
  <2>11. Below(ss, m) = b + l
    BY <2>6, <2>8, Zenon DEF Below
  <2> QED
    BY <2>2, <2>3, <2>5, <2>6, <2>7, <2>9, <2>10, <2>11
\* What the first m hold, the first of any more hold.
<1>7. ASSUME NEW m \in 0 .. n
      PROVE  /\ Below(ss, m) <= Below(ss, n)
             /\ \A k \in 1 .. Below(ss, m) : Leading(ss, n)[k] = Leading(ss, m)[k]
  <2> DEFINE S == {i \in 0 .. n : i >= m =>
                     /\ Below(ss, m) <= Below(ss, i)
                     /\ \A k \in 1 .. Below(ss, m) : Leading(ss, i)[k] = Leading(ss, m)[k]}
  <2>1. 0 \in S
    <3>1. 0 >= m => m = 0
      OBVIOUS
    <3> QED
      BY <1>3, <3>1
  <2>2. ASSUME NEW i \in 1 .. n, i - 1 \in S PROVE i \in S
    <3>1. CASE i < m
      BY <3>1
    <3>2. CASE i = m
      BY <1>5, <3>2
    <3>3. CASE i > m
      <4>1. /\ Below(ss, m) <= Below(ss, i - 1)
            /\ \A k \in 1 .. Below(ss, m) : Leading(ss, i - 1)[k] = Leading(ss, m)[k]
        BY <2>2, <3>3
      <4>2. Below(ss, m) \in Nat /\ Below(ss, i - 1) \in Nat /\ Len(ss[i]) \in Nat
        <5>1. i - 1 \in 0 .. n
          OBVIOUS
        <5> QED
          BY <1>5, <1>6, <5>1
      <4>3. Below(ss, m) <= Below(ss, i)
        BY <1>6, <4>1, <4>2
      <4>4. ASSUME NEW k \in 1 .. Below(ss, m) PROVE Leading(ss, i)[k] = Leading(ss, m)[k]
        <5>1. k \in 1 .. Below(ss, i - 1)
          BY <4>1, <4>2
        <5> QED
          BY <1>6, <4>1, <5>1
      <4>5. i \in 0 .. n
        OBVIOUS
      <4> QED
        BY <4>3, <4>4, <4>5
    <3> QED
      BY <3>1, <3>2, <3>3
  <2>3. S = 0 .. n
    <3>1. S \in SUBSET (0 .. n)
      OBVIOUS
    <3> HIDE DEF S
    <3> QED
      BY <2>1, <2>2, <3>1, UpTo
  <2>4. n \in S /\ n >= m
    BY <2>3
  <2> QED
    BY <2>4
<1>8. ASSUME NEW m \in 1 .. n, NEW k \in 1 .. Len(ss[m])
      PROVE  FlattenSeq(ss)[Below(ss, m - 1) + k] = ss[m][k]
  <2>1. PICK b \in Nat : b = Below(ss, m - 1)
    <3>1. m - 1 \in 0 .. n
      OBVIOUS
    <3> QED
      BY <1>5, <3>1
  <2>2. PICK l \in Nat : l = Len(ss[m])
    BY <1>6
  <2>3. Below(ss, m) = b + l
    BY <1>6, <2>1, <2>2
  <2>4. b + k \in 1 .. b + l /\ m \in 0 .. n
    BY <2>2
  <2>5. Leading(ss, n)[b + k] = Leading(ss, m)[b + k]
    BY <1>7, <2>3, <2>4
  <2> QED
    BY <1>4, <1>6, <2>1, <2>5
<1>9. Below(ss, n) = Len(FlattenSeq(ss))
  BY <1>4, Zenon DEF Below
<1>10. FlattenSeq(ss) \in Seq(X)
  <2>1. n \in 0 .. n
    OBVIOUS
  <2> QED
    BY <1>2, <1>4, <2>1
<1> QED
  BY <1>1, <1>3, <1>5, <1>6, <1>7, <1>8, <1>9, <1>10

-----------------------------------------------------------------------------
\* The bytes of lines, requests and scripts.
ByteSet == [char : Chars, line : Lines \cup {Bad}, at : Nat]

LEMMA Joined ==
  ASSUME NEW X, NEW s \in Seq(X), NEW t \in Seq(X)
  PROVE  /\ s \o t \in Seq(X) /\ Len(s \o t) = Len(s) + Len(t)
         /\ \A k \in 1 .. Len(s) : (s \o t)[k] = s[k]
         /\ \A k \in 1 .. Len(t) : (s \o t)[Len(s) + k] = t[k]
<1>0. PICK a \in Nat : a = Len(s)
  BY LenProperties
<1>00. PICK b \in Nat : b = Len(t)
  BY LenProperties
<1>1. /\ s \o t \in Seq(X) /\ Len(s \o t) = a + b
      /\ \A k \in 1 .. a + b : (s \o t)[k] = IF k <= a THEN s[k] ELSE t[k - a]
  BY <1>0, <1>00, ConcatProperties
<1>2. ASSUME NEW k \in 1 .. b PROVE (s \o t)[a + k] = t[k]
  <2>1. a + k \in 1 .. a + b /\ ~(a + k <= a) /\ (a + k) - a = k
    OBVIOUS
  <2> QED
    BY <1>1, <2>1
<1>3. ASSUME NEW k \in 1 .. a PROVE (s \o t)[k] = s[k]
  <2>1. k \in 1 .. a + b /\ k <= a
    OBVIOUS
  <2> QED
    BY <1>1, <2>1
<1> QED
  BY <1>0, <1>00, <1>1, <1>2, <1>3, Zenon

LEMMA LineIs ==
  ASSUME NEW l \in Lines
  PROVE  /\ LineBytes(l) \in Seq(ByteSet)
         /\ l.size \in Nat /\ l.size >= 1 /\ Len(LineBytes(l)) = l.size + 2
         /\ \A k \in 1 .. l.size : LineBytes(l)[k] = Byte("text", l, k)
         /\ LineBytes(l)[l.size + 1] = Byte("cr", Bad, 0)
         /\ LineBytes(l)[l.size + 2] = Byte("lf", Bad, 0)
<1>1. PICK n \in Nat : n = l.size /\ n >= 1
  <2>1. l \in [kind : {"request", "header", "bad"}, size : Nat \ {0},
               name : STRING, value : Nat \cup {Junk}]
    BY Zenon DEF Lines
  <2>2. l.size \in Nat \ {0}
    BY <2>1, Zenon
  <2> QED
    BY <2>2
<1> DEFINE t == [k \in 1 .. n |-> Byte("text", l, k)]
           e == <<Byte("cr", Bad, 0), Byte("lf", Bad, 0)>>
<1>2. \A k \in Nat : Byte("text", l, k) \in ByteSet
  BY DEF Byte, ByteSet, Chars
<1>3. Byte("cr", Bad, 0) \in ByteSet /\ Byte("lf", Bad, 0) \in ByteSet
  BY DEF Byte, ByteSet, Chars
<1>4. t \in Seq(ByteSet) /\ Len(t) = n /\ \A k \in 1 .. n : t[k] = Byte("text", l, k)
  <2>1. \A k \in 1 .. n : Byte("text", l, k) \in ByteSet
    BY <1>2
  <2> DEFINE B(k) == Byte("text", l, k)
  <2> HIDE DEF B
  <2>2. [k \in 1 .. n |-> B(k)] \in Seq(ByteSet)
    BY <2>1 DEF B
  <2>3. /\ Len([k \in 1 .. n |-> B(k)]) = n
        /\ \A k \in 1 .. n : [j \in 1 .. n |-> B(j)][k] = B(k)
    OBVIOUS
  <2> QED
    BY <2>2, <2>3, Zenon DEF B
<1>5. e \in Seq(ByteSet) /\ Len(e) = 2 /\ e[1] = Byte("cr", Bad, 0) /\ e[2] = Byte("lf", Bad, 0)
  BY <1>3
<1>6. LineBytes(l) = t \o e
  BY <1>1, Zenon DEF LineBytes, CRLF
<1> HIDE DEF t, e
<1>7. /\ t \o e \in Seq(ByteSet) /\ Len(t \o e) = n + 2
      /\ \A k \in 1 .. n : (t \o e)[k] = t[k]
      /\ \A k \in 1 .. 2 : (t \o e)[n + k] = e[k]
  <2>1. PICK c \in Nat : c = 2
    OBVIOUS
  <2>2. Len(e) = c
    BY <1>5, <2>1, Zenon
  <2>3. PICK u \in Seq(ByteSet) : u = t
    BY <1>4
  <2>4. PICK v \in Seq(ByteSet) : v = e
    BY <1>5
  <2>5. Len(u) = n /\ Len(v) = c
    BY <1>4, <2>2, <2>3, <2>4, Zenon
  <2>6. /\ u \o v \in Seq(ByteSet) /\ Len(u \o v) = Len(u) + Len(v)
        /\ \A k \in 1 .. Len(u) : (u \o v)[k] = u[k]
        /\ \A k \in 1 .. Len(v) : (u \o v)[Len(u) + k] = v[k]
    BY Joined
  <2> QED
    BY <2>5, <2>1, <2>3, <2>4, <2>6, Zenon
<1>8. \A k \in 1 .. n : (t \o e)[k] = Byte("text", l, k)
  BY <1>4, <1>7
<1>9. (t \o e)[n + 1] = e[1] /\ (t \o e)[n + 2] = e[2]
  BY <1>7
<1> QED
  BY <1>1, <1>5, <1>6, <1>7, <1>8, <1>9

LinesOf(q) == [i \in DOMAIN q.lines |-> LineBytes(q.lines[i])]

\* Where line j of a request ends, counted from the beginning of the request.
LineEnd(q, j) == Below(LinesOf(q), j)

Total(q) == Len(RequestBytes(q))

LEMMA RequestIs ==
  ASSUME NEW q \in Requests, NEW n, n = Len(q.lines)
  PROVE  /\ n \in Nat /\ n >= 1 /\ Len(q.body) \in Nat
         /\ DOMAIN q.lines = 1 .. n /\ \A j \in 1 .. n : q.lines[j] \in Lines
         /\ RequestBytes(q) \in Seq(ByteSet)
         /\ LineEnd(q, 0) = 0
         /\ \A j \in 0 .. n : LineEnd(q, j) \in Nat /\ LineEnd(q, j) <= LineEnd(q, n)
         /\ Total(q) = LineEnd(q, n) + 2 + Len(q.body)
         /\ \A j \in 1 .. n :
              /\ LineEnd(q, j) = LineEnd(q, j - 1) + q.lines[j].size + 2
              /\ \A k \in 1 .. q.lines[j].size + 2 :
                   RequestBytes(q)[LineEnd(q, j - 1) + k] = LineBytes(q.lines[j])[k]
         /\ RequestBytes(q)[LineEnd(q, n) + 1] = Byte("cr", Bad, 0)
         /\ RequestBytes(q)[LineEnd(q, n) + 2] = Byte("lf", Bad, 0)
<1>1. /\ q.lines \in Seq(Lines) /\ q.lines # <<>> /\ q.body \in Seq(Chars)
  BY DEF Requests
<1>2. /\ n \in Nat /\ n >= 1 /\ DOMAIN q.lines = 1 .. n
      /\ \A j \in 1 .. n : q.lines[j] \in Lines
  <2>1. n \in Nat /\ DOMAIN q.lines = 1 .. n /\ \A j \in 1 .. n : q.lines[j] \in Lines
    BY <1>1, LenProperties, ElementOfSeq
  <2>2. n # 0
    BY <1>1, EmptySeq
  <2> QED
    BY <2>1, <2>2
<1>3. PICK b \in Nat : b = Len(q.body)
  BY <1>1, LenProperties
<1>4. DOMAIN q.body = 1 .. b /\ \A k \in 1 .. b : q.body[k] \in Chars
  BY <1>1, <1>3, LenProperties, ElementOfSeq
<1> DEFINE ls == LinesOf(q)
           e == <<Byte("cr", Bad, 0), Byte("lf", Bad, 0)>>
           d == [k \in DOMAIN q.body |-> Byte(q.body[k], Bad, 0)]
<1>5. ls \in Seq(Seq(ByteSet)) /\ Len(ls) = n /\ \A j \in 1 .. n : ls[j] = LineBytes(q.lines[j])
  <2> DEFINE B(j) == LineBytes(q.lines[j])
  <2>1. \A j \in 1 .. n : B(j) \in Seq(ByteSet)
    BY <1>2, LineIs
  <2>2. ls = [j \in 1 .. n |-> B(j)]
    BY <1>2 DEF LinesOf
  <2> HIDE DEF B, ls
  <2>3. [j \in 1 .. n |-> B(j)] \in Seq(Seq(ByteSet))
    <3> DEFINE Y == Seq(ByteSet)
    <3>1. \A j \in 1 .. n : B(j) \in Y
      BY <2>1
    <3> HIDE DEF Y
    <3>2. [j \in 1 .. n |-> B(j)] \in Seq(Y)
      BY <1>2, <3>1
    <3> USE DEF Y
    <3> QED
      BY <3>2
  <2>4. /\ Len([j \in 1 .. n |-> B(j)]) = n
        /\ \A j \in 1 .. n : [i \in 1 .. n |-> B(i)][j] = B(j)
    BY <1>2
  <2> QED
    BY <2>2, <2>3, <2>4, Zenon DEF B
<1> HIDE DEF ls
<1>6. PICK f \in Seq(ByteSet) : f = FlattenSeq(ls)
  BY <1>5, FlattenIs
<1>7. e \in Seq(ByteSet) /\ Len(e) = 2 /\ e[1] = Byte("cr", Bad, 0) /\ e[2] = Byte("lf", Bad, 0)
  <2>1. Byte("cr", Bad, 0) \in ByteSet /\ Byte("lf", Bad, 0) \in ByteSet
    BY DEF Byte, ByteSet, Chars
  <2> QED
    BY <2>1
<1>8. d \in Seq(ByteSet) /\ Len(d) = b
  <2> DEFINE B(k) == Byte(q.body[k], Bad, 0)
  <2>1. \A k \in 1 .. b : B(k) \in ByteSet
    BY <1>4 DEF Byte, ByteSet
  <2>2. d = [k \in 1 .. b |-> B(k)]
    BY <1>4, Zenon
  <2> HIDE DEF B, d
  <2>3. [k \in 1 .. b |-> B(k)] \in Seq(ByteSet) /\ Len([k \in 1 .. b |-> B(k)]) = b
    BY <2>1
  <2> QED
    BY <2>2, <2>3
<1>9. RequestBytes(q) = (f \o e) \o d
  BY <1>6, Zenon DEF RequestBytes, CRLF, LinesOf, ls
<1> HIDE DEF e, d
<1>10. PICK m \in Nat : m = Len(f)
  BY LenProperties
<1>11. /\ f \o e \in Seq(ByteSet) /\ Len(f \o e) = m + 2
       /\ \A k \in 1 .. m : (f \o e)[k] = f[k]
       /\ \A k \in 1 .. 2 : (f \o e)[m + k] = e[k]
  <2>1. PICK c \in Nat : c = 2
    OBVIOUS
  <2>2. PICK v \in Seq(ByteSet) : v = e
    BY <1>7
  <2>3. Len(f) = m /\ Len(v) = c
    BY <1>7, <1>10, <2>1, <2>2, Zenon
  <2>4. /\ f \o v \in Seq(ByteSet) /\ Len(f \o v) = Len(f) + Len(v)
        /\ \A k \in 1 .. Len(f) : (f \o v)[k] = f[k]
        /\ \A k \in 1 .. Len(v) : (f \o v)[Len(f) + k] = v[k]
    BY Joined
  <2> QED
    BY <2>3, <2>1, <2>2, <2>4, Zenon
<1>12. PICK g \in Seq(ByteSet) : g = f \o e
  BY <1>11
<1>13. /\ g \o d \in Seq(ByteSet) /\ Len(g \o d) = (m + 2) + b
       /\ \A k \in 1 .. m + 2 : (g \o d)[k] = g[k]
  <2>1. PICK c \in Nat : c = m + 2
    OBVIOUS
  <2>2. PICK v \in Seq(ByteSet) : v = d
    BY <1>8
  <2>3. Len(g) = c /\ Len(v) = b
    BY <1>8, <1>11, <1>12, <2>1, <2>2, Zenon
  <2>4. /\ g \o v \in Seq(ByteSet) /\ Len(g \o v) = Len(g) + Len(v)
        /\ \A k \in 1 .. Len(g) : (g \o v)[k] = g[k]
    BY Joined
  <2> QED
    BY <2>3, <2>1, <2>2, <2>4, Zenon
<1>14. RequestBytes(q) = g \o d
  BY <1>9, <1>12, Zenon
<1>15. /\ \A k \in 1 .. m : RequestBytes(q)[k] = f[k]
       /\ RequestBytes(q)[m + 1] = e[1] /\ RequestBytes(q)[m + 2] = e[2]
  <2>0. \A k \in 1 .. m + 2 : RequestBytes(q)[k] = (f \o e)[k]
    BY <1>12, <1>13, <1>14, Zenon
  <2>1. \A k \in 1 .. m : RequestBytes(q)[k] = f[k]
    <3> TAKE k \in 1 .. m
    <3>1. k \in 1 .. m + 2
      OBVIOUS
    <3> QED
      BY <1>11, <2>0, <3>1
  <2>2. \A i \in 1 .. 2 : RequestBytes(q)[m + i] = e[i]
    <3> TAKE i \in 1 .. 2
    <3>1. m + i \in 1 .. m + 2
      OBVIOUS
    <3> QED
      BY <1>11, <2>0, <3>1
  <2>3. 1 \in 1 .. 2 /\ 2 \in 1 .. 2
    OBVIOUS
  <2> QED
    BY <2>1, <2>2, <2>3
<1>16. /\ \A j \in 0 .. n : LineEnd(q, j) \in Nat /\ LineEnd(q, j) <= m
       /\ LineEnd(q, 0) = 0 /\ LineEnd(q, n) = m
       /\ \A j \in 1 .. n :
            /\ LineEnd(q, j) = LineEnd(q, j - 1) + Len(ls[j])
            /\ \A k \in 1 .. Len(ls[j]) : f[LineEnd(q, j - 1) + k] = ls[j][k]
  BY <1>5, <1>6, <1>10, FlattenIs DEF LineEnd, ls
<1>17. \A j \in 1 .. n : q.lines[j].size \in Nat /\ Len(ls[j]) = q.lines[j].size + 2
  BY <1>2, <1>5, LineIs
<1>18. ASSUME NEW j \in 1 .. n
       PROVE  /\ LineEnd(q, j) = LineEnd(q, j - 1) + q.lines[j].size + 2
              /\ \A k \in 1 .. q.lines[j].size + 2 :
                   RequestBytes(q)[LineEnd(q, j - 1) + k] = LineBytes(q.lines[j])[k]
  <2>1. PICK z \in Nat : z = q.lines[j].size
    BY <1>17
  <2>2. j - 1 \in 0 .. n /\ j \in 0 .. n
    BY <1>2
  <2>3. PICK p \in Nat : p = LineEnd(q, j - 1)
    BY <1>16, <2>2
  <2>4. LineEnd(q, j) = p + (z + 2) /\ p + (z + 2) <= m
    BY <1>16, <1>17, <2>1, <2>2, <2>3
  <2>5. ASSUME NEW k \in 1 .. z + 2
        PROVE  RequestBytes(q)[p + k] = LineBytes(q.lines[j])[k]
    <3>1. p + k \in 1 .. m
      BY <2>4
    <3>2. f[p + k] = ls[j][k]
      BY <1>16, <1>17, <2>1, <2>3
    <3> QED
      BY <1>5, <1>15, <3>1, <3>2
  <2> QED
    BY <2>1, <2>3, <2>4, <2>5
<1>19. RequestBytes(q) \in Seq(ByteSet) /\ Total(q) = LineEnd(q, n) + 2 + Len(q.body)
  BY <1>3, <1>13, <1>14, <1>16 DEF Total
<1> QED
  BY <1>2, <1>3, <1>7, <1>15, <1>16, <1>18, <1>19

RequestsOf(s) == [i \in DOMAIN s |-> RequestBytes(s[i])]

\* Where request i ends in the stream.
RequestEnd(s, i) == Len(Bytes(SubSeq(s, 1, i)))

LEMMA ScriptIs ==
  ASSUME NEW s \in Scripts
  PROVE  /\ Len(s) \in Nat /\ \A i \in 1 .. Len(s) : s[i] \in Requests
         /\ \A i \in 1 .. Len(s) : Verdict(s[i]) = "ok" => Len(s[i].body) = LengthOf(s[i])
         /\ Bytes(s) \in Seq(ByteSet)
         /\ RequestEnd(s, 0) = 0 /\ RequestEnd(s, Len(s)) = Len(Bytes(s))
         /\ \A i \in 0 .. Len(s) : RequestEnd(s, i) \in Nat /\ RequestEnd(s, i) <= Len(Bytes(s))
         /\ \A i \in 1 .. Len(s) :
              /\ RequestEnd(s, i) = RequestEnd(s, i - 1) + Total(s[i])
              /\ \A k \in 1 .. Total(s[i]) :
                   Bytes(s)[RequestEnd(s, i - 1) + k] = RequestBytes(s[i])[k]
<1>1. s \in Seq(Requests)
  BY ScriptAssumption
<1>2. PICK n \in Nat : n = Len(s) /\ DOMAIN s = 1 .. n
  BY <1>1, LenProperties
<1>3. \A i \in 1 .. n : s[i] \in Requests
  BY <1>1, <1>2, ElementOfSeq
<1> DEFINE rs == RequestsOf(s)
<1>4. rs \in Seq(Seq(ByteSet)) /\ Len(rs) = n /\ \A i \in 1 .. n : rs[i] = RequestBytes(s[i])
  <2> DEFINE B(j) == RequestBytes(s[j])
             Y == Seq(ByteSet)
  <2>1. \A j \in 1 .. n : B(j) \in Y
    BY <1>3, RequestIs
  <2>2. rs = [j \in 1 .. n |-> B(j)]
    BY <1>2 DEF RequestsOf
  <2> HIDE DEF B, rs, Y
  <2>3. [j \in 1 .. n |-> B(j)] \in Seq(Y) /\ Len([j \in 1 .. n |-> B(j)]) = n
        /\ \A j \in 1 .. n : [i \in 1 .. n |-> B(i)][j] = B(j)
    BY <2>1
  <2> QED
    BY <2>2, <2>3, Zenon DEF B, Y
<1>5. ASSUME NEW m \in 0 .. n PROVE RequestEnd(s, m) = Below(rs, m)
  <2> DEFINE t == SubSeq(s, 1, m)
             u == SubSeq(rs, 1, m)
  <2>1. t \in Seq(Requests) /\ Len(t) = m /\ \A i \in 1 .. m : t[i] = s[i]
    <3>1. \A i \in 1 .. m : s[i] \in Requests
      BY <1>3
    <3>2. /\ t \in Seq(Requests) /\ Len(t) = IF 1 <= m THEN m - 1 + 1 ELSE 0
          /\ \A i \in 1 .. m - 1 + 1 : t[i] = s[1 + i - 1]
      BY <3>1, SubSeqProperties
    <3> QED
      BY <3>2
  <2>2. u \in Seq(Seq(ByteSet)) /\ Len(u) = m /\ \A i \in 1 .. m : u[i] = rs[i]
    <3> HIDE DEF rs
    <3> DEFINE Y == Seq(ByteSet)
    <3>1. \A i \in 1 .. m : rs[i] \in Y
      BY <1>4, ElementOfSeq
    <3> HIDE DEF Y
    <3>2. /\ u \in Seq(Y) /\ Len(u) = IF 1 <= m THEN m - 1 + 1 ELSE 0
          /\ \A i \in 1 .. m - 1 + 1 : u[i] = rs[1 + i - 1]
      BY <3>1, SubSeqProperties
    <3> USE DEF Y
    <3> QED
      BY <3>2
  <2> HIDE DEF t, u, rs
  <2>3. DOMAIN t = 1 .. m
    BY <2>1, LenProperties
  <2>4. u = RequestsOf(t)
    <3> DEFINE B(i) == RequestBytes(t[i])
    <3>1. RequestsOf(t) = [i \in 1 .. m |-> B(i)]
      BY <2>3 DEF RequestsOf
    <3>2. \A i \in 1 .. m : u[i] = B(i)
      <4> TAKE i \in 1 .. m
      <4>1. i \in 1 .. n
        OBVIOUS
      <4> QED
        BY <1>4, <2>1, <2>2, <4>1
    <3> HIDE DEF B
    <3>3. u = [i \in 1 .. m |-> u[i]]
      BY <2>2
    <3> QED
      BY <3>1, <3>2, <3>3
  <2>5. Bytes(t) = FlattenSeq(u)
    BY <2>4, Zenon DEF Bytes, RequestsOf
  <2> QED
    BY <2>5, Zenon DEF RequestEnd, Below, Leading, t, u
<1>6. Bytes(s) = FlattenSeq(rs)
  BY Zenon DEF Bytes, RequestsOf
<1> HIDE DEF rs
<1>7. /\ Bytes(s) \in Seq(ByteSet) /\ Below(rs, 0) = 0
      /\ Below(rs, n) = Len(Bytes(s))
      /\ \A m \in 0 .. n : Below(rs, m) \in Nat /\ Below(rs, m) <= Len(Bytes(s))
      /\ \A m \in 1 .. n :
           /\ Below(rs, m) = Below(rs, m - 1) + Len(rs[m])
           /\ \A k \in 1 .. Len(rs[m]) : Bytes(s)[Below(rs, m - 1) + k] = rs[m][k]
  <2> PICK ss \in Seq(Seq(ByteSet)) : ss = rs
    BY <1>4
  <2>1. Len(ss) = n /\ FlattenSeq(ss) = Bytes(s)
    BY <1>4, <1>6
  <2>2. /\ FlattenSeq(ss) \in Seq(ByteSet) /\ Below(ss, 0) = 0
        /\ Below(ss, Len(ss)) = Len(FlattenSeq(ss))
        /\ \A m \in 0 .. Len(ss) :
             Below(ss, m) \in Nat /\ Below(ss, m) <= Len(FlattenSeq(ss))
        /\ \A m \in 1 .. Len(ss) :
             /\ Len(ss[m]) \in Nat
             /\ Below(ss, m) = Below(ss, m - 1) + Len(ss[m])
             /\ \A k \in 1 .. Len(ss[m]) :
                  FlattenSeq(ss)[Below(ss, m - 1) + k] = ss[m][k]
    <3>1. /\ FlattenSeq(ss) \in Seq(ByteSet) /\ Below(ss, 0) = 0
          /\ Below(ss, Len(ss)) = Len(FlattenSeq(ss))
      BY FlattenIs
    <3>2. ASSUME NEW m \in 0 .. Len(ss)
          PROVE  Below(ss, m) \in Nat /\ Below(ss, m) <= Len(FlattenSeq(ss))
      BY FlattenIs
    <3>3. ASSUME NEW m \in 1 .. Len(ss)
          PROVE  Len(ss[m]) \in Nat /\ Below(ss, m) = Below(ss, m - 1) + Len(ss[m])
      BY FlattenIs
    <3>4. ASSUME NEW m \in 1 .. Len(ss), NEW k \in 1 .. Len(ss[m])
          PROVE  FlattenSeq(ss)[Below(ss, m - 1) + k] = ss[m][k]
      BY FlattenIs
    <3> QED
      BY <3>1, <3>2, <3>3, <3>4, Zenon
  <2>3. /\ Bytes(s) \in Seq(ByteSet) /\ Below(ss, 0) = 0
        /\ Below(ss, n) = Len(Bytes(s))
        /\ \A m \in 0 .. n : Below(ss, m) \in Nat /\ Below(ss, m) <= Len(Bytes(s))
    BY <2>1, <2>2, Zenon
  <2>4. \A m \in 1 .. n :
             /\ Below(ss, m) = Below(ss, m - 1) + Len(ss[m])
             /\ \A k \in 1 .. Len(ss[m]) : Bytes(s)[Below(ss, m - 1) + k] = ss[m][k]
    <3> TAKE m \in 1 .. n
    <3>1. m \in 1 .. Len(ss)
      BY <2>1
    <3> DEFINE P(b) == /\ Below(ss, m) = Below(ss, m - 1) + Len(ss[m])
                       /\ \A k \in 1 .. Len(ss[m]) : b[Below(ss, m - 1) + k] = ss[m][k]
    <3>2. P(FlattenSeq(ss))
      BY <2>2, <3>1
    <3>3. FlattenSeq(ss) = Bytes(s)
      BY <2>1
    <3> HIDE DEF P
    <3>4. P(Bytes(s))
      BY <3>2, <3>3
    <3> USE DEF P
    <3> QED
      BY <3>4
  <2> QED
    BY <2>3, <2>4, Zenon
<1>8. RequestEnd(s, 0) = 0 /\ RequestEnd(s, n) = Len(Bytes(s))
  <2>1. 0 \in 0 .. n /\ n \in 0 .. n
    OBVIOUS
  <2> QED
    BY <1>5, <1>7, <2>1
<1>9. \A i \in 0 .. n : RequestEnd(s, i) \in Nat /\ RequestEnd(s, i) <= Len(Bytes(s))
  BY <1>5, <1>7
<1>10. ASSUME NEW i \in 1 .. n
       PROVE  /\ RequestEnd(s, i) = RequestEnd(s, i - 1) + Total(s[i])
              /\ \A k \in 1 .. Total(s[i]) :
                   Bytes(s)[RequestEnd(s, i - 1) + k] = RequestBytes(s[i])[k]
  <2>1. i - 1 \in 0 .. n /\ i \in 0 .. n
    OBVIOUS
  <2>2. RequestEnd(s, i) = Below(rs, i) /\ RequestEnd(s, i - 1) = Below(rs, i - 1)
    BY <1>5, <2>1
  <2>3. rs[i] = RequestBytes(s[i])
    BY <1>4
  <2> QED
    BY <1>7, <2>2, <2>3 DEF Total
<1>11. \A i \in 1 .. n : Verdict(s[i]) = "ok" => Len(s[i].body) = LengthOf(s[i])
  BY <1>2, ScriptAssumption
<1> QED
  BY <1>2, <1>3, <1>7, <1>8, <1>9, <1>10, <1>11
-----------------------------------------------------------------------------
\* Within its limits: MemoryBounded, and that a body starts empty and that the
\* parser never takes more than has been read; every step that moves pos moves
\* it to the end of a line found in the buffer or by what the buffer has for
\* the body.  A caller that stops early stops between two requests.
States == {"line", "headers", "body", "done"}

Places ==
    /\ Len(stream) \in Nat
    /\ read \in 0 .. Len(stream) /\ pos \in 0 .. read
    /\ pc \in Labels /\ state \in States
    /\ pc \in {"held", "file"} => state = "line"

Sizes ==
    /\ bodyExpected \in Nat /\ bodySize \in Nat
    /\ state \in {"line", "headers"} => bodySize = 0
    /\ IsFiniteSet(DOMAIN headers)

IInv == Places /\ Sizes /\ MemoryBounded

LEMMA LeastBounds ==
    ASSUME NEW a \in Nat, NEW b \in Nat
    PROVE  /\ Least(a, b) \in Nat /\ Least(a, b) <= a /\ Least(a, b) <= b
           /\ Least(a, b) < a => Least(a, b) = b
  BY DEF Least

LEMMA NoHeadersFits ==
    /\ IsFiniteSet(DOMAIN NoHeaders)
    /\ Cardinality(DOMAIN NoHeaders) = 0
  BY FS_EmptySet DEF NoHeaders

LEMMA InitIInv == Init => IInv
  <1>. SUFFICES ASSUME Init PROVE IInv
    OBVIOUS
  <1>1. Len(stream) \in Nat
    BY ScriptIs, LenProperties DEF Init
  <1>2. Places
    BY <1>1 DEF Init, Places, States, Labels
  <1>3. Sizes /\ MemoryBounded
    BY NoHeadersFits, ParserAssumption DEF Init, Sizes, MemoryBounded
  <1>. QED BY <1>2, <1>3 DEF IInv

LEMMA ResetKeeps ==
    ASSUME IInv, Reset, UNCHANGED <<input, read>>,
           pos' \in 0 .. read, pc' \in Labels, pc' = "wait" => pos' = read
    PROVE  IInv'
  <1>1. Places'
    BY DEF IInv, Places, Reset, States, input
  <1>2. Sizes'
    BY NoHeadersFits DEF IInv, Sizes, Reset
  <1>3. read \in Nat /\ read' = read
    BY DEF IInv, Places
  <1>4. pc' = "wait" => read' - pos' = 0
    BY <1>3
  <1>5. pc' = "wait" => read' - pos' <= MaxLine
    BY <1>4, ParserAssumption
  <1>6. MemoryBounded'
    BY <1>5, NoHeadersFits, ParserAssumption DEF MemoryBounded, Reset
  <1>. QED BY <1>1, <1>2, <1>6 DEF IInv

LEMMA ReceiveKeeps ==
    ASSUME IInv, NEW n \in 1 .. ReadMax, Receive(n)
    PROVE  IInv'
  <1>1. n \in Nat
    BY ParserAssumption
  <1>2. Places'
    BY <1>1 DEF IInv, Places, Labels, Receive, input, request
  <1>3. pc' # "wait"
    BY DEF Receive
  <1>4. Sizes' /\ MemoryBounded'
    BY <1>3 DEF IInv, Sizes, MemoryBounded, Receive, request
  <1>. QED BY <1>2, <1>4 DEF IInv

LEMMA LineMissingKeeps ==
    ASSUME IInv, LineMissing
    PROVE  IInv'
  <1>1. CASE TooLong(read - pos)
    <2>1. Fail("bad") /\ UNCHANGED <<input, read, pos>>
      BY <1>1 DEF LineMissing
    <2>. QED BY <2>1, ResetKeeps DEF Fail, IInv, Places, Labels
  <1>2. CASE ~TooLong(read - pos)
    <2>1. /\ pc' = "wait" /\ UNCHANGED <<request, results, input, read, pos>>
          /\ state # "body"
      BY <1>2 DEF LineMissing
    <2>2. read - pos <= MaxLine
      BY <1>2, ParserAssumption DEF TooLong, IInv, Places
    <2>3. Places'
      BY <2>1 DEF IInv, Places, Labels, input, request
    <2>4. Sizes' /\ MemoryBounded'
      BY <2>1, <2>2 DEF IInv, Sizes, MemoryBounded, request
    <2>. QED BY <2>3, <2>4 DEF IInv
  <1>. QED BY <1>1, <1>2

LEMMA RequestLineKeeps ==
    ASSUME IInv, NEW k \in pos + 1 .. read - 1, ParseRequestLine(k)
    PROVE  IInv'
  <1>1. k + 1 \in 0 .. read
    BY DEF IInv, Places
  <1>2. CASE Fail("bad") /\ UNCHANGED pos
    BY <1>2, ResetKeeps DEF Fail, ParseRequestLine, IInv, Places, Labels
  <1>3. CASE /\ pos' = k + 1 /\ state' = "headers"
             /\ UNCHANGED <<pc, headers, bodyExpected, bodySize>>
    <2>1. pc = "parse" /\ state = "line" /\ UNCHANGED <<input, read>>
      BY DEF ParseRequestLine
    <2>2. Places'
      BY <1>1, <1>3, <2>1 DEF IInv, Places, States, input
    <2>3. Sizes' /\ MemoryBounded'
      BY <1>3, <2>1 DEF IInv, Sizes, MemoryBounded
    <2>. QED BY <2>2, <2>3 DEF IInv
  <1>. QED BY <1>2, <1>3 DEF ParseRequestLine

LEMMA HeaderKeeps ==
    ASSUME IInv, NEW k \in pos + 1 .. read - 1, ParseHeader(k)
    PROVE  IInv'
  <1>. DEFINE l == LineTo(k)
  <1>1. k + 1 \in 0 .. read
    BY DEF IInv, Places
  <1>2. CASE Fail("bad") /\ UNCHANGED pos
    BY <1>2, ResetKeeps DEF Fail, ParseHeader, IInv, Places, Labels
  <1>3. CASE /\ pos' = k + 1 /\ ~HeadersFull /\ AddHeader(l.name, l.value)
             /\ UNCHANGED <<pc, state, bodyExpected, bodySize>>
    <2>1. pc = "parse" /\ UNCHANGED <<input, read>>
      BY DEF ParseHeader
    <2>2. Places'
      BY <1>1, <1>3, <2>1 DEF IInv, Places, input
    <2>3. DOMAIN headers' = DOMAIN headers \cup {l.name}
      BY <1>3 DEF AddHeader
    <2>4. /\ IsFiniteSet(DOMAIN headers) /\ Cardinality(DOMAIN headers) \in Nat
          /\ Cardinality(DOMAIN headers) < MaxHeaders
      BY <1>3, FS_CardinalityType, ParserAssumption DEF IInv, Sizes, HeadersFull
    <2>5. /\ IsFiniteSet(DOMAIN headers')
          /\ Cardinality(DOMAIN headers') <= Cardinality(DOMAIN headers) + 1
      BY <2>3, <2>4, FS_AddElement
    <2>6. Cardinality(DOMAIN headers') \in Nat
      BY <2>5, FS_CardinalityType
    <2>7. Cardinality(DOMAIN headers') <= MaxHeaders
      BY <2>4, <2>5, <2>6, ParserAssumption
    <2>8. Sizes' /\ MemoryBounded'
      BY <1>3, <2>1, <2>5, <2>7 DEF IInv, Sizes, MemoryBounded
    <2>. QED BY <2>2, <2>8 DEF IInv
  <1>. QED BY <1>2, <1>3 DEF ParseHeader

LEMMA HeadersEndKeeps ==
    ASSUME IInv, NEW k \in pos + 1 .. read - 1, ParseHeadersEnd(k)
    PROVE  IInv'
  <1>1. k + 1 \in 0 .. read /\ pos' = k + 1 /\ UNCHANGED <<input, read>>
        /\ pc = "parse" /\ state = "headers"
    BY DEF IInv, Places, ParseHeadersEnd
  <1>2. CASE Fail("bad") \/ Fail("large")
    BY <1>1, <1>2, ResetKeeps DEF Fail, Labels
  <1>3. CASE /\ ContentLength \in 0 .. MaxBody
             /\ bodyExpected' = IF Has("length") THEN ContentLength ELSE bodyExpected
             /\ state' = IF bodyExpected' > 0 THEN "body" ELSE "done"
             /\ UNCHANGED <<pc, headers, bodySize>>
    <2>1. bodyExpected' \in Nat /\ bodyExpected' <= MaxBody
      BY <1>3, ParserAssumption DEF IInv, Sizes, MemoryBounded
    <2>2. bodySize <= bodyExpected'
      BY <1>1, <2>1 DEF IInv, Sizes
    <2>3. Places'
      BY <1>1, <1>3 DEF IInv, Places, States, input
    <2>4. Sizes' /\ MemoryBounded'
      BY <1>1, <1>3, <2>1, <2>2 DEF IInv, Sizes, MemoryBounded
    <2>. QED BY <2>3, <2>4 DEF IInv
  <1>. QED BY <1>2, <1>3 DEF ParseHeadersEnd

LEMMA BodyKeeps ==
    ASSUME IInv, ParseBody
    PROVE  IInv'
  <1>1. bodyExpected - bodySize \in Nat /\ read - pos \in Nat
    BY DEF IInv, Places, Sizes, MemoryBounded
  <1>2. /\ Take \in Nat /\ Take <= bodyExpected - bodySize /\ Take <= read - pos
        /\ Take < bodyExpected - bodySize => Take = read - pos
    BY <1>1, LeastBounds DEF Take
  <1>3. /\ pos' = pos + Take /\ bodySize' = bodySize + Take
        /\ UNCHANGED <<input, read, headers, bodyExpected>>
        /\ \/ pc' = pc /\ pc = "parse" /\ state' = "done"
           \/ pc' = "wait" /\ state' = "body" /\ bodySize' < bodyExpected
    BY <1>1, <1>2 DEF ParseBody, IInv, Sizes
  <1>4. pos' \in 0 .. read /\ bodySize' \in Nat /\ bodySize' <= bodyExpected
    BY <1>1, <1>2, <1>3 DEF IInv, Places, Sizes
  <1>5. pc' = "wait" => read - pos' = 0
    BY <1>1, <1>2, <1>3 DEF IInv, Places, Sizes
  <1>6. Places'
    BY <1>3, <1>4 DEF IInv, Places, States, Labels, input
  <1>7. Sizes'
    BY <1>3, <1>4 DEF IInv, Sizes
  <1>8. pc' = "wait" => read' - pos' <= MaxLine /\ read' = pos'
    BY <1>3, <1>4, <1>5, ParserAssumption DEF IInv, Places
  <1>9. MemoryBounded'
    BY <1>3, <1>4, <1>8 DEF IInv, MemoryBounded
  <1>. QED BY <1>6, <1>7, <1>9 DEF IInv

LEMMA DoneKeeps ==
    ASSUME IInv, RequestDone
    PROVE  IInv'
  <1>1. pos' = pos /\ pos \in 0 .. read /\ read \in Nat
    BY DEF RequestDone, IInv, Places
  <1>2. pc' \in Labels /\ (pc' = "wait" => pos' = read)
    BY <1>1 DEF RequestDone, Labels
  <1>. QED BY <1>1, <1>2, ResetKeeps DEF RequestDone

LEMMA FileDoneKeeps ==
    ASSUME IInv, FileDone
    PROVE  IInv'
  <1>1. /\ pc = "file" /\ pc' \in {"held", "wait", "closed"}
        /\ UNCHANGED <<input, read, pos, request>>
    BY DEF FileDone
  <1>2. state = "line" /\ Places'
    BY <1>1 DEF IInv, Places, Labels, input, request
  <1>3. pc' = "wait" => read - pos <= MaxLine
    BY ParserAssumption DEF FileDone, IInv, Places
  <1>4. Sizes' /\ MemoryBounded'
    BY <1>1, <1>2, <1>3 DEF IInv, Sizes, MemoryBounded, request
  <1>. QED BY <1>2, <1>4 DEF IInv

LEMMA NextIInv == IInv /\ [Next]_vars => IInv'
  <1>. SUFFICES ASSUME IInv, [Next]_vars PROVE IInv'
    OBVIOUS
  <1>1. CASE UNCHANGED vars
    BY <1>1 DEF vars, input, request, IInv, Places, Sizes, MemoryBounded
  <1>2. CASE \E n \in 1 .. ReadMax : Receive(n)
    BY <1>2, ReceiveKeeps
  <1>3. CASE Parse
    <2>1. ASSUME NEW k \in pos + 1 .. read - 1, ParseLine(k) PROVE IInv'
      BY <2>1, RequestLineKeeps, HeaderKeeps, HeadersEndKeeps DEF ParseLine
    <2>. QED BY <1>3, <2>1, LineMissingKeeps, BodyKeeps, DoneKeeps DEF Parse
  <1>. QED BY <1>1, <1>2, <1>3, FileDoneKeeps DEF Next

\* Whatever the client sends and however it arrives, when parseHttpRequest asks
\* for more data at most one line is in the buffer, and headers and body stay
\* within their limits.  What piles up while the caller does not parse is not
\* bounded by anything (HttpRequest.cpp:664, 704, 731-736, 742, 765-782).
THEOREM ParserIsBounded == Spec => []MemoryBounded
  <1>1. IInv => MemoryBounded
    BY DEF IInv
  <1>. QED BY <1>1, InitIInv, NextIInv, PTL DEF Spec
-----------------------------------------------------------------------------
\* Exactly the requests: between two requests the parser stands at the end of
\* the first, within one at the end of a line, having taken the lines before
\* it, or in the body.
Done == Len(results)

\* The request the parser is at, and where it begins.
Now == script[Done + 1]

Begin == RequestEnd(script, Done)

\* From p on: z bytes of a line, and CR LF.
LineHere(p, z) ==
    /\ \A k \in 1 .. z : stream[p + k].char = "text"
    /\ stream[p + z + 1].char = "cr" /\ stream[p + z + 2].char = "lf"

LEMMA FoundIs ==
    ASSUME NEW p \in Nat, pos = p, read \in Nat, NEW z \in Nat, LineHere(p, z),
           NEW k, Found(k)
    PROVE  k = p + z + 1 /\ SizeTo(k) = z
  <1>1. k \in p + 1 .. read - 1 /\ IsCRLF(k) /\ \A j \in p + 1 .. k - 1 : ~IsCRLF(j)
    BY DEF Found
  <1>2. CASE k < p + z + 1
    <2>1. k - p \in 1 .. z /\ p + (k - p) = k
      BY <1>1, <1>2
    <2>2. stream[k].char = "text"
      BY <2>1 DEF LineHere
    <2>. QED BY <1>1, <2>2 DEF IsCRLF
  <1>3. CASE k > p + z + 1
    <2>1. p + z + 1 \in p + 1 .. k - 1 /\ (p + z + 1) + 1 = p + z + 2
      BY <1>1, <1>3
    <2>2. IsCRLF(p + z + 1)
      BY <2>1 DEF LineHere, IsCRLF
    <2>. QED BY <1>1, <2>1, <2>2
  <1>4. k = p + z + 1
    BY <1>1, <1>2, <1>3
  <1>. QED BY <1>4 DEF SizeTo

LEMMA MissingIs ==
    ASSUME NEW p \in Nat, pos = p, read \in Nat, NEW z \in Nat, LineHere(p, z), NoneFound
    PROVE  read < p + z + 2
  <1>. SUFFICES ASSUME read >= p + z + 2 PROVE FALSE
    OBVIOUS
  <1>1. p + z + 1 \in p + 1 .. read - 1 /\ (p + z + 1) + 1 = p + z + 2
    OBVIOUS
  <1>2. IsCRLF(p + z + 1)
    BY <1>1 DEF LineHere, IsCRLF
  <1>. QED BY <1>1, <1>2 DEF NoneFound

\* The client and what is known of its requests.
Honest ==
    /\ script \in Scripts /\ stream = Bytes(script)
    /\ results \in Seq(Verdicts) /\ Len(results) <= Len(script)

LEMMA DoneIs ==
    ASSUME Honest
    PROVE  /\ Done \in Nat /\ DOMAIN results = 1 .. Done /\ Len(script) \in Nat
           /\ Done <= Len(script) /\ Begin \in Nat
           /\ Done = Len(script) => Begin = Len(stream)
  <1>1. Done \in Nat /\ DOMAIN results = 1 .. Done
    BY LenProperties DEF Honest, Done
  <1>2. Len(script) \in Nat /\ Done <= Len(script)
    BY ScriptIs DEF Honest, Done
  <1>3. Done \in 0 .. Len(script)
    BY <1>1, <1>2
  <1>4. Begin \in Nat /\ (Done = Len(script) => Begin = Len(stream))
    BY <1>3, ScriptIs DEF Honest, Begin
  <1>. QED BY <1>1, <1>2, <1>4

\* The bytes of the request the parser is at.
LEMMA NowIs ==
    ASSUME Honest, Done < Len(script)
    PROVE  /\ Now \in Requests /\ Total(Now) \in Nat
           /\ RequestEnd(script, Done + 1) = Begin + Total(Now)
           /\ Begin + Total(Now) <= Len(stream)
           /\ \A k \in 1 .. Total(Now) : stream[Begin + k] = RequestBytes(Now)[k]
           /\ Verdict(Now) = "ok" => Len(Now.body) = LengthOf(Now)
  <1>. PICK n \in Nat : n = Done
    BY DoneIs
  <1>1. n + 1 \in 1 .. Len(script) /\ n + 1 \in 0 .. Len(script) /\ (n + 1) - 1 = n
    BY DoneIs
  <1>2. /\ script[n + 1] \in Requests
        /\ Verdict(script[n + 1]) = "ok" => Len(script[n + 1].body) = LengthOf(script[n + 1])
        /\ RequestEnd(script, n + 1) \in Nat /\ RequestEnd(script, n + 1) <= Len(stream)
        /\ RequestEnd(script, n + 1) = RequestEnd(script, n) + Total(script[n + 1])
        /\ \A k \in 1 .. Total(script[n + 1]) :
             stream[RequestEnd(script, n) + k] = RequestBytes(script[n + 1])[k]
    <2>. PICK s \in Scripts : s = script /\ stream = Bytes(s)
      BY DEF Honest
    <2>1. s[n + 1] \in Requests
      BY <1>1, ScriptIs
    <2>2. Verdict(s[n + 1]) = "ok" => Len(s[n + 1].body) = LengthOf(s[n + 1])
      BY <1>1, ScriptIs
    <2>3. RequestEnd(s, n + 1) \in Nat /\ RequestEnd(s, n + 1) <= Len(Bytes(s))
      BY <1>1, ScriptIs
    <2>4. /\ RequestEnd(s, n + 1) = RequestEnd(s, n) + Total(s[n + 1])
          /\ \A k \in 1 .. Total(s[n + 1]) :
               Bytes(s)[RequestEnd(s, n) + k] = RequestBytes(s[n + 1])[k]
      BY <1>1, ScriptIs
    <2>. QED BY <2>1, <2>2, <2>3, <2>4
  <1>3. Total(script[n + 1]) \in Nat
    BY <1>2, RequestIs, LenProperties DEF Total
  <1>. QED BY <1>2, <1>3 DEF Now, Begin

\* No request is without bytes.
LEMMA RequestIsLong ==
    ASSUME NEW q \in Requests
    PROVE  Total(q) \in Nat /\ Total(q) >= 2
  <1>1. PICK n \in Nat : n = Len(q.lines)
    BY RequestIs
  <1>2. PICK p \in Nat : p = LineEnd(q, n)
    <2>1. n \in 0 .. n
      OBVIOUS
    <2>. QED BY <1>1, <2>1, RequestIs
  <1>3. PICK c \in Nat : c = Len(q.body)
    BY RequestIs
  <1>4. Total(q) = p + 2 + c
    BY <1>1, <1>2, <1>3, RequestIs
  <1>. QED BY <1>4

\* What the stream holds of line j, and of the empty line.
LEMMA LineAt ==
    ASSUME Honest, Done < Len(script), NEW j \in 1 .. Len(Now.lines)
    PROVE  /\ Now.lines[j] \in Lines
           /\ Begin + LineEnd(Now, j - 1) \in Nat
           /\ Now.lines[j].size \in Nat /\ Now.lines[j].size >= 1
           /\ LineHere(Begin + LineEnd(Now, j - 1), Now.lines[j].size)
           /\ \A k \in 1 .. Now.lines[j].size :
                stream[Begin + LineEnd(Now, j - 1) + k] = Byte("text", Now.lines[j], k)
           /\ Begin + LineEnd(Now, j) = Begin + LineEnd(Now, j - 1) + Now.lines[j].size + 2
           /\ Begin + LineEnd(Now, j) < Begin + Total(Now)
  <1>a. PICK q \in Requests : q = Now
    BY NowIs
  <1>b. PICK b \in Nat : b = Begin
    BY DoneIs
  <1>c. PICK n \in Nat : n = Len(q.lines) /\ n >= 1
    BY RequestIs
  <1>0. j \in 1 .. n /\ j - 1 \in 0 .. n /\ j \in 0 .. n /\ n \in 0 .. n
    BY <1>a, <1>c
  <1>1. q.lines[j] \in Lines
    BY <1>0, <1>c, RequestIs
  <1>z. PICK z \in Nat : z = q.lines[j].size /\ z >= 1
    BY <1>1, LineIs
  <1>2. LineEnd(q, j - 1) \in Nat /\ LineEnd(q, n) \in Nat /\ LineEnd(q, j) <= LineEnd(q, n)
    BY <1>0, <1>c, RequestIs
  <1>p. PICK p \in Nat : p = LineEnd(q, j - 1)
    BY <1>2
  <1>3. LineEnd(q, j) = p + z + 2
    BY <1>0, <1>c, <1>p, <1>z, RequestIs
  <1>4. \A k \in 1 .. z + 2 : RequestBytes(q)[p + k] = LineBytes(q.lines[j])[k]
    BY <1>0, <1>c, <1>p, <1>z, RequestIs, SMTT(30)
  <1>5. PICK c \in Nat : Total(q) = LineEnd(q, n) + 2 + c
    BY <1>c, RequestIs
  <1>6. PICK t \in Nat : t = Total(q) /\ p + z + 2 < t
    BY <1>2, <1>3, <1>5
  <1>7. \A k \in 1 .. t : stream[b + k] = RequestBytes(q)[k]
    BY <1>a, <1>b, <1>6, NowIs
  <1>8. ASSUME NEW k \in 1 .. z + 2 PROVE stream[b + p + k] = LineBytes(q.lines[j])[k]
    <2>1. p + k \in 1 .. t /\ b + (p + k) = b + p + k
      BY <1>6
    <2>. QED BY <1>4, <1>7, <2>1
  <1>9. /\ \A k \in 1 .. z : LineBytes(q.lines[j])[k] = Byte("text", q.lines[j], k)
        /\ LineBytes(q.lines[j])[z + 1] = Byte("cr", Bad, 0)
        /\ LineBytes(q.lines[j])[z + 2] = Byte("lf", Bad, 0)
    BY <1>1, <1>z, LineIs
  <1>10. \A k \in 1 .. z : stream[b + p + k] = Byte("text", q.lines[j], k)
    <2>. TAKE k \in 1 .. z
    <2>1. k \in 1 .. z + 2
      OBVIOUS
    <2>. QED BY <1>8, <1>9, <2>1
  <1>11. LineHere(b + p, z)
    <2>1. z + 1 \in 1 .. z + 2 /\ z + 2 \in 1 .. z + 2
          /\ b + p + z + 1 = b + p + (z + 1) /\ b + p + z + 2 = b + p + (z + 2)
      OBVIOUS
    <2>2. /\ stream[b + p + z + 1] = Byte("cr", Bad, 0)
          /\ stream[b + p + z + 2] = Byte("lf", Bad, 0)
      BY <1>8, <1>9, <2>1
    <2>3. stream[b + p + z + 1].char = "cr" /\ stream[b + p + z + 2].char = "lf"
      BY <2>2 DEF Byte
    <2>4. \A k \in 1 .. z : stream[b + p + k].char = "text"
      <3>1. \A k \in 1 .. z : Byte("text", q.lines[j], k).char = "text"
        BY DEF Byte
      <3>. QED BY <1>10, <3>1, Zenon
    <2>. QED BY <2>3, <2>4 DEF LineHere
  <1>12. b + LineEnd(q, j) = b + p + z + 2 /\ b + LineEnd(q, j) < b + Total(q)
    BY <1>3, <1>6
  <1>. QED BY <1>a, <1>b, <1>z, <1>p, <1>1, <1>10, <1>11, <1>12, SMTT(30)

LEMMA EmptyLineAt ==
    ASSUME Honest, Done < Len(script)
    PROVE  LET p == Begin + LineEnd(Now, Len(Now.lines)) IN
           /\ p \in Nat /\ LineHere(p, 0) /\ Len(Now.body) \in Nat
           /\ p + 2 + Len(Now.body) = Begin + Total(Now)
  <1>a. PICK q \in Requests : q = Now
    BY NowIs
  <1>b. PICK b \in Nat : b = Begin
    BY DoneIs
  <1>c. PICK n \in Nat : n = Len(q.lines) /\ n >= 1
    BY RequestIs
  <1>0. n \in 0 .. n
    OBVIOUS
  <1>p. PICK p \in Nat : p = LineEnd(q, n)
    BY <1>0, <1>c, RequestIs
  <1>d. PICK c \in Nat : c = Len(q.body)
    BY RequestIs
  <1>1. PICK t \in Nat : t = Total(q) /\ t = p + 2 + c
    BY <1>c, <1>d, <1>p, RequestIs
  <1>2. RequestBytes(q)[p + 1] = Byte("cr", Bad, 0) /\ RequestBytes(q)[p + 2] = Byte("lf", Bad, 0)
    BY <1>c, <1>p, RequestIs
  <1>3. \A k \in 1 .. t : stream[b + k] = RequestBytes(q)[k]
    BY <1>a, <1>b, <1>1, NowIs
  <1>4. p + 1 \in 1 .. t /\ p + 2 \in 1 .. t
        /\ b + p + 0 + 1 = b + (p + 1) /\ b + p + 0 + 2 = b + (p + 2)
    BY <1>1
  <1>5. /\ stream[b + p + 0 + 1] = Byte("cr", Bad, 0)
        /\ stream[b + p + 0 + 2] = Byte("lf", Bad, 0)
    BY <1>2, <1>3, <1>4
  <1>6. LineHere(b + p, 0)
    <2>1. \A k \in 1 .. 0 : stream[b + p + k].char = "text"
      OBVIOUS
    <2>2. /\ stream[b + p + 0 + 1].char = "cr"
          /\ stream[b + p + 0 + 2].char = "lf"
      BY <1>5 DEF Byte
    <2>. QED BY <2>1, <2>2 DEF LineHere
  <1>7. b + p \in Nat /\ b + p + 2 + c = b + t
    BY <1>1
  <1>. QED BY <1>a, <1>b, <1>c, <1>d, <1>p, <1>1, <1>6, <1>7
-----------------------------------------------------------------------------
\* The lines of a request up to the j-th have been taken ...
LinesDone(q, j) ==
    /\ q.lines[1].kind = "request"
    /\ \A i \in 2 .. j : /\ q.lines[i].kind = "header"
                         /\ Cardinality(HeaderNames(q, i - 1)) < MaxHeaders
    /\ \A i \in 1 .. j : q.lines[i].size <= MaxLine

\* ... and this is what they leave in the headers: of every name the value of
\* the last line with it.
HeadersOf(h, q, j) ==
    /\ DOMAIN h = HeaderNames(q, j)
    /\ \A m \in DOMAIN h : \E i \in 2 .. j :
         /\ q.lines[i].name = m /\ h[m] = q.lines[i].value
         /\ \A g \in i + 1 .. j : q.lines[g].name # m

AtLine == pos = Begin /\ bodyExpected = 0 /\ headers = NoHeaders

AtHeader ==
    /\ Done < Len(script) /\ bodyExpected = 0
    /\ \E j \in 1 .. Len(Now.lines) :
         pos = Begin + LineEnd(Now, j) /\ LinesDone(Now, j) /\ HeadersOf(headers, Now, j)

AtBody ==
    /\ Done < Len(script) /\ Verdict(Now) = "ok" /\ bodyExpected = Len(Now.body)
    /\ pos = Begin + LineEnd(Now, Len(Now.lines)) + 2 + bodySize

AtEnd ==
    /\ Done < Len(script) /\ Verdict(Now) = "ok" /\ pos = Begin + Total(Now)

\* Where the parser stands between the beginning and the end of a request.
Standing ==
    pc # "closed" =>
        /\ state = "line" => AtLine
        /\ state = "headers" => AtHeader
        /\ state = "body" => AtBody
        /\ state = "done" => AtEnd

Waiting ==
    pc = "wait" /\ Done < Len(script) => read < Begin + Total(Now)

EInv == IInv /\ Honest /\ VerdictExact /\ Standing /\ Waiting

LEMMA InitEInv == Init => EInv
  <1>. SUFFICES ASSUME Init PROVE EInv
    OBVIOUS
  <1>1. IInv
    BY InitIInv
  <1>2. Honest
    <2>1. results = <<>> /\ script \in Scripts /\ stream = Bytes(script)
      BY DEF Init
    <2>2. Len(script) \in Nat
      BY <2>1, ScriptIs
    <2>. QED BY <2>1, <2>2 DEF Honest
  <1>3. results = <<>> /\ Done = 0 /\ DOMAIN results = {}
    BY DEF Init, Done
  <1>4. VerdictExact
    BY <1>3 DEF VerdictExact
  <1>5. Begin = 0
    BY <1>2, <1>3, ScriptIs DEF Begin, Honest
  <1>6. Standing
    BY <1>5 DEF Standing, Init, AtLine
  <1>7. Waiting
    <2>. SUFFICES ASSUME Done < Len(script) PROVE read < Begin + Total(Now)
      BY DEF Waiting
    <2>1. PICK t \in Nat : t = Total(Now)
      BY <1>2, NowIs
    <2>2. 1 \in 1 .. Len(Now.lines)
      BY <1>2, NowIs, RequestIs
    <2>3. Begin + LineEnd(Now, 1) < Begin + Total(Now) /\ LineEnd(Now, 1) \in Nat
      <3>1. Begin + LineEnd(Now, 1) < Begin + Total(Now)
        BY <1>2, <2>2, LineAt
      <3>2. PICK q \in Requests : q = Now
        BY <1>2, NowIs
      <3>3. 1 \in 0 .. Len(q.lines)
        BY <3>2, RequestIs
      <3>4. LineEnd(q, 1) \in Nat
        BY <3>3, RequestIs
      <3>. QED BY <3>1, <3>2, <3>4
    <2>. QED BY <1>5, <2>1, <2>3 DEF Init
  <1>. QED BY <1>1, <1>2, <1>4, <1>6, <1>7 DEF EInv

LEMMA ReceiveEInv ==
    ASSUME EInv, NEW n \in 1 .. ReadMax, Receive(n)
    PROVE  EInv'
  <1>1. IInv'
    BY ReceiveKeeps DEF EInv
  <1>2. /\ pc' # "wait" /\ (pc' # "closed" => pc # "closed")
        /\ UNCHANGED <<script, stream, pos, state, headers, bodyExpected, bodySize, results>>
    BY DEF Receive, input, request
  <1>3. Done' = Done /\ Begin' = Begin /\ Now' = Now
    BY <1>2 DEF Done, Begin, Now
  <1>4. Honest' /\ VerdictExact'
    BY <1>2 DEF EInv, Honest, VerdictExact
  <1>5. Standing'
    BY <1>2, <1>3 DEF EInv, Standing, AtLine, AtHeader, AtBody, AtEnd
  <1>6. Waiting'
    BY <1>2 DEF Waiting
  <1>. QED BY <1>1, <1>4, <1>5, <1>6 DEF EInv

\* A request is over with a verdict.
LEMMA AppendIs ==
    ASSUME Honest, Done < Len(script), NEW v \in Verdicts,
           results' = Append(results, v), UNCHANGED <<script, stream>>
    PROVE  /\ Honest' /\ Done' = Done + 1
           /\ VerdictExact /\ (v = Verdict(Now) \/ (v = "bad" /\ OnTheEdge(Now))) =>
                VerdictExact'
  <1>1. Done \in Nat /\ DOMAIN results = 1 .. Done /\ Len(script) \in Nat
    BY DoneIs
  <1>2. results \in Seq(Verdicts) /\ Len(results) = Done
    BY DEF Honest, Done
  <1>3. /\ results' \in Seq(Verdicts) /\ Len(results') = Done + 1
        /\ \A i \in 1 .. Done : results'[i] = results[i]
        /\ results'[Done + 1] = v
    <2>1. PICK S : S = Verdicts
      OBVIOUS
    <2>2. PICK r \in Seq(S) : r = results
      BY <1>2, <2>1, Zenon
    <2>3. PICK w \in S : w = v
      BY <2>1, Zenon
    <2>4. PICK n \in Nat : n = Done /\ Len(r) = n
      BY <1>1, <1>2, <2>2
    <2>5. /\ Append(r, w) \in Seq(S) /\ Len(Append(r, w)) = n + 1
          /\ \A i \in 1 .. n : Append(r, w)[i] = r[i]
          /\ Append(r, w)[n + 1] = w
      BY <2>4, AppendProperties
    <2>6. results' = Append(r, w)
      BY <2>2, <2>3, Zenon
    <2>. QED BY <2>1, <2>2, <2>3, <2>4, <2>5, <2>6, Zenon
  <1>4. Honest'
    <2>1. Len(results') <= Len(script')
      BY <1>1, <1>3
    <2>2. script' \in Scripts /\ stream' = Bytes(script')
      BY DEF Honest
    <2>. QED BY <1>3, <2>1, <2>2, Zenon DEF Honest
  <1>5. ASSUME VerdictExact, v = Verdict(Now) \/ (v = "bad" /\ OnTheEdge(Now))
        PROVE  VerdictExact'
    <2>1. DOMAIN results' = 1 .. Done + 1
      BY <1>1, <1>3, LenProperties
    <2>2. \A i \in 1 .. Done + 1 :
            \/ results'[i] = Verdict(script[i])
            \/ results'[i] = "bad" /\ OnTheEdge(script[i])
      BY <1>1, <1>3, <1>5 DEF VerdictExact, Now
    <2>3. \A q : OnTheEdge(q)' = OnTheEdge(q)
      OBVIOUS
    <2>. QED BY <2>1, <2>2 DEF VerdictExact
  <1>. QED BY <1>3, <1>4, <1>5 DEF Done

\* The parser gives up on a request for a reason the request has.
LEMMA FailEInv ==
    ASSUME EInv, Done < Len(script), UNCHANGED <<input, read>>, IInv',
           NEW v \in Verdicts, Fail(v), v = Verdict(Now) \/ (v = "bad" /\ OnTheEdge(Now))
    PROVE  EInv'
  <1>1. Honest' /\ VerdictExact'
    BY AppendIs DEF EInv, Fail, input
  <1>2. Standing' /\ Waiting'
    BY DEF Fail, Standing, Waiting
  <1>. QED BY <1>1, <1>2 DEF EInv

\* When no bytes are left to parse no request is begun.
LEMMA SomethingLeft ==
    ASSUME EInv, pc = "parse", state = "line", pos < read
    PROVE  Done < Len(script)
  <1>1. pos \in Nat /\ read \in Nat /\ Len(stream) \in Nat /\ read <= Len(stream)
    BY DEF EInv, IInv, Places
  <1>2. Done = Len(script) => pos = Len(stream)
    BY DoneIs DEF EInv, Standing, AtLine
  <1>. QED BY <1>1, <1>2, DoneIs DEF EInv

\* A line that is too long, of no kind or one too many spoils its request.
LEMMA Spoilt ==
    ASSUME NEW q \in Requests, ~LinesOk(q)
    PROVE  Verdict(q) = "bad"
  BY DEF Verdict

\* What the parser stands before.
LEMMA Before ==
    ASSUME EInv, pc # "closed", state \in {"line", "headers"}, Done < Len(script)
    PROVE  \E j \in 0 .. Len(Now.lines) :
             /\ state = "line" => j = 0
             /\ state = "headers" => j >= 1 /\ LinesDone(Now, j) /\ HeadersOf(headers, Now, j)
             /\ LineEnd(Now, j) \in Nat
             /\ pos = Begin + LineEnd(Now, j) /\ Len(Now.lines) \in Nat /\ Len(Now.lines) >= 1
             /\ j < Len(Now.lines) =>
                  LineHere(pos, Now.lines[j + 1].size) /\ Now.lines[j + 1].size \in Nat
             /\ j = Len(Now.lines) => LineHere(pos, 0)
  <1>a. PICK q \in Requests : q = Now
    BY NowIs DEF EInv
  <1>b. PICK b \in Nat : b = Begin
    BY DoneIs DEF EInv
  <1>c. PICK n \in Nat : n = Len(q.lines) /\ n >= 1
    BY RequestIs
  <1>1. ASSUME NEW j \in 0 .. n, pos = Begin + LineEnd(q, j)
        PROVE  /\ LineEnd(q, j) \in Nat
               /\ j < n => LineHere(pos, q.lines[j + 1].size) /\ q.lines[j + 1].size \in Nat
               /\ j = n => LineHere(pos, 0)
    <2>1. LineEnd(q, j) \in Nat
      BY <1>c, RequestIs
    <2>2. ASSUME j < n PROVE LineHere(pos, q.lines[j + 1].size) /\ q.lines[j + 1].size \in Nat
      <3>1. PICK i \in 1 .. n : i = j + 1 /\ i - 1 = j
        BY <2>2
      <3>2. LineHere(Begin + LineEnd(Now, i - 1), Now.lines[i].size) /\ Now.lines[i].size \in Nat
        BY <1>a, <1>c, LineAt DEF EInv
      <3>. QED BY <1>1, <1>a, <3>1, <3>2
    <2>3. ASSUME j = n PROVE LineHere(pos, 0)
      BY <1>1, <1>a, <1>c, <2>3, EmptyLineAt DEF EInv
    <2>. QED BY <2>1, <2>2, <2>3
  <1>2. CASE state = "line"
    <2>1. pos = Begin
      BY <1>2 DEF EInv, Standing, AtLine
    <2>2. LineEnd(q, 0) = 0
      BY RequestIs
    <2>3. 0 \in 0 .. n /\ pos = Begin + LineEnd(q, 0)
      BY <1>b, <2>1, <2>2
    <2>4. /\ LineEnd(q, 0) \in Nat
          /\ 0 < n => LineHere(pos, q.lines[0 + 1].size) /\ q.lines[0 + 1].size \in Nat
          /\ 0 = n => LineHere(pos, 0)
      BY <1>1, <2>3
    <2>. QED BY <1>2, <1>a, <1>c, <2>3, <2>4
  <1>3. CASE state = "headers"
    <2>1. PICK j \in 1 .. n : /\ pos = Begin + LineEnd(q, j)
                              /\ LinesDone(q, j) /\ HeadersOf(headers, q, j)
      BY <1>3, <1>a, <1>c DEF EInv, Standing, AtHeader
    <2>2. j \in 0 .. n /\ j >= 1
      OBVIOUS
    <2>3. /\ LineEnd(q, j) \in Nat
          /\ j < n => LineHere(pos, q.lines[j + 1].size) /\ q.lines[j + 1].size \in Nat
          /\ j = n => LineHere(pos, 0)
      BY <1>1, <2>1, <2>2
    <2>. QED BY <1>3, <1>a, <1>c, <2>1, <2>2, <2>3
  <1>. QED BY <1>2, <1>3

LEMMA LineMissingEInv ==
    ASSUME EInv, LineMissing
    PROVE  EInv'
  <1>1. /\ pc = "parse" /\ state \in {"line", "headers"} /\ NoneFound
        /\ UNCHANGED <<input, read, pos>>
    BY DEF LineMissing
  <1>2. IInv'
    BY LineMissingKeeps DEF EInv
  <1>p. PICK p \in Nat : p = pos
    BY DEF EInv, IInv, Places
  <1>r. PICK r \in Nat : r = read /\ p <= r
    BY <1>p DEF EInv, IInv, Places
  \* How much there is before the end of the line.
  <1>3. ASSUME Done < Len(script)
        PROVE  /\ read < Begin + Total(Now)
               /\ TooLong(read - pos) => Verdict(Now) = "bad" \/ OnTheEdge(Now)
    <2>a. PICK q \in Requests : q = Now
      BY <1>3, NowIs DEF EInv
    <2>b. PICK b \in Nat : b = Begin
      BY DoneIs DEF EInv
    <2>c. PICK n \in Nat : n = Len(q.lines) /\ n >= 1
      BY RequestIs
    <2>t. PICK t \in Nat : t = Total(q)
      BY <1>3, <2>a, NowIs DEF EInv
    <2>1. PICK j \in 0 .. n :
             /\ LineEnd(q, j) \in Nat
             /\ pos = Begin + LineEnd(q, j)
             /\ j < n => LineHere(pos, q.lines[j + 1].size) /\ q.lines[j + 1].size \in Nat
             /\ j = n => LineHere(pos, 0)
      BY <1>1, <1>3, <2>a, <2>c, Before
    <2>2. CASE j < n
      <3>1. PICK i \in 1 .. n : i = j + 1 /\ i - 1 = j
        BY <2>2
      <3>2. PICK z \in Nat : z = q.lines[i].size /\ LineHere(p, z)
        BY <1>p, <2>1, <2>2, <3>1
      <3>3. r < p + z + 2
        BY <1>1, <1>p, <1>r, <3>2, MissingIs
      <3>4. /\ Begin + LineEnd(q, i) = Begin + LineEnd(q, i - 1) + q.lines[i].size + 2
            /\ Begin + LineEnd(q, i) < Begin + Total(q)
        BY <1>3, <2>a, <2>c, LineAt DEF EInv
      <3>5. p + z + 2 < Begin + Total(q)
        BY <1>p, <2>1, <3>1, <3>2, <3>4
      <3>6. r < Begin + Total(q)
        BY <2>b, <2>t, <3>3, <3>5
      <3>7. ASSUME TooLong(read - pos) PROVE Verdict(q) = "bad" \/ OnTheEdge(q)
        <4>1. z >= MaxLine
          BY <1>p, <1>r, <3>3, <3>7, ParserAssumption DEF TooLong
        <4>2. i \in DOMAIN q.lines
          BY <2>c, RequestIs
        <4>3. CASE z = MaxLine
          BY <3>2, <4>2, <4>3 DEF OnTheEdge
        <4>4. CASE z # MaxLine
          <5>1. ~(q.lines[i].size <= MaxLine)
            BY <3>2, <4>1, <4>4, ParserAssumption
          <5>2. ~LinesOk(q)
            BY <4>2, <5>1 DEF LinesOk
          <5>. QED BY <5>2, Spoilt
        <4>. QED BY <4>3, <4>4
      <3>. QED BY <1>r, <2>a, <3>6, <3>7
    <2>3. CASE j = n
      <3>1. LineHere(p, 0)
        BY <1>p, <2>1, <2>3
      <3>2. r < p + 0 + 2
        BY <1>1, <1>p, <1>r, <3>1, MissingIs
      <3>3. ~TooLong(read - pos)
        BY <1>p, <1>r, <3>2, ParserAssumption DEF TooLong
      <3>c. PICK c \in Nat : c = Len(q.body)
        BY RequestIs
      <3>4. pos + 2 + Len(q.body) = Begin + Total(q)
        BY <1>3, <2>a, <2>c, <2>1, <2>3, EmptyLineAt DEF EInv
      <3>5. r < Begin + Total(q)
        <4>1. p + 2 + c = b + t
          BY <1>p, <2>b, <2>t, <3>4, <3>c
        <4>2. r < b + t
          BY <3>2, <4>1
        <4>. QED BY <2>b, <2>t, <4>2
      <3>. QED BY <1>r, <2>a, <3>3, <3>5
    <2>. QED BY <2>2, <2>3
  <1>4. CASE TooLong(read - pos)
    <2>1. Fail("bad")
      BY <1>4 DEF LineMissing
    <2>2. Done < Len(script)
      <3>1. pos < read
        BY <1>4, <1>p, <1>r, ParserAssumption DEF TooLong
      <3>2. state = "headers" => Done < Len(script)
        BY <1>1 DEF EInv, Standing, AtHeader
      <3>. QED BY <1>1, <3>1, <3>2, SomethingLeft
    <2>3. "bad" \in Verdicts /\ UNCHANGED <<input, read>>
      <3>1. "bad" \in Verdicts
        BY DEF Verdicts
      <3>. QED BY <1>1, <3>1, Zenon
    <2>4. "bad" = Verdict(Now) \/ ("bad" = "bad" /\ OnTheEdge(Now))
      BY <1>3, <1>4, <2>2
    <2>. QED BY <1>2, <2>1, <2>2, <2>3, <2>4, FailEInv
  <1>5. CASE ~TooLong(read - pos)
    <2>1. /\ pc' = "wait"
          /\ UNCHANGED <<script, stream, read, pos, state, headers, bodyExpected, bodySize, results>>
      BY <1>1, <1>5 DEF LineMissing, request, input
    <2>2. Done' = Done /\ Begin' = Begin /\ Now' = Now
      BY <2>1 DEF Done, Begin, Now
    <2>3. Honest' /\ VerdictExact'
      BY <2>1 DEF EInv, Honest, VerdictExact
    <2>4. Standing'
      BY <1>1, <2>1, <2>2 DEF EInv, Standing, AtLine, AtHeader, AtBody, AtEnd
    <2>5. Waiting'
      BY <1>3, <2>1, <2>2 DEF Waiting
    <2>. QED BY <1>2, <2>3, <2>4, <2>5 DEF EInv
  <1>. QED BY <1>4, <1>5

\* What it is that the parser finds.
LEMMA FoundLine ==
    ASSUME EInv, pc # "closed", state \in {"line", "headers"}, Done < Len(script),
           NEW k, Found(k)
    PROVE  \E j \in 0 .. Len(Now.lines) :
             /\ Len(Now.lines) \in Nat /\ Len(Now.lines) >= 1
             /\ state = "line" => j = 0
             /\ state = "headers" => j >= 1 /\ LinesDone(Now, j) /\ HeadersOf(headers, Now, j)
             /\ j < Len(Now.lines) =>
                  /\ SizeTo(k) \in Nat /\ SizeTo(k) >= 1 /\ SizeTo(k) = Now.lines[j + 1].size
                  /\ LineTo(k) = Now.lines[j + 1]
                  /\ k + 1 = Begin + LineEnd(Now, j + 1)
             /\ j = Len(Now.lines) =>
                  /\ SizeTo(k) = 0
                  /\ k + 1 = Begin + LineEnd(Now, j) + 2
  <1>p. PICK p \in Nat : p = pos /\ read \in Nat
    BY DEF EInv, IInv, Places
  <1>a. PICK q \in Requests : q = Now
    BY NowIs DEF EInv
  <1>b. PICK b \in Nat : b = Begin
    BY DoneIs DEF EInv
  <1>c. PICK n \in Nat : n = Len(q.lines) /\ n >= 1
    BY RequestIs
  <1>1. PICK j \in 0 .. n :
           /\ state = "line" => j = 0
           /\ state = "headers" => j >= 1 /\ LinesDone(q, j) /\ HeadersOf(headers, q, j)
           /\ LineEnd(q, j) \in Nat
           /\ pos = Begin + LineEnd(q, j)
           /\ j < n => LineHere(pos, q.lines[j + 1].size) /\ q.lines[j + 1].size \in Nat
           /\ j = n => LineHere(pos, 0)
    BY <1>a, <1>c, Before
  <1>2. ASSUME j < n
        PROVE  /\ SizeTo(k) \in Nat /\ SizeTo(k) >= 1 /\ SizeTo(k) = q.lines[j + 1].size
               /\ LineTo(k) = q.lines[j + 1]
               /\ k + 1 = Begin + LineEnd(q, j + 1)
    <2>1. PICK i \in 1 .. n : i = j + 1 /\ i - 1 = j
      BY <1>2
    <2>2. PICK z \in Nat : z = q.lines[i].size /\ LineHere(p, z)
      BY <1>p, <1>1, <1>2, <2>1
    <2>3. k = p + z + 1 /\ SizeTo(k) = z
      BY <1>p, <2>2, FoundIs
    <2>4. /\ q.lines[i].size >= 1
          /\ \A h \in 1 .. q.lines[i].size :
               stream[Begin + LineEnd(q, i - 1) + h] = Byte("text", q.lines[i], h)
          /\ Begin + LineEnd(q, i) = Begin + LineEnd(q, i - 1) + q.lines[i].size + 2
      BY <1>a, <1>c, LineAt DEF EInv
    <2>5. Begin + LineEnd(q, i - 1) = p
      BY <1>p, <1>1, <2>1
    <2>6. stream[pos + 1] = Byte("text", q.lines[i], 1)
      <3>1. 1 \in 1 .. z
        BY <2>2, <2>4
      <3>. QED BY <1>p, <2>2, <2>4, <2>5, <3>1
    <2>7. LineTo(k) = q.lines[i]
      <3>1. stream[pos + 1].line = q.lines[i] /\ stream[pos + 1].at = 1
        BY <2>6 DEF Byte
      <3>2. q.lines[i].size = SizeTo(k)
        BY <2>2, <2>3
      <3>. QED BY <3>1, <3>2 DEF LineTo
    <2>8. k + 1 = Begin + LineEnd(q, i)
      BY <2>2, <2>3, <2>4, <2>5, SMTT(30)
    <2>. QED BY <2>1, <2>2, <2>3, <2>4, <2>7, <2>8
  <1>3. ASSUME j = n
        PROVE  SizeTo(k) = 0 /\ k + 1 = Begin + LineEnd(q, j) + 2
    <2>1. LineHere(p, 0)
      BY <1>p, <1>1, <1>3
    <2>2. k = p + 0 + 1 /\ SizeTo(k) = 0
      BY <1>p, <2>1, FoundIs
    <2>3. k + 1 = p + 2
      BY <2>2
    <2>. QED BY <1>p, <1>1, <2>2, <2>3
  <1>. QED BY <1>a, <1>c, <1>1, <1>2, <1>3

\* A step within a request.
LEMMA WithinEInv ==
    ASSUME EInv, UNCHANGED <<input, read, results>>, pc' = "parse", IInv', Standing'
    PROVE  EInv'
  <1>1. UNCHANGED <<script, stream, results>>
    BY DEF input
  <1>2. Honest' /\ VerdictExact'
    BY <1>1 DEF EInv, Honest, VerdictExact
  <1>3. Waiting'
    BY DEF Waiting
  <1>. QED BY <1>2, <1>3 DEF EInv

LEMMA RequestLineEInv ==
    ASSUME EInv, NEW k \in pos + 1 .. read - 1, ParseRequestLine(k)
    PROVE  EInv'
  <1>1. pc = "parse" /\ state = "line" /\ Found(k) /\ UNCHANGED <<input, read>>
    BY DEF ParseRequestLine
  <1>2. IInv'
    BY RequestLineKeeps DEF EInv
  <1>3. Done < Len(script)
    <2>1. pos < read
      BY DEF EInv, IInv, Places
    <2>. QED BY <1>1, <2>1, SomethingLeft
  <1>a. PICK q \in Requests : q = Now
    BY <1>3, NowIs DEF EInv
  <1>c. PICK n \in Nat : n = Len(q.lines) /\ n >= 1 /\ DOMAIN q.lines = 1 .. n
    BY RequestIs
  <1>4. /\ SizeTo(k) \in Nat /\ SizeTo(k) >= 1 /\ SizeTo(k) = q.lines[1].size
        /\ LineTo(k) = q.lines[1] /\ k + 1 = Begin + LineEnd(q, 1)
    <2>1. PICK j \in 0 .. n :
             /\ state = "line" => j = 0
             /\ j < n =>
                  /\ SizeTo(k) \in Nat /\ SizeTo(k) >= 1 /\ SizeTo(k) = q.lines[j + 1].size
                  /\ LineTo(k) = q.lines[j + 1]
                  /\ k + 1 = Begin + LineEnd(q, j + 1)
      BY <1>1, <1>3, <1>a, <1>c, FoundLine
    <2>2. j = 0 /\ j < n /\ j + 1 = 1
      BY <1>1, <1>c, <2>1
    <2>. QED BY <2>1, <2>2
  <1>5. CASE SizeTo(k) > 0 /\ ~TooLong(SizeTo(k)) /\ LineTo(k).kind = "request"
    <2>1. /\ pos' = k + 1 /\ state' = "headers"
          /\ UNCHANGED <<pc, headers, bodyExpected, bodySize, results, script, stream>>
      BY <1>5 DEF ParseRequestLine, input
    <2>2. Done' = Done /\ Begin' = Begin /\ Now' = Now
      BY <2>1 DEF Done, Begin, Now
    <2>3. LinesDone(q, 1)
      <3>1. q.lines[1].size <= MaxLine
        BY <1>4, <1>5, ParserAssumption DEF TooLong
      <3>2. q.lines[1].kind = "request"
        BY <1>4, <1>5
      <3>3. \A i \in 1 .. 1 : i = 1
        OBVIOUS
      <3>4. \A i \in 2 .. 1 : FALSE
        OBVIOUS
      <3>. QED BY <3>1, <3>2, <3>3, <3>4, Zenon DEF LinesDone
    <2>4. HeadersOf(headers, q, 1)
      <3>1. headers = NoHeaders
        BY <1>1 DEF EInv, Standing, AtLine
      <3>2. DOMAIN headers = {}
        BY <3>1 DEF NoHeaders
      <3>3. HeaderNames(q, 1) = {}
        BY DEF HeaderNames
      <3>. QED BY <3>2, <3>3 DEF HeadersOf
    <2>5. bodyExpected = 0
      BY <1>1 DEF EInv, Standing, AtLine
    <2>6. 1 \in 1 .. n
      BY <1>c
    <2>7. AtHeader'
      <3>1. /\ pos' = Begin + LineEnd(q, 1) /\ LinesDone(q, 1) /\ HeadersOf(headers', q, 1)
        BY <1>4, <2>1, <2>3, <2>4
      <3>. DEFINE At(j) == pos' = Begin + LineEnd(q, j) /\ LinesDone(q, j) /\ HeadersOf(headers', q, j)
      <3>2. \E j \in 1 .. n : At(j)
        <4>1. At(1)
          BY <3>1
        <4>. HIDE DEF At
        <4>. QED BY <2>6, <4>1
      <3>3. Now' = q /\ Begin' = Begin /\ n = Len(q.lines)
        BY <1>a, <1>c, <2>2
      <3>4. Done' < Len(script') /\ bodyExpected' = 0
        BY <1>3, <2>1, <2>2, <2>5
      <3>. QED BY <3>2, <3>3, <3>4 DEF AtHeader
    <2>8. Standing'
      BY <2>1, <2>7 DEF Standing
    <2>. QED BY <1>1, <1>2, <2>1, <2>8, WithinEInv
  <1>6. CASE ~(SizeTo(k) > 0 /\ ~TooLong(SizeTo(k)) /\ LineTo(k).kind = "request")
    <2>1. Fail("bad")
      BY <1>6 DEF ParseRequestLine
    <2>2. ~LinesOk(q)
      <3>1. q.lines[1].size > MaxLine \/ q.lines[1].kind # "request"
        BY <1>4, <1>6, ParserAssumption DEF TooLong
      <3>2. 1 \in DOMAIN q.lines
        BY <1>c
      <3>3. q.lines[1].size > MaxLine => ~(q.lines[1].size <= MaxLine)
        BY <1>4, ParserAssumption
      <3>. QED BY <3>1, <3>2, <3>3 DEF LinesOk
    <2>3. "bad" = Verdict(Now)
      BY <1>a, <2>2, Spoilt
    <2>4. "bad" \in Verdicts
      BY DEF Verdicts
    <2>. QED BY <1>1, <1>2, <1>3, <2>1, <2>3, <2>4, FailEInv
  <1>. QED BY <1>5, <1>6

\* A header more.
LEMMA NamesStep ==
    ASSUME NEW q, NEW j \in Nat, j >= 1
    PROVE  HeaderNames(q, j + 1) = HeaderNames(q, j) \cup {q.lines[j + 1].name}
  <1>1. \A i : i \in 2 .. j + 1 <=> i \in 2 .. j \/ i = j + 1
    OBVIOUS
  <1>. QED BY <1>1, Zenon DEF HeaderNames

LEMMA HeadersStep ==
    ASSUME NEW q, NEW j \in Nat, j >= 1, NEW h, HeadersOf(h, q, j), NEW l, l = q.lines[j + 1],
           NEW g, g = [m \in DOMAIN h \cup {l.name} |-> IF m = l.name THEN l.value ELSE h[m]]
    PROVE  HeadersOf(g, q, j + 1)
  <1>1. DOMAIN g = HeaderNames(q, j + 1)
    <2>1. DOMAIN g = DOMAIN h \cup {l.name} /\ DOMAIN h = HeaderNames(q, j)
      BY DEF HeadersOf
    <2>2. HeaderNames(q, j + 1) = HeaderNames(q, j) \cup {q.lines[j + 1].name}
      BY NamesStep
    <2>. QED BY <2>1, <2>2, Zenon
  <1>2. ASSUME NEW m \in DOMAIN g
        PROVE  \E i \in 2 .. j + 1 :
                 /\ q.lines[i].name = m /\ g[m] = q.lines[i].value
                 /\ \A e \in i + 1 .. j + 1 : q.lines[e].name # m
    <2>1. CASE m = l.name
      <3>1. g[m] = l.value
        BY <2>1
      <3>2. j + 1 \in 2 .. j + 1 /\ \A e \in (j + 1) + 1 .. j + 1 : FALSE
        OBVIOUS
      <3>. QED BY <2>1, <3>1, <3>2, Zenon
    <2>2. CASE m # l.name
      <3>1. m \in DOMAIN h /\ g[m] = h[m]
        BY <2>2
      <3>2. PICK i \in 2 .. j : /\ q.lines[i].name = m /\ h[m] = q.lines[i].value
                                /\ \A e \in i + 1 .. j : q.lines[e].name # m
        BY <3>1 DEF HeadersOf
      <3>3. i \in 2 .. j + 1
        OBVIOUS
      <3>4. ASSUME NEW e \in i + 1 .. j + 1 PROVE q.lines[e].name # m
        <4>1. e \in i + 1 .. j \/ e = j + 1
          OBVIOUS
        <4>. QED BY <2>2, <3>2, <4>1
      <3>. QED BY <3>1, <3>2, <3>3, <3>4, Zenon
    <2>. QED BY <2>1, <2>2
  <1>. QED BY <1>1, <1>2, Zenon DEF HeadersOf

LEMMA HeaderEInv ==
    ASSUME EInv, NEW k \in pos + 1 .. read - 1, ParseHeader(k)
    PROVE  EInv'
  <1>1. /\ pc = "parse" /\ state = "headers" /\ Found(k) /\ SizeTo(k) > 0
        /\ UNCHANGED <<input, read>>
    BY DEF ParseHeader
  <1>2. IInv'
    BY HeaderKeeps DEF EInv
  <1>3. Done < Len(script) /\ bodyExpected = 0
    BY <1>1 DEF EInv, Standing, AtHeader
  <1>a. PICK q \in Requests : q = Now
    BY <1>3, NowIs DEF EInv
  <1>c. PICK n \in Nat : n = Len(q.lines) /\ n >= 1 /\ DOMAIN q.lines = 1 .. n
    BY RequestIs
  <1>4. PICK j \in 0 .. n :
           /\ j >= 1 /\ LinesDone(q, j) /\ HeadersOf(headers, q, j)
           /\ j < n =>
                /\ SizeTo(k) \in Nat /\ SizeTo(k) >= 1 /\ SizeTo(k) = q.lines[j + 1].size
                /\ LineTo(k) = q.lines[j + 1]
                /\ k + 1 = Begin + LineEnd(q, j + 1)
           /\ j = n => SizeTo(k) = 0
    BY <1>1, <1>3, <1>a, <1>c, FoundLine
  <1>5. j < n
    BY <1>1, <1>4
  <1>i. PICK i \in 2 .. n : i = j + 1 /\ i - 1 = j
    BY <1>4, <1>5
  <1>l. PICK l : l = q.lines[i]
    OBVIOUS
  <1>6. SizeTo(k) \in Nat /\ SizeTo(k) = l.size /\ LineTo(k) = l /\ k + 1 = Begin + LineEnd(q, i)
    BY <1>4, <1>5, <1>i, <1>l
  <1>7. /\ DOMAIN headers = HeaderNames(q, j)
        /\ Cardinality(HeaderNames(q, j)) \in Nat
    BY <1>4, FS_CardinalityType DEF HeadersOf, EInv, IInv, Sizes
  <1>8. CASE ~TooLong(SizeTo(k)) /\ ~HeadersFull /\ LineTo(k).kind = "header"
    <2>1. /\ pos' = k + 1 /\ AddHeader(l.name, l.value)
          /\ UNCHANGED <<pc, state, bodyExpected, bodySize, results, script, stream>>
      BY <1>6, <1>8 DEF ParseHeader, input
    <2>2. Done' = Done /\ Begin' = Begin /\ Now' = Now
      BY <2>1 DEF Done, Begin, Now
    <2>3. LinesDone(q, i)
      <3>1. q.lines[i].kind = "header"
        BY <1>6, <1>8, <1>l
      <3>2. Cardinality(HeaderNames(q, i - 1)) < MaxHeaders
        BY <1>7, <1>8, <1>i, ParserAssumption DEF HeadersFull
      <3>3. q.lines[i].size <= MaxLine
        BY <1>6, <1>8, <1>l, ParserAssumption DEF TooLong
      <3>4. \A h \in 2 .. i : h \in 2 .. j \/ h = i
        BY <1>i
      <3>5. \A h \in 1 .. i : h \in 1 .. j \/ h = i
        BY <1>i
      <3>6. q.lines[1].kind = "request"
        BY <1>4 DEF LinesDone
      <3>7. ASSUME NEW h \in 2 .. i
            PROVE  q.lines[h].kind = "header" /\ Cardinality(HeaderNames(q, h - 1)) < MaxHeaders
        BY <1>4, <3>1, <3>2, <3>4 DEF LinesDone
      <3>8. ASSUME NEW h \in 1 .. i PROVE q.lines[h].size <= MaxLine
        BY <1>4, <3>3, <3>5 DEF LinesDone
      <3>. QED BY <3>6, <3>7, <3>8 DEF LinesDone
    <2>4. HeadersOf(headers', q, i)
      <3>1. headers' = [m \in DOMAIN headers \cup {l.name} |->
                          IF m = l.name THEN l.value ELSE headers[m]]
        BY <2>1 DEF AddHeader
      <3>2. l = q.lines[j + 1] /\ j \in Nat
        BY <1>i, <1>l
      <3>3. HeadersOf(headers', q, j + 1)
        BY <1>4, <3>1, <3>2, HeadersStep
      <3>. QED BY <1>i, <3>3
    <2>5. AtHeader'
      <3>. DEFINE At(m) == pos' = Begin + LineEnd(q, m) /\ LinesDone(q, m) /\ HeadersOf(headers', q, m)
      <3>2. \E m \in 1 .. n : At(m)
        <4>1. At(i)
          BY <1>6, <2>1, <2>3, <2>4
        <4>2. i \in 1 .. n
          OBVIOUS
        <4>. HIDE DEF At
        <4>. QED BY <4>1, <4>2
      <3>3. Now' = q /\ Begin' = Begin /\ n = Len(q.lines)
        BY <1>a, <1>c, <2>2
      <3>4. Done' < Len(script') /\ bodyExpected' = 0
        BY <1>3, <2>1, <2>2
      <3>. QED BY <3>2, <3>3, <3>4 DEF AtHeader
    <2>6. Standing'
      BY <1>1, <2>1, <2>5 DEF Standing
    <2>. QED BY <1>1, <1>2, <2>1, <2>6, WithinEInv
  <1>9. CASE ~(~TooLong(SizeTo(k)) /\ ~HeadersFull /\ LineTo(k).kind = "header")
    <2>1. Fail("bad")
      BY <1>9 DEF ParseHeader
    <2>2. ~LinesOk(q)
      <3>1. \/ ~(l.size <= MaxLine) \/ ~(Cardinality(HeaderNames(q, j)) < MaxHeaders)
            \/ l.kind # "header"
        BY <1>6, <1>7, <1>9, ParserAssumption DEF TooLong, HeadersFull
      <3>2. i \in DOMAIN q.lines /\ i \in 2 .. Len(q.lines)
        BY <1>c
      <3>. QED BY <1>i, <1>l, <3>1, <3>2 DEF LinesOk
    <2>3. "bad" = Verdict(Now)
      BY <1>a, <2>2, Spoilt
    <2>4. "bad" \in Verdicts
      BY DEF Verdicts
    <2>. QED BY <1>1, <1>2, <1>3, <2>1, <2>3, <2>4, FailEInv
  <1>. QED BY <1>8, <1>9

\* The length the headers give is that of the last header that has one.
LEMMA LengthIs ==
    ASSUME NEW q \in Requests, NEW n \in Nat, n = Len(q.lines), n >= 1,
           DOMAIN q.lines = 1 .. n, LinesDone(q, n), NEW h, HeadersOf(h, q, n)
    PROVE  /\ LengthOf(q) = IF "length" \in DOMAIN h THEN h["length"] ELSE 0
           /\ LengthOf(q) \in Nat \cup {Junk}
  <1>. DEFINE L == {i \in DOMAIN q.lines : q.lines[i].name = "length"}
  <1>1. \A i \in 1 .. n : q.lines[i] \in Lines
    BY RequestIs
  <1>2. q.lines[1].name # "length"
    <2>1. q.lines[1] \in Lines /\ q.lines[1].kind = "request"
      BY <1>1 DEF LinesDone
    <2>2. q.lines[1].name = ""
      BY <2>1 DEF Lines
    <2>. QED BY <2>2
  <1>3. L \in SUBSET (2 .. n)
    <2>. SUFFICES ASSUME NEW i \in 1 .. n, q.lines[i].name = "length" PROVE i \in 2 .. n
      OBVIOUS
    <2>1. i # 1
      BY <1>2
    <2>. QED BY <2>1
  <1>4. LengthOf(q) = IF L = {} THEN 0 ELSE q.lines[Max(L)].value
    BY Zenon DEF LengthOf
  <1>5. CASE "length" \in DOMAIN h
    <2>1. PICK i \in 2 .. n : /\ q.lines[i].name = "length" /\ h["length"] = q.lines[i].value
                              /\ \A e \in i + 1 .. n : q.lines[e].name # "length"
      BY <1>5 DEF HeadersOf
    <2>2. i \in L
      BY <2>1
    <2>3. \A y \in L : y \in 2 .. n /\ i >= y
      <3>. TAKE y \in L
      <3>1. y \in 2 .. n /\ q.lines[y].name = "length"
        BY <1>3
      <3>2. y \notin i + 1 .. n
        BY <2>1, <3>1
      <3>. QED BY <3>1, <3>2
    <2>4. Max(L) = i
      <3>. HIDE DEF L
      <3>. DEFINE x == CHOOSE x \in L : \A y \in L : x >= y
      <3>1. x \in L /\ \A y \in L : x >= y
        BY <2>2, <2>3
      <3>2. Max(L) = x
        BY Zenon DEF Max
      <3>. HIDE DEF x
      <3>3. x >= i /\ i >= x /\ x \in 2 .. n
        BY <2>2, <2>3, <3>1
      <3>4. x = i
        BY <3>3
      <3>. QED BY <3>2, <3>4
    <2>5. LengthOf(q) = q.lines[i].value
      <3>1. L # {}
        BY <2>2
      <3>. HIDE DEF L
      <3>. QED BY <1>4, <2>4, <3>1, Zenon
    <2>6. q.lines[i].value \in Nat \cup {Junk}
      <3>1. q.lines[i] \in Lines
        BY <1>1
      <3>. QED BY <3>1 DEF Lines
    <2>. QED BY <1>5, <2>1, <2>5, <2>6
  <1>6. CASE "length" \notin DOMAIN h
    <2>1. \A i \in 2 .. n : q.lines[i].name # "length"
      BY <1>6 DEF HeadersOf, HeaderNames
    <2>2. L = {}
      BY <1>3, <2>1
    <2>. QED BY <1>4, <1>6, <2>2
  <1>. QED BY <1>5, <1>6

LEMMA HeadersEndEInv ==
    ASSUME EInv, NEW k \in pos + 1 .. read - 1, ParseHeadersEnd(k)
    PROVE  EInv'
  <1>1. /\ pc = "parse" /\ state = "headers" /\ Found(k) /\ SizeTo(k) = 0
        /\ pos' = k + 1 /\ UNCHANGED <<input, read>>
    BY DEF ParseHeadersEnd
  <1>2. IInv'
    BY HeadersEndKeeps DEF EInv
  <1>3. Done < Len(script) /\ bodyExpected = 0
    BY <1>1 DEF EInv, Standing, AtHeader
  <1>a. PICK q \in Requests : q = Now
    BY <1>3, NowIs DEF EInv
  <1>c. PICK n \in Nat : n = Len(q.lines) /\ n >= 1 /\ DOMAIN q.lines = 1 .. n
    BY RequestIs
  <1>4. PICK j \in 0 .. n :
           /\ LinesDone(q, j) /\ HeadersOf(headers, q, j)
           /\ j < n => SizeTo(k) \in Nat /\ SizeTo(k) >= 1
           /\ j = n => k + 1 = Begin + LineEnd(q, j) + 2
    BY <1>1, <1>3, <1>a, <1>c, FoundLine
  <1>5. j = n
    BY <1>1, <1>4
  <1>6. LinesDone(q, n) /\ HeadersOf(headers, q, n) /\ pos' = Begin + LineEnd(q, n) + 2
    BY <1>1, <1>4, <1>5
  <1>7. LinesOk(q)
    BY <1>c, <1>6 DEF LinesDone, LinesOk
  <1>8. Has("te") <=> "te" \in HeaderNames(q, Len(q.lines))
    BY <1>c, <1>6 DEF Has, HeadersOf
  <1>9. ContentLength = LengthOf(q) /\ LengthOf(q) \in Nat \cup {Junk}
    BY <1>c, <1>6, LengthIs DEF ContentLength, Has
  <1>10. CASE (Has("te") \/ ContentLength = Junk) /\ Fail("bad")
    <2>1. "bad" = Verdict(Now)
      BY <1>8, <1>9, <1>10, <1>a DEF Verdict
    <2>2. "bad" \in Verdicts
      BY DEF Verdicts
    <2>. QED BY <1>1, <1>2, <1>3, <1>10, <2>1, <2>2, FailEInv
  <1>11. CASE ~Has("te") /\ ContentLength > MaxBody /\ Fail("large")
    <2>1. ContentLength # Junk
      BY <1>9, <1>11, ParserAssumption DEF Junk
    <2>2. "large" = Verdict(Now)
      BY <1>7, <1>8, <1>9, <1>11, <1>a, <2>1 DEF Verdict
    <2>3. "large" \in Verdicts
      BY DEF Verdicts
    <2>. QED BY <1>1, <1>2, <1>3, <1>11, <2>2, <2>3, FailEInv
  <1>12. CASE /\ ~Has("te") /\ ContentLength \in 0 .. MaxBody
              /\ bodyExpected' = IF Has("length") THEN ContentLength ELSE bodyExpected
              /\ state' = IF bodyExpected' > 0 THEN "body" ELSE "done"
              /\ UNCHANGED <<pc, headers, bodySize, results>>
    <2>1. UNCHANGED <<script, stream, results>>
      BY <1>1, <1>12 DEF input
    <2>2. Done' = Done /\ Begin' = Begin /\ Now' = q
      BY <1>a, <2>1 DEF Done, Begin, Now
    <2>3. Verdict(q) = "ok"
      <3>1. ContentLength # Junk /\ ~(ContentLength > MaxBody)
        BY <1>12, ParserAssumption DEF Junk
      <3>. QED BY <1>7, <1>8, <1>9, <1>12, <3>1 DEF Verdict
    <2>4. Len(q.body) = LengthOf(q)
      BY <1>3, <1>a, <2>3, NowIs DEF EInv
    <2>5. bodyExpected' = Len(q.body)
      BY <1>3, <1>9, <1>12, <2>4 DEF ContentLength
    <2>6. bodySize = 0 /\ bodySize' = 0
      BY <1>1, <1>12 DEF EInv, IInv, Sizes
    <2>b. PICK b \in Nat : b = Begin
      BY DoneIs DEF EInv
    <2>p. PICK p \in Nat : p = LineEnd(q, n)
      <3>1. n \in 0 .. n
        OBVIOUS
      <3>. QED BY <1>c, <3>1, RequestIs
    <2>7. pos' = b + p + 2
      BY <1>6, <2>b, <2>p
    <2>8. AtBody'
      <3>1. Done' < Len(script') /\ Verdict(Now') = "ok" /\ bodyExpected' = Len(Now'.body)
        BY <1>3, <2>1, <2>2, <2>3, <2>5
      <3>2. pos' = Begin' + LineEnd(Now', Len(Now'.lines)) + 2 + bodySize'
        BY <1>c, <2>2, <2>6, <2>7, <2>b, <2>p
      <3>. QED BY <3>1, <3>2 DEF AtBody
    <2>9. ASSUME state' = "done" PROVE AtEnd'
      <3>1. bodyExpected' = 0
        BY <1>9, <1>12, <2>4, <2>5, <2>9
      <3>t. PICK t \in Nat : t = Total(q)
        BY <1>3, <1>a, NowIs DEF EInv
      <3>2. t = p + 2 + 0
        BY <1>c, <2>5, <2>p, <3>1, <3>t, RequestIs
      <3>3. pos' = b + t
        BY <2>7, <3>2
      <3>4. pos' = Begin' + Total(Now')
        BY <2>2, <2>b, <3>3, <3>t
      <3>5. Done' < Len(script') /\ Verdict(Now') = "ok"
        BY <1>3, <2>1, <2>2, <2>3
      <3>. QED BY <3>4, <3>5 DEF AtEnd
    <2>10. state' \in {"body", "done"} /\ pc' = "parse" /\ UNCHANGED results
      BY <1>1, <1>12
    <2>11. Standing'
      BY <2>8, <2>9, <2>10 DEF Standing
    <2>. QED BY <1>1, <1>2, <2>10, <2>11, WithinEInv
  <1>. QED BY <1>10, <1>11, <1>12 DEF ParseHeadersEnd

LEMMA BodyEInv ==
    ASSUME EInv, ParseBody
    PROVE  EInv'
  <1>1. /\ pc = "parse" /\ state = "body"
        /\ UNCHANGED <<script, stream, read, headers, bodyExpected, results>>
    BY DEF ParseBody, input
  <1>2. IInv'
    BY BodyKeeps DEF EInv
  <1>3. AtBody
    BY <1>1 DEF EInv, Standing
  <1>4. Done < Len(script)
    BY <1>3 DEF AtBody
  <1>a. PICK q \in Requests : q = Now
    BY <1>4, NowIs DEF EInv
  <1>b. PICK b \in Nat : b = Begin
    BY DoneIs DEF EInv
  <1>c. PICK n \in Nat : n = Len(q.lines) /\ n >= 1
    BY RequestIs
  <1>p. PICK p \in Nat : p = LineEnd(q, n)
    <2>1. n \in 0 .. n
      OBVIOUS
    <2>. QED BY <1>c, <2>1, RequestIs
  <1>d. PICK c \in Nat : c = Len(q.body) /\ bodyExpected = c
    BY <1>3, <1>a, RequestIs DEF AtBody
  <1>t. PICK t \in Nat : t = Total(q) /\ t = p + 2 + c
    BY <1>4, <1>a, <1>c, <1>d, <1>p, RequestIs, NowIs DEF EInv
  <1>s. PICK s \in Nat : s = bodySize
    BY DEF EInv, IInv, Sizes
  <1>k. PICK k \in Nat : k = Take
    <2>1. bodyExpected - bodySize \in Nat /\ read - pos \in Nat
      BY DEF EInv, IInv, Places, Sizes, MemoryBounded
    <2>. QED BY <2>1, LeastBounds DEF Take
  <1>5. pos = b + p + 2 + s /\ Verdict(q) = "ok"
    BY <1>3, <1>a, <1>b, <1>c, <1>p, <1>s DEF AtBody
  <1>6. pos' = b + p + 2 + (s + k) /\ bodySize' = s + k
    BY <1>5, <1>k, <1>s DEF ParseBody
  <1>7. Done' = Done /\ Begin' = Begin /\ Now' = q
    BY <1>1, <1>a DEF Done, Begin, Now
  <1>8. Honest' /\ VerdictExact'
    BY <1>1 DEF EInv, Honest, VerdictExact
  <1>9. CASE bodySize' >= bodyExpected /\ state' = "done" /\ pc' = pc
    <2>1. s + k = c
      BY <1>2, <1>1, <1>6, <1>9, <1>d DEF IInv, MemoryBounded
    <2>2. pos' = Begin' + Total(Now')
      BY <1>6, <1>7, <1>b, <1>t, <2>1
    <2>3. AtEnd'
      BY <1>1, <1>4, <1>5, <1>7, <2>2 DEF AtEnd
    <2>4. Standing' /\ Waiting'
      BY <1>1, <1>9, <2>3 DEF Standing, Waiting
    <2>. QED BY <1>2, <1>8, <2>4 DEF EInv
  <1>10. CASE ~(bodySize' >= bodyExpected) /\ pc' = "wait" /\ state' = state
    <2>1. s + k < c
      BY <1>6, <1>10, <1>d
    <2>2. AtBody'
      <3>1. Done' < Len(script') /\ Verdict(Now') = "ok" /\ bodyExpected' = Len(Now'.body)
        BY <1>1, <1>4, <1>5, <1>7, <1>d
      <3>2. pos' = Begin' + LineEnd(Now', Len(Now'.lines)) + 2 + bodySize'
        BY <1>6, <1>7, <1>b, <1>c, <1>p
      <3>. QED BY <3>1, <3>2 DEF AtBody
    <2>3. read' = pos'
      BY <1>1, <1>2, <1>10 DEF IInv, MemoryBounded
    <2>4. read' < b + t
      BY <1>6, <1>t, <2>1, <2>3
    <2>5. Standing' /\ Waiting'
      BY <1>1, <1>7, <1>10, <1>b, <1>t, <2>2, <2>4 DEF Standing, Waiting
    <2>. QED BY <1>2, <1>8, <2>5 DEF EInv
  <1>. QED BY <1>9, <1>10 DEF ParseBody

LEMMA DoneEInv ==
    ASSUME EInv, RequestDone
    PROVE  EInv'
  <1>1. /\ pc = "parse" /\ state = "done" /\ results' = Append(results, "ok")
        /\ state' = "line" /\ headers' = NoHeaders /\ bodyExpected' = 0
        /\ pc' = "wait" => read = pos
        /\ UNCHANGED <<script, stream, read, pos>>
    BY DEF RequestDone, Reset, input
  <1>2. IInv'
    BY DoneKeeps DEF EInv
  <1>3. Done < Len(script) /\ Verdict(Now) = "ok" /\ pos = Begin + Total(Now)
    BY <1>1 DEF EInv, Standing, AtEnd
  <1>4. "ok" \in Verdicts
    BY DEF Verdicts
  <1>5. Honest' /\ Done' = Done + 1 /\ VerdictExact'
    BY <1>1, <1>3, <1>4, AppendIs DEF EInv
  <1>6. Begin' = Begin + Total(Now)
    BY <1>1, <1>3, <1>5, NowIs DEF EInv, Begin
  <1>7. AtLine'
    BY <1>1, <1>3, <1>6 DEF AtLine
  <1>8. Standing'
    BY <1>1, <1>7 DEF Standing
  <1>9. Waiting'
    <2>. SUFFICES ASSUME pc' = "wait", Done' < Len(script')
                  PROVE  read < (Begin + Total(Now))'
      BY <1>1 DEF Waiting
    <2>1. read = Begin'
      BY <1>1, <1>3, <1>6
    <2>2. PICK q \in Requests : q = Now'
      <3>1. PICK n \in Nat : n = Done
        BY DoneIs DEF EInv
      <3>2. (n + 1) + 1 \in 1 .. Len(script) /\ script \in Scripts
        BY <1>1, <1>5, <3>1, DoneIs DEF EInv, Honest
      <3>3. script[(n + 1) + 1] \in Requests
        BY <3>2, ScriptIs
      <3>4. Now' = script[(n + 1) + 1]
        BY <1>1, <1>5, <3>1 DEF Now
      <3>. QED BY <3>3, <3>4
    <2>3. PICK t \in Nat : t = Total(q) /\ t >= 2
      BY RequestIsLong
    <2>4. read \in Nat
      BY DEF EInv, IInv, Places
    <2>. QED BY <2>1, <2>2, <2>3, <2>4
  <1>. QED BY <1>2, <1>5, <1>8, <1>9 DEF EInv

LEMMA FileDoneEInv ==
    ASSUME EInv, FileDone
    PROVE  EInv'
  <1>1. /\ pc = "file"
        /\ pc' = "wait" => ~(read > pos)
        /\ UNCHANGED <<script, stream, read, pos, state, headers, bodyExpected, bodySize, results>>
    BY DEF FileDone, input, request
  <1>2. IInv'
    BY FileDoneKeeps DEF EInv
  <1>3. Done' = Done /\ Begin' = Begin /\ Now' = Now
    BY <1>1 DEF Done, Begin, Now
  <1>4. Honest' /\ VerdictExact'
    BY <1>1 DEF EInv, Honest, VerdictExact
  <1>5. Standing'
    BY <1>1, <1>3 DEF EInv, Standing, AtLine, AtHeader, AtBody, AtEnd
  <1>6. Waiting'
    <2>. SUFFICES ASSUME pc' = "wait", Done < Len(script) PROVE read < Begin + Total(Now)
      BY <1>1, <1>3 DEF Waiting
    <2>1. pc = "file" /\ state = "line" /\ read = pos
      BY <1>1 DEF FileDone, EInv, IInv, Places
    <2>2. pos = Begin
      BY <2>1 DEF EInv, Standing, AtLine
    <2>3. PICK q \in Requests : q = Now
      BY NowIs DEF EInv
    <2>4. PICK t \in Nat : t = Total(q) /\ t >= 2
      BY RequestIsLong
    <2>5. read \in Nat
      BY DEF EInv, IInv, Places
    <2>. QED BY <2>1, <2>2, <2>3, <2>4, <2>5
  <1>. QED BY <1>2, <1>4, <1>5, <1>6 DEF EInv

LEMMA NextEInv == EInv /\ [Next]_vars => EInv'
  <1>. SUFFICES ASSUME EInv, [Next]_vars PROVE EInv'
    OBVIOUS
  <1>1. CASE UNCHANGED vars
    <2>1. IInv'
      BY <1>1, NextIInv DEF EInv
    <2>2. UNCHANGED <<script, stream, read, pos, pc, state, headers, bodyExpected, bodySize, results>>
      BY <1>1 DEF vars, input, request
    <2>3. Done' = Done /\ Begin' = Begin /\ Now' = Now
      BY <2>2 DEF Done, Begin, Now
    <2>4. Honest' /\ VerdictExact'
      BY <2>2 DEF EInv, Honest, VerdictExact
    <2>5. Standing' /\ Waiting'
      BY <2>2, <2>3 DEF EInv, Standing, Waiting, AtLine, AtHeader, AtBody, AtEnd
    <2>. QED BY <2>1, <2>4, <2>5 DEF EInv
  <1>2. CASE \E n \in 1 .. ReadMax : Receive(n)
    BY <1>2, ReceiveEInv
  <1>3. CASE Parse
    <2>1. ASSUME NEW k \in pos + 1 .. read - 1, ParseLine(k) PROVE EInv'
      BY <2>1, RequestLineEInv, HeaderEInv, HeadersEndEInv DEF ParseLine
    <2>. QED BY <1>3, <2>1, LineMissingEInv, BodyEInv, DoneEInv DEF Parse
  <1>. QED BY <1>1, <1>2, <1>3, FileDoneEInv DEF Next

LEMMA EInvHolds == Spec => []EInv
  BY InitEInv, NextEInv, PTL DEF Spec

\* However the stream is cut into reads, every request gets the verdict that
\* the whole of it deserves, or "bad" if a line of it has exactly MaxLine
\* bytes (HttpRequest.cpp:659-836).
THEOREM VerdictsStayExact == Spec => []VerdictExact
  <1>1. EInv => VerdictExact
    BY DEF EInv
  <1>. QED BY <1>1, EInvHolds, PTL

\* Between two requests the parser stands at the first byte of the next: no
\* byte of one is taken for another's (HttpRequest.cpp:604-617, 765-782).
THEOREM FramingStays == Spec => []Framing
  <1>1. EInv => Framing
    BY DEF EInv, Standing, AtLine, Framing, Begin, RequestEnd, Done
  <1>. QED BY <1>1, EInvHolds, PTL

\* The parser never asks for more when it has the whole of a request; only the
\* caller stops before one, at its limit of requests or for a file
\* (HttpRequest.cpp:604-617, 653-655, 702-703; TcpConnection.cpp:105-107).
THEOREM WaitsForTheRest == Spec => []WaitsOnlyIncomplete
  <1>1. ASSUME EInv PROVE WaitsOnlyIncomplete
    <2>1. Done < Len(script) => RequestEnd(script, Done + 1) = Begin + Total(Now)
      BY <1>1, NowIs DEF EInv
    <2>. QED BY <1>1, <2>1 DEF EInv, Waiting, WaitsOnlyIncomplete, RequestEnd, Done
  <1>. QED BY <1>1, EInvHolds, PTL
-----------------------------------------------------------------------------
\* What each operation of Buffer does to the contents.
LEMMA ContentsIsSeq ==
    ASSUME NEW B, NEW b, IsBuffer(b, B)
    PROVE  /\ Contents(b) \in Seq(B)
           /\ Len(Contents(b)) = Readable(b)
           /\ Readable(b) \in Nat /\ Writeable(b) \in Nat /\ Capacity(b) \in Nat
           /\ \A i \in 1 .. Readable(b) : Contents(b)[i] = b.mem[b.readPos + i]
  <1>1. /\ b.mem \in Seq(B) /\ Len(b.mem) \in Nat
        /\ b.writePos \in 0 .. Len(b.mem) /\ b.readPos \in 0 .. b.writePos
    BY LenProperties DEF IsBuffer
  <1>2. Readable(b) \in Nat /\ Writeable(b) \in Nat /\ Capacity(b) \in Nat
    BY <1>1 DEF Readable, Writeable, Capacity
  <1>3. \A i \in 1 .. Readable(b) : b.mem[b.readPos + i] \in B
    <2>. TAKE i \in 1 .. Readable(b)
    <2>1. b.readPos \in Nat /\ b.writePos \in Nat
      BY <1>1
    <2>2. i \in Nat /\ 1 <= i /\ i <= b.writePos - b.readPos
      BY <1>2, <2>1 DEF Readable
    <2>3. b.readPos + i \in 1 .. Len(b.mem)
      BY SMTT(30), <1>1, <2>1, <2>2
    <2>. QED BY <1>1, <2>3, ElementOfSeq
  <1>. QED BY <1>2, <1>3 DEF Contents

LEMMA FunctionIsSeq ==
    ASSUME NEW B, NEW n \in Nat, NEW f, f = [i \in 1 .. n |-> f[i]],
           \A i \in 1 .. n : f[i] \in B
    PROVE  f \in Seq(B) /\ Len(f) = n
  OBVIOUS

LEMMA Associative ==
    ASSUME NEW B, NEW p, NEW q, NEW t, p \in Seq(B), q \in Seq(B), t \in Seq(B)
    PROVE  (p \o q) \o t = p \o (q \o t)
  BY ConcatAssociative

\* What remains of bytes p + 1 to r after those up to q.
LEMMA RestOfSubSeq ==
    ASSUME NEW B, NEW s \in Seq(B), NEW p \in Nat, NEW r \in Nat, NEW q \in Nat,
           p <= q, q <= r, r <= Len(s)
    PROVE  SubSeq(SubSeq(s, p + 1, r), (q - p) + 1, r - p) = SubSeq(s, q + 1, r)
  <1>1. Len(s) \in Nat
    BY LenProperties
  <1>2. CASE q = r
    <2>1. r - p < (q - p) + 1 /\ r < q + 1
      BY <1>2
    <2>. QED BY <2>1, SubSeqEmpty
  <1>3. CASE q < r
    <2>1. /\ p + 1 \in 1 .. Len(s) /\ r \in 1 .. Len(s)
          /\ (q - p) + 1 \in 1 .. r - (p + 1) + 1
          /\ r - p \in 1 .. r - (p + 1) + 1
      BY <1>1, <1>3
    <2>2. SubSeq(SubSeq(s, p + 1, r), (q - p) + 1, r - p)
            = SubSeq(s, (p + 1) + ((q - p) + 1) - 1, (p + 1) + (r - p) - 1)
      BY <2>1, SubSeqOfSubSeq
    <2>3. (p + 1) + ((q - p) + 1) - 1 = q + 1 /\ (p + 1) + (r - p) - 1 = r
      BY <1>1
    <2>. QED BY <2>2, <2>3
  <1>. QED BY <1>2, <1>3

\* Two buffers' worth of the same bytes.
LEMMA SameContents ==
    ASSUME NEW B, NEW b, NEW c, IsBuffer(b, B), IsBuffer(c, B),
           Readable(c) = Readable(b),
           \A i \in 1 .. Readable(b) : c.mem[c.readPos + i] = b.mem[b.readPos + i]
    PROVE  Contents(c) = Contents(b)
  BY DEF Contents

LEMMA NewIsBuffer ==
    ASSUME NEW B, Zero \in B, NEW n \in Nat
    PROVE  IsBuffer(NewBuffer(n), B) /\ Contents(NewBuffer(n)) = <<>>
  <1>. DEFINE m == [i \in 1 .. n |-> Zero]
  <1>1. m \in Seq(B) /\ Len(m) = n
    OBVIOUS
  <1>2. NewBuffer(n) = [mem |-> m, readPos |-> 0, writePos |-> 0]
    BY DEF NewBuffer, Record
  <1>. HIDE DEF m
  <1>3. IsBuffer(NewBuffer(n), B)
    BY <1>1, <1>2 DEF IsBuffer
  <1>4. Readable(NewBuffer(n)) = 0
    BY <1>2 DEF Readable
  <1>5. Len(Contents(NewBuffer(n))) = 0 /\ Contents(NewBuffer(n)) \in Seq(B)
    BY <1>3, <1>4, ContentsIsSeq
  <1>. QED BY <1>3, <1>5, EmptySeq

LEMMA StoreAppends ==
    ASSUME NEW B, NEW b, IsBuffer(b, B),
           NEW data \in Seq(B), Len(data) <= Writeable(b)
    PROVE  /\ IsBuffer(Store(b, data), B)
           /\ Contents(Store(b, data)) = Contents(b) \o data
           /\ Capacity(Store(b, data)) = Capacity(b)
           /\ Writeable(Store(b, data)) = Writeable(b) - Len(data)
           /\ Readable(Store(b, data)) = Readable(b) + Len(data)
  <1>. DEFINE n == Len(data)
              c == Store(b, data)
              m == [i \in 1 .. Capacity(b) |->
                      IF i \in b.writePos + 1 .. b.writePos + n
                        THEN data[i - b.writePos] ELSE b.mem[i]]
  <1>1. /\ b.mem \in Seq(B) /\ Capacity(b) = Len(b.mem) /\ Capacity(b) \in Nat
        /\ b.writePos \in 0 .. Capacity(b) /\ b.readPos \in 0 .. b.writePos
        /\ b.readPos \in Nat /\ b.writePos \in Nat
    BY LenProperties DEF IsBuffer, Capacity
  <1>2. n \in Nat /\ b.writePos + n <= Capacity(b)
    BY <1>1, LenProperties DEF Writeable
  <1>3. c = [mem |-> m, readPos |-> b.readPos, writePos |-> b.writePos + n]
    BY DEF Store, Record
  <1>4. \A i \in 1 .. Capacity(b) : m[i] \in B
    <2>. TAKE i \in 1 .. Capacity(b)
    <2>1. CASE i \in b.writePos + 1 .. b.writePos + n
      <3>1. i - b.writePos \in 1 .. n
        BY <1>1, <1>2, <2>1
      <3>. QED BY <2>1, <3>1, ElementOfSeq
    <2>2. CASE i \notin b.writePos + 1 .. b.writePos + n
      BY <1>1, <2>2, ElementOfSeq
    <2>. QED BY <2>1, <2>2
  <1>5. m \in Seq(B) /\ Len(m) = Capacity(b)
    BY <1>1, <1>4
  <1>6. \A i \in b.writePos + 1 .. b.writePos + n : m[i] = data[i - b.writePos]
    BY <1>1, <1>2
  <1>7. \A i \in 1 .. b.writePos : m[i] = b.mem[i]
    BY <1>1, <1>2
  <1>. HIDE DEF m
  <1>8. IsBuffer(c, B) /\ Capacity(c) = Capacity(b)
    BY <1>1, <1>2, <1>3, <1>5 DEF IsBuffer, Capacity
  <1>9. /\ Readable(c) = Readable(b) + n /\ Writeable(c) = Writeable(b) - n
        /\ c.readPos = b.readPos /\ c.mem = m
    BY <1>1, <1>2, <1>3, <1>8 DEF Readable, Writeable
  <1>. HIDE DEF c
  <1>10. /\ Contents(b) \in Seq(B) /\ Len(Contents(b)) = Readable(b)
         /\ Contents(c) \in Seq(B) /\ Len(Contents(c)) = Readable(c)
         /\ \A i \in 1 .. Readable(b) : Contents(b)[i] = b.mem[b.readPos + i]
         /\ \A i \in 1 .. Readable(c) : Contents(c)[i] = c.mem[c.readPos + i]
    BY <1>8, ContentsIsSeq
  <1>11. /\ Contents(b) \o data \in Seq(B)
         /\ Len(Contents(b) \o data) = Readable(c)
         /\ \A i \in 1 .. Readable(c) : (Contents(b) \o data)[i] =
              IF i <= Readable(b) THEN Contents(b)[i] ELSE data[i - Readable(b)]
    <2>1. \A i \in 1 .. Readable(c) : (Contents(b) \o data)[i] =
              IF i <= Len(Contents(b)) THEN Contents(b)[i] ELSE data[i - Len(Contents(b))]
      BY <1>9, <1>10, ConcatProperties
    <2>2. /\ Contents(b) \o data \in Seq(B)
          /\ Len(Contents(b) \o data) = Readable(c)
      BY <1>9, <1>10, ConcatProperties
    <2>. QED BY <1>10, <2>1, <2>2
  <1>12. Readable(b) \in Nat /\ b.readPos + Readable(b) = b.writePos
    BY <1>1 DEF Readable
  <1>13. \A i \in 1 .. Readable(c) : Contents(c)[i] = (Contents(b) \o data)[i]
    <2>. TAKE i \in 1 .. Readable(c)
    <2>1. CASE i <= Readable(b)
      <3>1. i \in 1 .. Readable(b) /\ b.readPos + i \in 1 .. b.writePos
        BY <1>1, <1>2, <1>9, <1>12, <2>1
      <3>2. Contents(c)[i] = b.mem[b.readPos + i]
        BY <1>7, <1>9, <1>10, <3>1
      <3>3. (Contents(b) \o data)[i] = b.mem[b.readPos + i]
        BY <1>10, <1>11, <2>1, <3>1
      <3>. QED BY <3>2, <3>3
    <2>2. CASE ~(i <= Readable(b))
      <3>a. i \in Nat /\ Readable(b) < i /\ i <= Readable(b) + n
        BY <1>2, <1>9, <1>12, <2>2
      <3>1. /\ b.readPos + i \in b.writePos + 1 .. b.writePos + n
            /\ (b.readPos + i) - b.writePos = i - Readable(b)
        <4>1. /\ b.readPos \in Int /\ b.writePos \in Int /\ n \in Int
              /\ Readable(b) = b.writePos - b.readPos
          BY <1>1, <1>2 DEF Readable
        <4>. HIDE DEF n
        <4>. QED BY <4>1, <3>a
      <3>2. Contents(c)[i] = m[b.readPos + i]
        BY <1>9, <1>10
      <3>3. m[b.readPos + i] = data[(b.readPos + i) - b.writePos]
        BY <1>6, <3>1
      <3>4. (Contents(b) \o data)[i] = data[i - Readable(b)]
        BY <1>11, <2>2
      <3>. QED BY <3>1, <3>2, <3>3, <3>4
    <2>. QED BY <2>1, <2>2
  <1>14. Contents(c) = Contents(b) \o data
    BY <1>10, <1>11, <1>13, SeqEqual
  <1>. QED BY <1>8, <1>9, <1>14 DEF c

LEMMA CompactKeeps ==
    ASSUME NEW B, NEW b, IsBuffer(b, B)
    PROVE  /\ IsBuffer(Compact(b), B)
           /\ Contents(Compact(b)) = Contents(b)
           /\ Capacity(Compact(b)) = Capacity(b)
           /\ Writeable(Compact(b)) = b.readPos + Writeable(b)
           /\ Readable(Compact(b)) = Readable(b)
  <1>. DEFINE c == Compact(b)
              m == [i \in 1 .. Capacity(b) |->
                      IF i <= Readable(b) THEN b.mem[b.readPos + i] ELSE b.mem[i]]
  <1>1. /\ b.mem \in Seq(B) /\ Capacity(b) = Len(b.mem) /\ Capacity(b) \in Nat
        /\ b.writePos <= Capacity(b) /\ b.readPos <= b.writePos
        /\ b.readPos \in Nat /\ b.writePos \in Nat
    BY LenProperties DEF IsBuffer, Capacity
  <1>2. Readable(b) \in Nat /\ b.readPos + Readable(b) = b.writePos
    BY <1>1 DEF Readable
  <1>3. c = [mem |-> m, readPos |-> 0, writePos |-> Readable(b)]
    BY DEF Compact, Record
  <1>4. \A i \in 1 .. Capacity(b) : m[i] \in B
    <2>. TAKE i \in 1 .. Capacity(b)
    <2>1. CASE i <= Readable(b)
      <3>1. b.readPos + i \in 1 .. Len(b.mem)
        BY <1>1, <1>2, <2>1
      <3>. QED BY <1>1, <2>1, <3>1, ElementOfSeq
    <2>2. CASE ~(i <= Readable(b))
      BY <1>1, <2>2, ElementOfSeq
    <2>. QED BY <2>1, <2>2
  <1>5. m = [i \in 1 .. Capacity(b) |-> m[i]]
    OBVIOUS
  <1>6. \A i \in 1 .. Readable(b) : m[i] = b.mem[b.readPos + i]
    BY <1>1, <1>2
  <1>. HIDE DEF m
  <1>a. m \in Seq(B) /\ Len(m) = Capacity(b)
    BY <1>1, <1>4, <1>5, FunctionIsSeq
  <1>7. IsBuffer(c, B) /\ Capacity(c) = Capacity(b)
    BY <1>1, <1>2, <1>3, <1>a DEF IsBuffer, Capacity
  <1>8. /\ Readable(c) = Readable(b) /\ Writeable(c) = b.readPos + Writeable(b)
        /\ c.readPos = 0 /\ c.mem = m
    BY <1>1, <1>2, <1>3, <1>7 DEF Readable, Writeable
  <1>. HIDE DEF c
  <1>9. \A i \in 1 .. Readable(b) : c.mem[c.readPos + i] = b.mem[b.readPos + i]
    BY <1>6, <1>8
  <1>10. Contents(c) = Contents(b)
    BY <1>7, <1>8, <1>9, SameContents
  <1>. QED BY <1>7, <1>8, <1>10 DEF c

LEMMA GrowKeeps ==
    ASSUME NEW B, Zero \in B, NEW b, IsBuffer(b, B), NEW size \in Nat
    PROVE  /\ IsBuffer(Grow(b, size), B)
           /\ Contents(Grow(b, size)) = Contents(b)
           /\ Capacity(Grow(b, size)) = Capacity(b) + size
           /\ Writeable(Grow(b, size)) = Writeable(b) + size
           /\ Readable(Grow(b, size)) = Readable(b)
  <1>. DEFINE c == Grow(b, size)
              z == [i \in 1 .. size |-> Zero]
  <1>1. /\ b.mem \in Seq(B) /\ Capacity(b) = Len(b.mem) /\ Capacity(b) \in Nat
        /\ b.writePos <= Capacity(b) /\ b.readPos <= b.writePos
        /\ b.readPos \in Nat /\ b.writePos \in Nat
    BY LenProperties DEF IsBuffer, Capacity
  <1>2. z \in Seq(B) /\ Len(z) = size
    OBVIOUS
  <1>3. c = [mem |-> b.mem \o z, readPos |-> b.readPos, writePos |-> b.writePos]
    BY DEF Grow, Record
  <1>. HIDE DEF z
  <1>4. /\ b.mem \o z \in Seq(B) /\ Len(b.mem \o z) = Capacity(b) + size
        /\ \A i \in 1 .. Capacity(b) : (b.mem \o z)[i] = b.mem[i]
    <2>1. \A i \in 1 .. Len(b.mem) + Len(z) :
            (b.mem \o z)[i] = IF i <= Len(b.mem) THEN b.mem[i] ELSE z[i - Len(b.mem)]
      BY <1>1, <1>2, ConcatProperties
    <2>2. b.mem \o z \in Seq(B) /\ Len(b.mem \o z) = Len(b.mem) + Len(z)
      BY <1>1, <1>2, ConcatProperties
    <2>. QED BY <1>1, <1>2, <2>1, <2>2
  <1>5. IsBuffer(c, B) /\ Capacity(c) = Capacity(b) + size
    BY <1>1, <1>3, <1>4 DEF IsBuffer, Capacity
  <1>6. /\ Readable(c) = Readable(b) /\ Writeable(c) = Writeable(b) + size
        /\ c.readPos = b.readPos /\ c.mem = b.mem \o z
    BY SMTT(30), <1>1, <1>3, <1>5 DEF Readable, Writeable
  <1>. HIDE DEF c
  <1>7. \A i \in 1 .. Readable(b) : c.mem[c.readPos + i] = b.mem[b.readPos + i]
    <2>. TAKE i \in 1 .. Readable(b)
    <2>1. b.readPos + i \in 1 .. Capacity(b)
      BY <1>1 DEF Readable
    <2>2. (b.mem \o z)[b.readPos + i] = b.mem[b.readPos + i]
      BY <1>4, <2>1, Zenon
    <2>. QED BY <1>6, <2>2, Zenon
  <1>8. Contents(c) = Contents(b)
    BY <1>5, <1>6, <1>7, SameContents
  <1>. QED BY <1>5, <1>6, <1>8 DEF c

LEMMA ExtendRoomKeeps ==
    ASSUME NEW B, Zero \in B, NEW b, IsBuffer(b, B), NEW size \in Nat
    PROVE  /\ IsBuffer(ExtendRoom(b, size), B)
           /\ Contents(ExtendRoom(b, size)) = Contents(b)
           /\ Writeable(ExtendRoom(b, size)) >= size
           /\ Readable(ExtendRoom(b, size)) = Readable(b)
           /\ Capacity(ExtendRoom(b, size)) >= Capacity(b)
           /\ Capacity(ExtendRoom(b, size)) > Capacity(b)
                => Readable(b) + size > Capacity(b)
  <1>1. /\ b.readPos \in Nat /\ Writeable(b) \in Nat /\ Capacity(b) \in Nat
        /\ Readable(b) \in Nat
        /\ b.readPos + Readable(b) + Writeable(b) = Capacity(b)
    BY ContentsIsSeq DEF IsBuffer, Readable, Writeable
  <1>2. CASE Writeable(b) >= size
    BY <1>1, <1>2 DEF ExtendRoom
  <1>3. CASE Writeable(b) < size /\ b.readPos + Writeable(b) >= size
    <2>1. ExtendRoom(b, size) = Compact(b)
      BY <1>1, <1>3 DEF ExtendRoom
    <2>. QED BY <1>1, <1>3, <2>1, CompactKeeps
  <1>4. CASE Writeable(b) < size /\ b.readPos + Writeable(b) < size
    <2>. DEFINE c == Grow(b, size)
    <2>1. ExtendRoom(b, size) = c
      BY <1>1, <1>4 DEF ExtendRoom
    <2>2. /\ IsBuffer(c, B) /\ Contents(c) = Contents(b)
          /\ Writeable(c) = Writeable(b) + size /\ Readable(c) = Readable(b)
          /\ Capacity(c) = Capacity(b) + size
      BY GrowKeeps
    <2>. HIDE DEF c
    <2>3. Readable(b) + size > Capacity(b)
      BY <1>1, <1>4
    <2>. QED BY <1>1, <2>1, <2>2, <2>3
  <1>. QED BY <1>1, <1>2, <1>3, <1>4

LEMMA AppendAppends ==
    ASSUME NEW B, Zero \in B, NEW b, IsBuffer(b, B), NEW data \in Seq(B)
    PROVE  /\ IsBuffer(AppendString(b, data), B)
           /\ Contents(AppendString(b, data)) = Contents(b) \o data
           /\ Readable(AppendString(b, data)) = Readable(b) + Len(data)
           /\ Capacity(AppendString(b, data)) >= Capacity(b)
           /\ Fits(b, AppendString(b, data))
  <1>1. /\ Len(data) \in Nat /\ Contents(b) \in Seq(B)
        /\ Readable(b) \in Nat /\ Capacity(b) \in Nat
    BY ContentsIsSeq, LenProperties
  <1>2. CASE data = <<>>
    <2>1. AppendString(b, data) = b /\ Len(data) = 0
      BY <1>2 DEF AppendString
    <2>2. Contents(b) \o data = Contents(b)
      BY <1>1, <1>2, ConcatEmptySeq
    <2>. QED BY <1>1, <2>1, <2>2 DEF Fits
  <1>3. CASE data # <<>>
    <2>. DEFINE e == ExtendRoom(b, Len(data))
    <2>1. AppendString(b, data) = Store(e, data)
      BY <1>3 DEF AppendString
    <2>2. /\ IsBuffer(e, B) /\ Contents(e) = Contents(b) /\ Writeable(e) >= Len(data)
          /\ Readable(e) = Readable(b) /\ Capacity(e) >= Capacity(b)
          /\ Capacity(e) > Capacity(b) => Readable(b) + Len(data) > Capacity(b)
      BY <1>1, ExtendRoomKeeps
    <2>. HIDE DEF e
    <2>3. /\ IsBuffer(Store(e, data), B)
          /\ Contents(Store(e, data)) = Contents(e) \o data
          /\ Capacity(Store(e, data)) = Capacity(e)
          /\ Readable(Store(e, data)) = Readable(e) + Len(data)
      <3>1. Len(data) <= Writeable(e)
        BY <1>1, <2>2, ContentsIsSeq
      <3>. QED BY <2>2, <3>1, StoreAppends
    <2>. QED BY <2>1, <2>2, <2>3 DEF Fits
  <1>. QED BY <1>2, <1>3

LEMMA SocketReadAppends ==
    ASSUME NEW B, Zero \in B, NEW b, IsBuffer(b, B), NEW data \in Seq(B)
    PROVE  /\ IsBuffer(SocketRead(b, data), B)
           /\ Contents(SocketRead(b, data)) = Contents(b) \o data
           /\ Fits(b, SocketRead(b, data))
  <1>. DEFINE w == Writeable(b)
  <1>1. /\ Len(data) \in Nat /\ Contents(b) \in Seq(B) /\ w \in Nat
        /\ Readable(b) \in Nat /\ Capacity(b) \in Nat
    BY ContentsIsSeq, LenProperties
  <1>2. CASE Len(data) <= w
    <2>1. SocketRead(b, data) = Store(b, data)
      BY <1>2 DEF SocketRead
    <2>. QED BY SMTT(30), <1>1, <1>2, <2>1, StoreAppends DEF Fits
  <1>3. CASE ~(Len(data) <= w)
    <2>. DEFINE first == SubSeq(data, 1, w)
                rest == SubSeq(data, w + 1, Len(data))
                s == Store(b, first)
    <2>1. /\ first \in Seq(B) /\ Len(first) = w
          /\ rest \in Seq(B) /\ Len(rest) = Len(data) - w
      <3>1. \A i \in 1 .. w : data[i] \in B
        BY <1>1, <1>3, ElementOfSeq
      <3>2. \A i \in w + 1 .. Len(data) : data[i] \in B
        BY <1>1, ElementOfSeq
      <3>3. first \in Seq(B) /\ Len(first) = w
        BY <1>1, <3>1, SubSeqProperties
      <3>4. rest \in Seq(B) /\ Len(rest) = Len(data) - w
        BY <1>1, <1>3, <3>2, SubSeqProperties
      <3>. QED BY <3>3, <3>4
    <2>2. first \o rest = data
      <3>1. /\ 1 \in 1 .. Len(data) + 1 /\ w \in 1 - 1 .. Len(data)
            /\ Len(data) \in w .. Len(data)
        BY <1>1, <1>3
      <3>2. first \o rest = SubSeq(data, 1, Len(data))
        BY <3>1, ConcatAdjacentSubSeq
      <3>. QED BY <3>2, SubSeqFull
    <2>3. SocketRead(b, data) = AppendString(s, rest)
      BY <1>3 DEF SocketRead
    <2>. HIDE DEF first, rest
    <2>4. /\ IsBuffer(s, B) /\ Contents(s) = Contents(b) \o first
          /\ Capacity(s) = Capacity(b) /\ Readable(s) = Readable(b) + w
      BY SMTT(30), <1>1, <2>1, StoreAppends
    <2>. HIDE DEF s
    <2>5. /\ IsBuffer(AppendString(s, rest), B)
          /\ Contents(AppendString(s, rest)) = Contents(s) \o rest
          /\ Fits(s, AppendString(s, rest))
      BY <2>1, <2>4, AppendAppends
    <2>6. (Contents(b) \o first) \o rest = Contents(b) \o data
      <3>1. (Contents(b) \o first) \o rest = Contents(b) \o (first \o rest)
        <4>1. Contents(b) \in Seq(B) /\ first \in Seq(B) /\ rest \in Seq(B)
          BY <1>1, <2>1
        <4>. QED BY SMTT(30), <4>1, Associative
      <3>. QED BY <2>2, <3>1, Zenon
    <2>. QED BY <2>3, <2>4, <2>5, <2>6 DEF Fits
  <1>. QED BY <1>2, <1>3

\* Bytes leave at the front.
LEMMA ReadPosIncreaseDrops ==
    ASSUME NEW B, NEW b, IsBuffer(b, B), NEW count \in 0 .. Readable(b)
    PROVE  /\ IsBuffer(ReadPosIncrease(b, count), B)
           /\ Contents(ReadPosIncrease(b, count))
                = SubSeq(Contents(b), count + 1, Readable(b))
           /\ Capacity(ReadPosIncrease(b, count)) = Capacity(b)
  <1>. DEFINE c == ReadPosIncrease(b, count)
              s == SubSeq(Contents(b), count + 1, Readable(b))
  <1>1. /\ b.mem \in Seq(B) /\ b.readPos \in Nat /\ b.writePos \in Nat
        /\ b.writePos <= Len(b.mem) /\ Len(b.mem) \in Nat
        /\ Readable(b) \in Nat /\ count \in Nat /\ count <= Readable(b)
        /\ b.readPos + Readable(b) = b.writePos
    BY LenProperties, ContentsIsSeq DEF IsBuffer, Readable
  <1>2. c = [mem |-> b.mem, readPos |-> b.readPos + count, writePos |-> b.writePos]
    BY DEF ReadPosIncrease, Record
  <1>3. IsBuffer(c, B) /\ Capacity(c) = Capacity(b)
    BY <1>1, <1>2 DEF IsBuffer, Capacity
  <1>4. Readable(c) = Readable(b) - count /\ c.readPos = b.readPos + count /\ c.mem = b.mem
    BY <1>1, <1>2 DEF Readable
  <1>. HIDE DEF c
  <1>5. /\ Contents(b) \in Seq(B) /\ Len(Contents(b)) = Readable(b)
        /\ Contents(c) \in Seq(B) /\ Len(Contents(c)) = Readable(c)
        /\ \A i \in 1 .. Readable(b) : Contents(b)[i] = b.mem[b.readPos + i]
        /\ \A i \in 1 .. Readable(c) : Contents(c)[i] = c.mem[c.readPos + i]
    BY <1>3, ContentsIsSeq
  <1>6. /\ s \in Seq(B) /\ Len(s) = Readable(b) - count
        /\ \A i \in 1 .. Readable(b) - count : s[i] = Contents(b)[count + i]
    <2>1. \A i \in count + 1 .. Readable(b) : Contents(b)[i] \in B
      BY <1>1, <1>5, ElementOfSeq
    <2>2. /\ s \in Seq(B)
          /\ Len(s) = IF count + 1 <= Readable(b)
                        THEN Readable(b) - (count + 1) + 1 ELSE 0
          /\ \A i \in 1 .. Readable(b) - (count + 1) + 1 :
               s[i] = Contents(b)[(count + 1) + i - 1]
      BY <1>1, <2>1, SubSeqProperties
    <2>3. Len(s) = Readable(b) - count
      BY <1>1, <2>2
    <2>4. ASSUME NEW i \in 1 .. Readable(b) - count
          PROVE  s[i] = Contents(b)[count + i]
      <3>1. i \in 1 .. Readable(b) - (count + 1) + 1 /\ (count + 1) + i - 1 = count + i
        BY <1>1
      <3>. QED BY <2>2, <3>1
    <2>. QED BY <2>2, <2>3, <2>4
  <1>. HIDE DEF s
  <1>7. ASSUME NEW i \in 1 .. Readable(c)
        PROVE  Contents(c)[i] = s[i]
    <2>1. count + i \in 1 .. Readable(b) /\ i \in 1 .. Readable(b) - count
      BY <1>1, <1>4
    <2>2. b.readPos + count + i = b.readPos + (count + i)
      BY <1>1
    <2>. QED BY <1>4, <1>5, <1>6, <2>1, <2>2
  <1>8. Contents(c) = s
    BY <1>4, <1>5, <1>6, <1>7, SeqEqual
  <1>. QED BY <1>3, <1>8 DEF c, s

LEMMA SentDrops ==
    ASSUME NEW B, NEW b, IsBuffer(b, B), NEW count \in 1 .. Readable(b)
    PROVE  /\ IsBuffer(Sent(b, count), B)
           /\ SubSeq(Contents(b), 1, count) \o Contents(Sent(b, count)) = Contents(b)
           /\ SubSeq(Contents(b), 1, count) \in Seq(B)
           /\ Capacity(Sent(b, count)) = Capacity(b)
  <1>. DEFINE r == Readable(b)
              rest == SubSeq(Contents(b), count + 1, r)
  <1>1. /\ Contents(b) \in Seq(B) /\ Len(Contents(b)) = r /\ r \in Nat
        /\ count \in Nat /\ 1 <= count /\ count <= r
    BY ContentsIsSeq
  <1>2. SubSeq(Contents(b), 1, count) \o rest = Contents(b)
    <2>1. 1 \in 1 .. r + 1 /\ count \in 1 - 1 .. r /\ r \in count .. r
      BY <1>1
    <2>2. SubSeq(Contents(b), 1, count) \o rest = SubSeq(Contents(b), 1, r)
      BY <1>1, <2>1, ConcatAdjacentSubSeq
    <2>. QED BY <1>1, <2>2, SubSeqFull
  <1>3. SubSeq(Contents(b), 1, count) \in Seq(B)
    <2>1. \A i \in 1 .. count : Contents(b)[i] \in B
      BY <1>1, ElementOfSeq
    <2>. QED BY <1>1, <2>1, SubSeqProperties
  <1>4. IsBuffer(Sent(b, count), B) /\ Contents(Sent(b, count)) = rest
        /\ Capacity(Sent(b, count)) = Capacity(b)
    <2>1. CASE b.readPos + count = b.writePos
      <3>1. Sent(b, count) = [mem |-> b.mem, readPos |-> 0, writePos |-> 0]
        BY <2>1 DEF Sent, Record
      <3>2. IsBuffer(Sent(b, count), B) /\ Capacity(Sent(b, count)) = Capacity(b)
        BY <3>1, LenProperties DEF IsBuffer, Capacity
      <3>3. Readable(Sent(b, count)) = 0
        BY <3>1 DEF Readable
      <3>4. Contents(Sent(b, count)) = <<>>
        BY <3>2, <3>3, ContentsIsSeq, EmptySeq
      <3>5. count = r
        BY <1>1, <2>1 DEF Readable, IsBuffer
      <3>6. rest = <<>>
        BY <1>1, <3>5, SubSeqEmpty
      <3>. QED BY <3>2, <3>4, <3>6
    <2>2. CASE b.readPos + count # b.writePos
      <3>1. Sent(b, count) = ReadPosIncrease(b, count)
        BY <2>2 DEF Sent
      <3>2. count \in 0 .. Readable(b)
        BY <1>1
      <3>. QED BY <3>1, <3>2, ReadPosIncreaseDrops
    <2>. QED BY <2>1, <2>2
  <1>. QED BY <1>2, <1>3, <1>4
-----------------------------------------------------------------------------
\* The composition.  What a buffer holds: bytes of the stream, or of answers.
ReadBytes == ByteSet \cup {Zero}
AnswerBytes == (Nat \X Nat) \cup {Zero}

BuffersOk ==
    /\ stream \in Seq(ReadBytes)
    /\ results \in Seq(Verdicts)
    /\ IsBuffer(readBuf, ReadBytes) /\ IsBuffer(writeBuf, AnswerBytes)
    /\ wire \in Seq(AnswerBytes) /\ answered \in Seq(AnswerBytes)

BInv == IInv /\ BuffersOk /\ BuffersInOrder

LEMMA InitBInv == BufferedInit => BInv
  <1>. SUFFICES ASSUME BufferedInit PROVE BInv
    OBVIOUS
  <1>1. IInv
    BY InitIInv DEF BufferedInit
  <1>2. stream \in Seq(ReadBytes)
    <2>1. stream \in Seq(ByteSet)
      BY ScriptIs DEF BufferedInit, Init
    <2>2. ByteSet \subseteq ReadBytes
      BY DEF ReadBytes
    <2>. QED BY <2>1, <2>2, SeqMonotonic
  <1>3. /\ IsBuffer(readBuf, ReadBytes) /\ Contents(readBuf) = <<>>
        /\ IsBuffer(writeBuf, AnswerBytes) /\ Contents(writeBuf) = <<>>
    <2>1. Zero \in ReadBytes /\ Zero \in AnswerBytes /\ BufferSize \in Nat
      BY AnswerAssumption DEF ReadBytes, AnswerBytes
    <2>. QED BY <2>1, NewIsBuffer DEF BufferedInit
  <1>4. BuffersOk
    BY <1>2, <1>3, EmptySeq DEF BuffersOk, BufferedInit, Init
  <1>5. BuffersInOrder
    <2>1. SubSeq(stream, pos + 1, read) = <<>>
      <3>1. pos + 1 \in Int /\ read \in Int /\ read < pos + 1
        BY DEF BufferedInit, Init
      <3>. QED BY <3>1, SubSeqEmpty
    <2>2. wire \o Contents(writeBuf) = answered
      <3>1. wire = <<>> /\ answered = <<>> /\ wire \in Seq(AnswerBytes)
        BY <1>4 DEF BufferedInit, BuffersOk
      <3>. QED BY <1>3, <3>1, ConcatEmptySeq
    <2>. QED BY <1>3, <2>1, <2>2 DEF BuffersInOrder
  <1>. QED BY <1>1, <1>4, <1>5 DEF BInv

\* The parser takes bytes from the front of what has been read, and gives at
\* most one verdict at a time.
LEMMA ParseMoves ==
    ASSUME IInv, Parse
    PROVE  /\ stream' = stream /\ read' = read /\ pos' \in pos .. read
           /\ \/ results' = results
              \/ \E v \in Verdicts : results' = Append(results, v)
  <1>1. /\ read \in Nat /\ pos \in Nat /\ pos <= read
        /\ bodyExpected \in Nat /\ bodySize \in Nat /\ bodySize <= bodyExpected
    BY DEF IInv, Places, Sizes, MemoryBounded
  <1>2. CASE LineMissing
    BY <1>1, <1>2 DEF LineMissing, Fail, input, Verdicts
  <1>3. CASE ParseBody
    <2>1. Take \in Nat /\ Take <= read - pos
      BY <1>1, LeastBounds DEF Take
    <2>. QED BY <1>1, <1>3, <2>1 DEF ParseBody, input
  <1>4. CASE RequestDone
    BY <1>1, <1>4 DEF RequestDone, input, Verdicts
  <1>5. ASSUME NEW k \in pos + 1 .. read - 1, ParseLine(k)
        PROVE  /\ stream' = stream /\ read' = read /\ pos' \in pos .. read
               /\ \/ results' = results
                  \/ \E v \in Verdicts : results' = Append(results, v)
    <2>1. k + 1 \in pos .. read /\ pos \in pos .. read
      BY <1>1
    <2>2. CASE ParseRequestLine(k)
      BY <2>1, <2>2 DEF ParseRequestLine, Fail, input, Verdicts
    <2>3. CASE ParseHeader(k)
      BY <2>1, <2>3 DEF ParseHeader, Fail, input, Verdicts
    <2>4. CASE ParseHeadersEnd(k)
      BY <2>1, <2>4 DEF ParseHeadersEnd, Fail, input, Verdicts
    <2>. QED BY <1>5, <2>2, <2>3, <2>4 DEF ParseLine
  <1>. QED BY <1>2, <1>3, <1>4, <1>5 DEF Parse

LEMMA ReceiveStep ==
    ASSUME BInv, NEW n \in 1 .. ReadMax, ReceiveBytes(n)
    PROVE  BInv' /\ Fits(readBuf, readBuf') /\ Fits(writeBuf, writeBuf')
  <1>. DEFINE had == SubSeq(stream, pos + 1, read)
              new == SubSeq(stream, read + 1, read + n)
  <1>1. /\ IInv /\ stream \in Seq(ReadBytes) /\ Zero \in ReadBytes
        /\ IsBuffer(readBuf, ReadBytes) /\ IsBuffer(writeBuf, AnswerBytes)
        /\ Contents(readBuf) = had
    BY DEF BInv, BuffersOk, BuffersInOrder, ReadBytes
  <1>2. /\ read \in Nat /\ pos \in Nat /\ pos <= read /\ n \in Nat /\ 1 <= n
        /\ Len(stream) \in Nat /\ read + n <= Len(stream)
        /\ read' = read + n /\ pos' = pos /\ stream' = stream
        /\ results' = results /\ readBuf' = SocketRead(readBuf, new)
        /\ UNCHANGED <<writeBuf, wire, answered>>
    BY <1>1, ParserAssumption DEF ReceiveBytes, Receive, IInv, Places, input
  <1>3. new \in Seq(ReadBytes)
    <2>1. \A i \in read + 1 .. read + n : stream[i] \in ReadBytes
      BY <1>1, <1>2, ElementOfSeq
    <2>. QED BY <1>2, <2>1, SubSeqProperties
  <1>4. had \o new = SubSeq(stream, pos + 1, read + n)
    <2>1. /\ pos + 1 \in 1 .. Len(stream) + 1 /\ read \in (pos + 1) - 1 .. Len(stream)
          /\ read + n \in read .. Len(stream)
      BY <1>2
    <2>. QED BY <1>1, <2>1, ConcatAdjacentSubSeq
  <1>. HIDE DEF had, new
  <1>5. /\ IsBuffer(readBuf', ReadBytes) /\ Contents(readBuf') = had \o new
        /\ Fits(readBuf, readBuf')
    BY <1>1, <1>2, <1>3, SocketReadAppends
  <1>6. ReadBytes' = ReadBytes
    BY <1>2 DEF ReadBytes
  <1>7. BuffersOk'
    BY <1>2, <1>5, <1>6 DEF BInv, BuffersOk
  <1>8. BuffersInOrder'
    BY <1>2, <1>4, <1>5 DEF BInv, BuffersInOrder
  <1>9. IInv'
    BY <1>1, ReceiveKeeps DEF ReceiveBytes
  <1>10. Fits(writeBuf, writeBuf')
    BY <1>1, <1>2, ContentsIsSeq DEF Fits
  <1>. QED BY <1>5, <1>7, <1>8, <1>9, <1>10 DEF BInv

LEMMA MarkedIsSeq ==
    ASSUME NEW n \in Nat, NEW s \in Seq(Nat)
    PROVE  Marked(n, s) \in Seq(AnswerBytes)
  <1>1. DOMAIN s = 1 .. Len(s) /\ Len(s) \in Nat
    BY LenProperties
  <1>2. \A k \in 1 .. Len(s) : <<n, s[k]>> \in AnswerBytes
    BY <1>1, ElementOfSeq DEF AnswerBytes
  <1>. DEFINE f == Marked(n, s)
  <1>3. f = [k \in 1 .. Len(s) |-> <<n, s[k]>>]
    BY <1>1 DEF Marked
  <1>4. f = [k \in 1 .. Len(s) |-> f[k]] /\ \A k \in 1 .. Len(s) : f[k] \in AnswerBytes
    BY <1>2, <1>3
  <1>. HIDE DEF f
  <1>5. f \in Seq(AnswerBytes)
    BY <1>1, <1>4, FunctionIsSeq
  <1>. QED BY <1>5 DEF f

LEMMA PrepareMsgKeeps ==
    ASSUME BInv, NEW h \in Seq(AnswerBytes), NEW d \in Seq(AnswerBytes),
           PrepareMsg(h, d), wire' = wire
    PROVE  /\ IsBuffer(writeBuf', AnswerBytes) /\ answered' \in Seq(AnswerBytes)
           /\ wire' \o Contents(writeBuf') = answered'
           /\ Fits(writeBuf, writeBuf')
  <1>. DEFINE S == Seq(AnswerBytes)
              c == AppendString(writeBuf, h)
  <1>1. /\ IsBuffer(writeBuf, AnswerBytes) /\ Zero \in AnswerBytes
        /\ wire \in S /\ answered \in S /\ wire \o Contents(writeBuf) = answered
    BY DEF BInv, BuffersOk, BuffersInOrder, AnswerBytes
  <1>2. writeBuf' = AppendString(c, d) /\ answered' = (answered \o h) \o d
    BY DEF PrepareMsg
  <1>3. /\ IsBuffer(c, AnswerBytes) /\ Contents(c) = Contents(writeBuf) \o h
        /\ Readable(c) = Readable(writeBuf) + Len(h)
        /\ Capacity(c) >= Capacity(writeBuf) /\ Fits(writeBuf, c)
    BY <1>1, AppendAppends
  <1>. HIDE DEF c
  <1>4. /\ IsBuffer(writeBuf', AnswerBytes) /\ Contents(writeBuf') = Contents(c) \o d
        /\ Readable(writeBuf') = Readable(c) + Len(d)
        /\ Capacity(writeBuf') >= Capacity(c) /\ Fits(c, writeBuf')
    BY <1>1, <1>2, <1>3, AppendAppends
  <1>5. answered' \in S
    BY <1>1, <1>2, ConcatProperties
  <1>6. wire \o Contents(writeBuf') = answered'
    <2>1. Contents(writeBuf) \in S /\ Contents(c) \in S
      BY <1>1, <1>3, ContentsIsSeq
    <2>2. h \in S /\ d \in S /\ wire \in S
      BY <1>1
    <2>3. wire \o Contents(c) = answered \o h
      <3>. DEFINE e == Contents(writeBuf)
      <3>a. e \in S
        BY <2>1
      <3>. HIDE DEF e
      <3>1. (wire \o e) \o h = wire \o (e \o h)
        BY SMTT(30), <2>2, <3>a, Associative
      <3>. USE DEF e
      <3>. QED BY <1>1, <1>3, <3>1, Zenon
    <2>4. (wire \o Contents(c)) \o d = wire \o Contents(writeBuf')
      <3>1. (wire \o Contents(c)) \o d = wire \o (Contents(c) \o d)
        BY SMTT(30), <2>1, <2>2, Associative
      <3>. QED BY <1>4, <3>1, Zenon
    <2>. QED BY <1>2, <2>3, <2>4, Zenon
  <1>7. Fits(writeBuf, writeBuf')
    <2>1. /\ Capacity(writeBuf) \in Nat /\ Capacity(c) \in Nat
          /\ Capacity(writeBuf') \in Nat /\ Readable(writeBuf) \in Nat
      BY <1>1, <1>3, <1>4, ContentsIsSeq
    <2>2. Len(h) \in Nat /\ Len(d) \in Nat
      BY LenProperties
    <2>. QED BY <1>3, <1>4, <2>1, <2>2 DEF Fits
  <1>. QED BY <1>4, <1>5, <1>6, <1>7

LEMMA Between ==
    ASSUME NEW p \in Nat, NEW r \in Nat, NEW q \in p .. r
    PROVE  /\ q \in Nat /\ p <= q /\ q <= r
           /\ q - p \in 0 .. r - p
  OBVIOUS

LEMMA ParseStep ==
    ASSUME BInv, ParseBytes
    PROVE  BInv' /\ Fits(readBuf, readBuf') /\ Fits(writeBuf, writeBuf')
  <1>. DEFINE count == pos' - pos
              had == SubSeq(stream, pos + 1, read)
  <1>1. /\ IInv /\ Parse /\ stream \in Seq(ReadBytes) /\ results \in Seq(Verdicts)
        /\ IsBuffer(readBuf, ReadBytes) /\ IsBuffer(writeBuf, AnswerBytes)
        /\ Contents(readBuf) = had /\ wire' = wire
        /\ wire \in Seq(AnswerBytes) /\ answered \in Seq(AnswerBytes)
        /\ readBuf' = ReadPosIncrease(readBuf, count)
    BY DEF BInv, BuffersOk, BuffersInOrder, ParseBytes
  <1>2. /\ stream' = stream /\ read' = read /\ pos' \in pos .. read
    BY <1>1, ParseMoves
  <1>a. results' = results \/ \E v \in Verdicts : results' = Append(results, v)
    BY <1>1, ParseMoves
  <1>3. /\ pos \in Nat /\ read \in Nat /\ pos <= read
        /\ Len(stream) \in Nat /\ read <= Len(stream)
    BY <1>1 DEF IInv, Places
  <1>4. /\ pos' \in Nat /\ pos <= pos' /\ pos' <= read
        /\ count \in 0 .. read - pos
    BY <1>2, <1>3, Between
  <1>5. had \in Seq(ReadBytes) /\ Len(had) = read - pos
    <2>1. \A i \in pos + 1 .. read : stream[i] \in ReadBytes
      BY <1>1, <1>3, ElementOfSeq
    <2>. QED BY <1>3, <2>1, SubSeqProperties
  <1>6. Readable(readBuf) = read - pos
    BY <1>1, <1>5, ContentsIsSeq
  <1>7. /\ IsBuffer(readBuf', ReadBytes) /\ Capacity(readBuf') = Capacity(readBuf)
        /\ Contents(readBuf') = SubSeq(had, count + 1, read - pos)
    <2>1. count \in 0 .. Readable(readBuf)
      BY <1>4, <1>6
    <2>. QED BY <1>1, <1>6, <2>1, ReadPosIncreaseDrops
  <1>8. SubSeq(had, count + 1, read - pos) = SubSeq(stream, pos' + 1, read)
    BY ZenonT(30), <1>1, <1>3, <1>4, RestOfSubSeq
  <1>. HIDE DEF had
  <1>9. /\ IsBuffer(writeBuf', AnswerBytes) /\ answered' \in Seq(AnswerBytes)
        /\ wire' \o Contents(writeBuf') = answered'
        /\ Fits(writeBuf, writeBuf') /\ results' \in Seq(Verdicts)
    <2>1. CASE results' = results
      <3>1. writeBuf' = writeBuf /\ answered' = answered
        BY <2>1 DEF ParseBytes
      <3>2. wire \o Contents(writeBuf) = answered /\ Fits(writeBuf, writeBuf)
        BY <1>1, ContentsIsSeq DEF BInv, BuffersInOrder, Fits
      <3>. QED BY <1>1, <2>1, <3>1, <3>2
    <2>2. ASSUME results' # results,
                 NEW v \in Verdicts, results' = Append(results, v)
          PROVE  /\ IsBuffer(writeBuf', AnswerBytes) /\ answered' \in Seq(AnswerBytes)
                 /\ wire' \o Contents(writeBuf') = answered'
                 /\ Fits(writeBuf, writeBuf') /\ results' \in Seq(Verdicts)
      <3>. DEFINE n == Len(results')
      <3>1. n \in Nat /\ results'[n] = v /\ results' \in Seq(Verdicts)
        BY <1>1, <2>2, AppendProperties, LenProperties
      <3>2. PrepareMsg(Marked(n, Heads[v]), Marked(n, Bodies[v]))
        BY <2>2, <3>1 DEF ParseBytes
      <3>. HIDE DEF n
      <3>3. /\ Marked(n, Heads[v]) \in Seq(AnswerBytes)
            /\ Marked(n, Bodies[v]) \in Seq(AnswerBytes)
        BY <3>1, MarkedIsSeq, AnswerAssumption
      <3>. QED BY <1>1, <3>1, <3>2, <3>3, PrepareMsgKeeps
    <2>. QED BY <1>a, <2>1, <2>2
  <1>10. ReadBytes' = ReadBytes
    BY <1>2 DEF ReadBytes
  <1>11. BuffersOk'
    BY <1>1, <1>2, <1>7, <1>9, <1>10 DEF BuffersOk
  <1>12. BuffersInOrder'
    BY <1>2, <1>7, <1>8, <1>9 DEF BuffersInOrder
  <1>13. IInv'
    BY <1>1, NextIInv DEF Next
  <1>14. Fits(readBuf, readBuf')
    BY <1>1, <1>7, ContentsIsSeq DEF Fits
  <1>. QED BY <1>9, <1>11, <1>12, <1>13, <1>14 DEF BInv

LEMMA SendStep ==
    ASSUME BInv, NEW count \in 1 .. Readable(writeBuf), SendBytes(count)
    PROVE  BInv' /\ Fits(readBuf, readBuf') /\ Fits(writeBuf, writeBuf')
  <1>. DEFINE S == Seq(AnswerBytes)
              sent == SubSeq(Contents(writeBuf), 1, count)
  <1>1. /\ IInv /\ IsBuffer(readBuf, ReadBytes) /\ IsBuffer(writeBuf, AnswerBytes)
        /\ wire \in S /\ answered \in S /\ wire \o Contents(writeBuf) = answered
    BY DEF BInv, BuffersOk, BuffersInOrder
  <1>2. /\ wire' = wire \o sent /\ writeBuf' = Sent(writeBuf, count)
        /\ UNCHANGED <<vars, readBuf, answered>>
    BY DEF SendBytes
  <1>3. /\ IsBuffer(writeBuf', AnswerBytes) /\ sent \in S
        /\ sent \o Contents(writeBuf') = Contents(writeBuf)
        /\ Capacity(writeBuf') = Capacity(writeBuf)
    BY <1>1, <1>2, SentDrops
  <1>. HIDE DEF sent
  <1>4. Contents(writeBuf') \in S /\ wire' \in S
    BY <1>1, <1>2, <1>3, ContentsIsSeq, ConcatProperties
  <1>5. wire' \o Contents(writeBuf') = answered'
    <2>1. (wire \o sent) \o Contents(writeBuf') = wire \o (sent \o Contents(writeBuf'))
      <3>1. wire \in S /\ sent \in S /\ Contents(writeBuf') \in S
        BY <1>1, <1>3, <1>4
      <3>. QED BY SMTT(30), <3>1, Associative
    <2>. QED BY <1>1, <1>2, <1>3, <2>1, Zenon
  <1>6. IInv'
    BY <1>1, <1>2, NextIInv
  <1>7. BuffersOk' /\ BuffersInOrder'
    BY <1>2, <1>3, <1>4, <1>5
    DEF BInv, BuffersOk, BuffersInOrder, ReadBytes, vars, input
  <1>8. Fits(readBuf, readBuf') /\ Fits(writeBuf, writeBuf')
    BY SMTT(30), <1>1, <1>2, <1>3, ContentsIsSeq DEF Fits
  <1>. QED BY <1>6, <1>7, <1>8 DEF BInv

LEMMA SendFileStep ==
    ASSUME BInv, SendFile
    PROVE  BInv' /\ Fits(readBuf, readBuf') /\ Fits(writeBuf, writeBuf')
  <1>1. /\ FileDone /\ UNCHANGED <<readBuf, writeBuf, wire, answered>>
        /\ UNCHANGED <<input, read, pos, results>>
    BY DEF SendFile, FileDone
  <1>2. IInv'
    BY <1>1, FileDoneKeeps DEF BInv
  <1>3. BuffersOk' /\ BuffersInOrder'
    BY <1>1 DEF BInv, BuffersOk, BuffersInOrder, ReadBytes, input
  <1>4. Fits(readBuf, readBuf') /\ Fits(writeBuf, writeBuf')
    <2>1. IsBuffer(readBuf, ReadBytes) /\ IsBuffer(writeBuf, AnswerBytes)
      BY DEF BInv, BuffersOk
    <2>. QED BY <1>1, <2>1, ContentsIsSeq DEF Fits
  <1>. QED BY <1>2, <1>3, <1>4 DEF BInv

LEMMA NextBInv ==
    BInv /\ [BufferedNext]_allVars =>
        /\ BInv'
        /\ [Fits(readBuf, readBuf') /\ Fits(writeBuf, writeBuf')]_allVars
  <1>. SUFFICES ASSUME BInv, [BufferedNext]_allVars
                PROVE  /\ BInv'
                       /\ [Fits(readBuf, readBuf') /\ Fits(writeBuf, writeBuf')]_allVars
    OBVIOUS
  <1>1. CASE UNCHANGED allVars
    <2>1. IInv'
      BY <1>1, NextIInv DEF BInv, allVars
    <2>. QED BY <1>1, <2>1
             DEF allVars, vars, input, BInv, BuffersOk, BuffersInOrder, ReadBytes
  <1>2. CASE BufferedNext
    BY <1>2, ReceiveStep, ParseStep, SendFileStep, SendStep DEF BufferedNext
  <1>. QED BY <1>1, <1>2
-----------------------------------------------------------------------------
\* For buffers of every size and reads of every length, the parser finds in the
\* read buffer exactly what the client has sent and no request has taken, and
\* the answers leave in order and unharmed, wherever in memory the buffers move
\* them (Buffer.cpp:26-57, 95-129, 137-168).
THEOREM BuffersKeepOrder == BufferedSpec => []BuffersInOrder
  <1>1. BInv => BuffersInOrder
    BY DEF BInv
  <1>. QED BY <1>1, InitBInv, NextBInv, PTL DEF BufferedSpec

\* Memory is taken only for bytes that do not fit (Buffer.cpp:29-56).
THEOREM BuffersGrowOnlyIfFull == BufferedSpec => GrowsOnlyIfFull
  BY InitBInv, NextBInv, PTL DEF BufferedSpec, GrowsOnlyIfFull

\* What the parser does behind its buffers is what it does on the stream: the
\* theorems about Spec hold of BufferedSpec (TcpConnection.cpp:98-117,
\* 173-182).
THEOREM BuffersHideNothing == BufferedSpec => Spec
  <1>1. BufferedInit => Init
    BY DEF BufferedInit
  <1>2. [BufferedNext]_allVars => [Next]_vars
    <2>. SUFFICES ASSUME [BufferedNext]_allVars PROVE [Next]_vars
      OBVIOUS
    <2>1. CASE \E n \in 1 .. ReadMax : ReceiveBytes(n)
      BY <2>1 DEF ReceiveBytes, Next
    <2>2. CASE ParseBytes
      BY <2>2 DEF ParseBytes, Next
    <2>3. CASE \E n \in 1 .. Readable(writeBuf) : SendBytes(n)
      BY <2>3 DEF SendBytes
    <2>4. CASE SendFile
      BY <2>4 DEF SendFile, Next
    <2>5. CASE UNCHANGED allVars
      BY <2>5 DEF allVars
    <2>. QED BY <2>1, <2>2, <2>3, <2>4, <2>5 DEF BufferedNext
  <1>. QED BY <1>1, <1>2, PTL DEF BufferedSpec, Spec
=============================================================================
