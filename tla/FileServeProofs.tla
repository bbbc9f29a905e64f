--------------------------- MODULE FileServeProofs ---------------------------
(***************************************************************************)
(* For files of any size, any requests and any number of other workers     *)
(* that keep to SharedFile: an answer has the length it announces if the   *)
(* connection goes on, and only a DELETE or a failing system call during   *)
(* the request can cut it.                                                 *)
(*                                                                         *)
(* The length is announced from a size that is out of date when the file   *)
(* is opened, and the file may have been replaced by then.  Two facts      *)
(* carry the proof: what is delivered and what remains are together what   *)
(* was announced (Frame), and as long as nobody has deleted the file and   *)
(* no call has failed on it, it has everything that was announced (Uncut). *)
(*                                                                         *)
(* And for texts of any length, ranges with any ends and files of any      *)
(* size, the range that is sent is the one that was asked for:             *)
(* parseDecimal is the number its digits denote (DecimalIs), the answer    *)
(* made of two numbers has exactly the positions between them              *)
(* (RangeAnswerExact).                                                     *)
(***************************************************************************)
EXTENDS FileServe, SequenceTheorems, WellFoundedInduction, NaturalsInduction, TLAPS

\* ByteRange: the answer to a range, and what parseDecimal computes.
Ends == Nat \cup {NoNumber, Absent}

\* An answer with the positions b .. c, if these are the ones asked for.
LEMMA PartialExact ==
    ASSUME NEW first, NEW last, NEW extent \in Nat,
           NEW b \in Nat, NEW c \in Nat, b <= c,
           NEW a, a = [status |-> 206, start |-> b, count |-> c - b + 1],
           Asked(first, last, extent) = b .. c
    PROVE  Exact(first, last, extent, a)
  <1>1. a.status = 206 /\ a.start = b /\ a.count = c - b + 1
    OBVIOUS
  <1>2. b + (c - b + 1) - 1 = c
    OBVIOUS
  <1>3. Positions(a) = b .. c
    BY <1>1, <1>2 DEF Positions
  <1>4. Positions(a) = Asked(first, last, extent)
    BY <1>3
  <1>5. b \in Positions(a)
    BY <1>3
  <1>6. a.status # 416 /\ a.status # 200
    BY <1>1
  <1>. QED BY Zenon, <1>4, <1>5, <1>6 DEF Exact

LEMMA SuffixExact ==
    ASSUME NEW last \in Ends, NEW extent \in Nat
    PROVE  Exact(Absent, last, extent, Reply(Suffix(last, extent), extent))
  <1>. DEFINE r == Suffix(last, extent)
              a == Reply(r, extent)
  <1>1. CASE last < 0
    BY <1>1 DEF Ends, NoNumber, Absent, Suffix, Ignore, Reply, Exact, Positions
  <1>2. CASE last = 0 \/ (last > 0 /\ extent = 0)
    BY <1>2 DEF Ends, NoNumber, Absent, Suffix, Unsatisfiable, Reply, Exact, Asked
  <1>3. CASE last > 0 /\ last >= extent /\ extent > 0
    <2>1. a = [status |-> 206, start |-> 0, count |-> extent - 1 - 0 + 1]
      BY <1>3 DEF Ends, NoNumber, Absent, Suffix, Partial, Reply
    <2>2. Asked(Absent, last, extent) = 0 .. extent - 1
      BY <1>3 DEF Ends, NoNumber, Absent, Asked
    <2>. QED BY <1>3, <2>1, <2>2, PartialExact
  <1>4. CASE last > 0 /\ last < extent
    <2>1. a = [status |-> 206, start |-> extent - last,
               count |-> extent - 1 - (extent - last) + 1]
      BY <1>4 DEF Ends, NoNumber, Absent, Suffix, Partial, Reply
    <2>2. Asked(Absent, last, extent) = extent - last .. extent - 1
      BY <1>4 DEF Ends, NoNumber, Absent, Asked
    <2>3. extent - last \in Nat /\ extent - 1 \in Nat /\ extent - last <= extent - 1
      BY <1>4 DEF Ends, NoNumber, Absent
    <2>. QED BY <2>1, <2>2, <2>3, PartialExact
  <1>. QED BY <1>1, <1>2, <1>3, <1>4 DEF Ends, NoNumber, Absent

LEMMA FromToExact ==
    ASSUME NEW first \in Nat \cup {NoNumber}, NEW last \in Ends, NEW extent \in Nat
    PROVE  Exact(first, last, extent, Reply(FromTo(first, last, extent), extent))
  <1>. DEFINE end == IF last # Absent /\ last < extent - 1 THEN last ELSE extent - 1
              a == Reply(FromTo(first, last, extent), extent)
  <1>1. CASE first = NoNumber
    BY <1>1 DEF FromTo, Ignore, Reply, Exact, Positions
  <1>2. CASE first # NoNumber /\ first >= extent
    <2>1. Asked(first, last, extent) = {}
      BY <1>2 DEF NoNumber, Absent, Asked
    <2>. QED BY <1>2, <2>1 DEF FromTo, Unsatisfiable, Reply, Exact
  <1>3. CASE /\ first # NoNumber /\ first < extent
             /\ last = NoNumber \/ last \in 0 .. first - 1
    BY <1>3 DEF FromTo, Ignore, Reply, Exact, Positions
  <1>4. CASE /\ first # NoNumber /\ first < extent
             /\ ~(last = NoNumber \/ last \in 0 .. first - 1)
    <2>1. a = [status |-> 206, start |-> first, count |-> end - first + 1]
      BY <1>4 DEF FromTo, Partial, Reply
    <2>2. end \in first .. extent - 1
      BY <1>4 DEF Ends, NoNumber, Absent
    <2>3. Asked(first, last, extent) = first .. end
      BY <1>4, <2>2 DEF Ends, NoNumber, Absent, Asked
    <2>4. first \in Nat /\ end \in Nat /\ first <= end
      BY <1>4, <2>2 DEF NoNumber
    <2>. HIDE DEF end
    <2>. QED BY <2>1, <2>3, <2>4, PartialExact
  <1>. QED BY <1>1, <1>2, <1>3, <1>4 DEF NoNumber
-----------------------------------------------------------------------------
\* An answer 206 sends exactly the positions asked for, all of them in the
\* file and at least one, and 416 is sent only when none is there
\* (HttpRequest.cpp:255-325, 1113-1138).
THEOREM RangeAnswerExact ==
    ASSUME NEW first \in Ends, NEW last \in Ends, NEW extent \in Nat
    PROVE  Exact(first, last, extent, Reply(ParseRange(first, last, extent), extent))
  <1>1. CASE first = Absent
    BY <1>1, SuffixExact DEF ParseRange
  <1>2. CASE first # Absent
    BY <1>2, FromToExact DEF ParseRange, Ends
  <1>. QED BY <1>1, <1>2

-----------------------------------------------------------------------------
\* A set of numbers that has 0, and with every number the next one.
LEMMA NatSet ==
  ASSUME NEW S \in SUBSET Nat, 0 \in S, \A n \in S : n + 1 \in S
  PROVE  S = Nat
<1> DEFINE T == Nat \ S
<1> SUFFICES ASSUME T # {} PROVE FALSE
  OBVIOUS
<1>1. PICK x \in T : \A y \in T : ~(<<y, x>> \in OpToRel(<, Nat))
  <2>1. T \in SUBSET Nat
    OBVIOUS
  <2> HIDE DEF T
  <2> QED
    BY <2>1, NatLessThanWellFounded, WFMin
<1>2. x \in Nat /\ x # 0
  OBVIOUS
<1>3. <<x - 1, x>> \in OpToRel(<, Nat)
  BY <1>2 DEF OpToRel
<1>4. x - 1 \notin T
  BY <1>1, <1>3, Zenon
<1>5. x - 1 \in S
  BY <1>2, <1>4
<1>6. (x - 1) + 1 \in S
  BY <1>5
<1> QED
  BY <1>2, <1>6

\* What is true of 0 and passes on from one number to the next is true up to n.
LEMMA UpTo ==
  ASSUME NEW n \in Nat, NEW T \in SUBSET (0 .. n), 0 \in T,
         \A i \in 1 .. n : i - 1 \in T => i \in T
  PROVE  T = 0 .. n
<1> DEFINE S == {i \in Nat : i <= n => i \in T}
<1>1. 0 \in S
  OBVIOUS
<1>2. ASSUME NEW i \in S PROVE i + 1 \in S
  <2>1. CASE i + 1 <= n
    <3>1. i + 1 \in 1 .. n /\ (i + 1) - 1 = i /\ i \in T
      BY <2>1
    <3> QED
      BY <3>1
  <2>2. CASE ~(i + 1 <= n)
    BY <2>2
  <2> QED
    BY <2>1, <2>2
<1>3. S = Nat
  <2>1. S \in SUBSET Nat
    OBVIOUS
  <2> HIDE DEF S
  <2> QED
    BY <1>1, <1>2, <2>1, NatSet
<1>4. ASSUME NEW i \in 0 .. n PROVE i \in T
  <2>1. i \in Nat /\ i <= n
    OBVIOUS
  <2>2. i \in S
    BY <1>3, <2>1
  <2> QED
    BY <2>1, <2>2
<1> QED
  BY <1>4

\* f recurs over the numbers up to n, from x, in steps that the function g makes.
Recurs(f, n, X, x, g) ==
    f \in [0 .. n -> X] /\ f[0] = x /\ \A i \in 1 .. n : f[i] = g[i][f[i - 1]]

LEMMA RecursionExists ==
  ASSUME NEW n \in Nat, NEW X, NEW x \in X, NEW g \in [1 .. n -> [X -> X]]
  PROVE  \E f : Recurs(f, n, X, x, g)
<1> DEFINE Solves(f, m) == /\ f \in [0 .. m -> X] /\ f[0] = x
                           /\ \A i \in 1 .. m : f[i] = g[i][f[i - 1]]
           T == {m \in 0 .. n : \E f : Solves(f, m)}
<1>1. 0 \in T
  <2>1. Solves([i \in 0 .. 0 |-> x], 0)
    OBVIOUS
  <2> HIDE DEF Solves
  <2> QED
    BY <2>1
<1>2. ASSUME NEW m \in 1 .. n, m - 1 \in T PROVE m \in T
  <2>1. PICK f : Solves(f, m - 1)
    BY <1>2
  <2>2. f \in [0 .. m - 1 -> X] /\ f[0] = x /\ f[m - 1] \in X
        /\ \A i \in 1 .. m - 1 : f[i] = g[i][f[i - 1]]
    BY <2>1
  <2> DEFINE h == [i \in 0 .. m |-> IF i = m THEN g[m][f[m - 1]] ELSE f[i]]
  <2>3. g[m][f[m - 1]] \in X
    BY <2>2
  <2>4. h \in [0 .. m -> X] /\ h[0] = x
    BY <2>2, <2>3
  <2>5. h[m] = g[m][f[m - 1]] /\ \A i \in 0 .. m - 1 : h[i] = f[i]
    OBVIOUS
  <2> HIDE DEF h
  <2>6. ASSUME NEW i \in 1 .. m PROVE h[i] = g[i][h[i - 1]]
    <3>1. h[i - 1] = f[i - 1]
      BY <2>5
    <3>2. CASE i = m
      BY <2>5, <3>1, <3>2
    <3>3. CASE i # m
      <4>1. i \in 1 .. m - 1 /\ i \in 0 .. m - 1
        BY <3>3
      <4> QED
        BY <2>2, <2>5, <3>1, <4>1
    <3> QED
      BY <3>2, <3>3
  <2>7. Solves(h, m)
    BY <2>4, <2>6
  <2> QED
    BY <2>7
<1>3. T = 0 .. n
  <2> HIDE DEF T
  <2>1. T \in SUBSET (0 .. n)
    BY DEF T
  <2> QED
    BY <1>1, <1>2, <2>1, UpTo
<1>4. PICK f : Solves(f, n)
  BY <1>3, SMTT(30)
<1> QED
  BY <1>4 DEF Recurs
-----------------------------------------------------------------------------
\* Division and multiplication.
LEMMA Grows ==
  ASSUME NEW a \in Nat, NEW b \in Nat \ {0}
  PROVE  a * b \in Nat /\ a * b >= a
<1>1. PICK c \in Nat : b = c + 1
  <2>1. b - 1 \in Nat /\ b = (b - 1) + 1
    OBVIOUS
  <2> QED
    BY <2>1
<1>2. a * c \in Nat
  OBVIOUS
<1>3. a * b = a * c + a
  BY <1>1
<1> QED
  BY <1>2, <1>3

LEMMA Quotient ==
  ASSUME NEW a \in Nat, NEW m \in Nat, NEW b \in Nat \ {0}
  PROVE  a > m \div b <=> a * b > m
<1>1. PICK q \in Nat : q = m \div b
  OBVIOUS
<1>2. q * b <= m /\ m < q * b + b
  BY <1>1
<1>3. CASE a > q
  <2>1. PICK c \in Nat : a = q + 1 + c
    <3>1. a - q - 1 \in Nat /\ a = q + 1 + (a - q - 1)
      BY <1>3
    <3> QED
      BY <3>1
  <2>2. a * b = q * b + b + c * b /\ c * b \in Nat /\ q * b \in Nat
    BY <2>1
  <2> QED
    BY <1>1, <1>2, <1>3, <2>2
<1>4. CASE a <= q
  <2>1. PICK c \in Nat : q = a + c
    <3>1. q - a \in Nat /\ q = a + (q - a)
      BY <1>4
    <3> QED
      BY <3>1
  <2>2. q * b = a * b + c * b /\ c * b \in Nat /\ a * b \in Nat
    BY <2>1
  <2> QED
    BY <1>1, <1>2, <1>4, <2>2
<1> QED
  BY <1>3, <1>4

-----------------------------------------------------------------------------
\* The powers of the base.
LEMMA PowerIs ==
  /\ Power[0] = 1
  /\ \A i \in Nat : Power[i] \in Nat /\ Power[i + 1] = Base * Power[i]
<1> DEFINE Pow(f, m) == /\ f \in [0 .. m -> Nat] /\ f[0] = 1
                        /\ \A i \in 1 .. m : f[i] = Base * f[i - 1]
           H(m) == CHOOSE f : Pow(f, m)
           F == [m \in Nat |-> H(m)[m]]
           G(f) == f = [i \in Nat |-> IF i = 0 THEN 1 ELSE Base * f[i - 1]]
<1>b. Base \in Nat
  BY RangeAssumption
<1>1. ASSUME NEW m \in Nat PROVE Pow(H(m), m)
  <2> DEFINE g == [i \in 1 .. m |-> [k \in Nat |-> Base * k]]
  <2>1. g \in [1 .. m -> [Nat -> Nat]]
    BY <1>b
  <2>2. \A i \in 1 .. m, k \in Nat : g[i][k] = Base * k
    OBVIOUS
  <2> HIDE DEF g
  <2>3. PICK f : Recurs(f, m, Nat, 1, g)
    <3>1. 1 \in Nat
      OBVIOUS
    <3> QED
      BY <2>1, <3>1, RecursionExists
  <2>4. Pow(f, m)
    <3>1. ASSUME NEW i \in 1 .. m PROVE f[i] = Base * f[i - 1]
      <4>1. f[i - 1] \in Nat
        BY <2>3 DEF Recurs
      <4> QED
        BY <2>2, <2>3, <4>1 DEF Recurs
    <3> QED
      BY <2>3, <3>1 DEF Recurs
  <2> HIDE DEF Pow
  <2> QED
    BY <2>4
<1>2. ASSUME NEW m \in Nat, NEW f, Pow(f, m), NEW h, Pow(h, m + 1)
      PROVE  f[m] = h[m]
  <2> DEFINE T == {i \in 0 .. m : f[i] = h[i]}
  <2>1. 0 \in T
    BY <1>2
  <2>2. ASSUME NEW i \in 1 .. m, i - 1 \in T PROVE i \in T
    BY <1>2, <2>2
  <2>3. T = 0 .. m
    <3>1. T \in SUBSET (0 .. m)
      OBVIOUS
    <3> HIDE DEF T
    <3> QED
      BY <2>1, <2>2, <3>1, UpTo
  <2> QED
    BY <2>3
<1>3. G(F) /\ F[0] = 1 /\ \A i \in Nat : F[i] \in Nat /\ F[i + 1] = Base * F[i]
  <2>1. F[0] = 1
    BY <1>1
  <2>2. ASSUME NEW i \in Nat PROVE F[i] \in Nat /\ F[i + 1] = Base * F[i]
    <3>1. Pow(H(i), i) /\ Pow(H(i + 1), i + 1)
      <4>1. i + 1 \in Nat
        OBVIOUS
      <4> HIDE DEF Pow, H
      <4> QED
        BY <1>1, <4>1
    <3>2. H(i)[i] = H(i + 1)[i]
      <4> HIDE DEF Pow, H
      <4> QED
        BY <1>2, <3>1
    <3> HIDE DEF H
    <3>3. H(i)[i] \in Nat /\ H(i + 1)[i + 1] = Base * H(i + 1)[(i + 1) - 1]
      BY <3>1
    <3>4. F[i] = H(i)[i] /\ F[i + 1] = H(i + 1)[i + 1] /\ (i + 1) - 1 = i
      OBVIOUS
    <3> QED
      BY <3>2, <3>3, <3>4
  <2>3. F = [i \in Nat |-> F[i]]
    OBVIOUS
  <2> HIDE DEF F
  <2>4. ASSUME NEW i \in Nat PROVE F[i] = IF i = 0 THEN 1 ELSE Base * F[i - 1]
    <3>1. CASE i = 0
      BY <2>1, <3>1
    <3>2. CASE i # 0
      <4>1. i - 1 \in Nat /\ (i - 1) + 1 = i
        BY <3>2
      <4>2. F[(i - 1) + 1] = Base * F[i - 1]
        BY <2>2, <4>1
      <4> QED
        BY <3>2, <4>1, <4>2
    <3> QED
      BY <3>1, <3>2
  <2>5. F = [i \in Nat |-> IF i = 0 THEN 1 ELSE Base * F[i - 1]]
    BY <2>3, <2>4
  <2> QED
    BY <2>1, <2>2, <2>5
<1> HIDE DEF F
<1>4. G(Power)
  <2> DEFINE P == CHOOSE f : G(f)
  <2>1. Power = P
    BY DEF Power
  <2>2. G(P)
    <3> HIDE DEF G
    <3> QED
      BY <1>3
  <2> HIDE DEF P
  <2> QED
    BY <2>1, <2>2
<1>5. Power[0] = 1 /\ \A i \in Nat : Power[i + 1] = Base * Power[i]
  <2>1. \A i \in Nat : Power[i] = IF i = 0 THEN 1 ELSE Base * Power[i - 1]
    BY <1>4
  <2>2. ASSUME NEW i \in Nat PROVE Power[i + 1] = Base * Power[i]
    <3>1. i + 1 \in Nat /\ i + 1 # 0 /\ (i + 1) - 1 = i
      OBVIOUS
    <3> QED
      BY <2>1, <3>1
  <2> QED
    BY <2>1, <2>2
<1>6. \A i \in Nat : Power[i] \in Nat
  <2> DEFINE S == {i \in Nat : Power[i] \in Nat}
  <2>1. 0 \in S
    BY <1>5
  <2>2. \A i \in S : i + 1 \in S
    BY <1>b, <1>5
  <2>3. S \in SUBSET Nat
    OBVIOUS
  <2> HIDE DEF S
  <2>4. S = Nat
    BY <2>1, <2>2, <2>3, NatSet
  <2> QED
    BY <2>4 DEF S
<1> QED
  BY <1>5, <1>6

-----------------------------------------------------------------------------
\* The texts.
LEMMA TextIs ==
  ASSUME NEW t \in Texts
  PROVE  /\ Len(t) \in Nat
         /\ \A i \in 1 .. Len(t) : (t[i] \in Nat /\ t[i] <= Base - 1) \/ t[i] = Other
         /\ t = <<>> <=> Len(t) = 0
         /\ DOMAIN t = 1 .. Len(t)
<1> DEFINE D == 0 .. Base - 1 \cup {Other}
<1>1. t \in Seq(D)
  BY RangeAssumption
<1> HIDE DEF D
<1>2. /\ Len(t) \in Nat /\ DOMAIN t = 1 .. Len(t)
      /\ t = <<>> <=> Len(t) = 0
      /\ \A i \in 1 .. Len(t) : t[i] \in D
  BY <1>1, ElementOfSeq, EmptySeq, LenProperties
<1>3. \A d \in D : (d \in Nat /\ d <= Base - 1) \/ d = Other
  BY RangeAssumption DEF D, Other
<1> QED
  BY <1>2, <1>3

LEMMA Words ==
  /\ Base \in Nat /\ Base >= 2 /\ WordMax \in Nat /\ Base - 1 <= WordMax
  /\ NoNumber = -1 /\ Absent = -2 /\ Other = -1
  BY RangeAssumption DEF NoNumber, Absent, Other

\* P has the numbers that the beginnings of t stand for.
Reads(P, t) ==
    /\ P \in [0 .. Len(t) -> Nat] /\ P[0] = 0
    /\ \A i \in 1 .. Len(t) : P[i] = P[i - 1] * Base + t[i]

IsDigits(t) == \A i \in 1 .. Len(t) : t[i] # Other

LEMMA ReadsExists ==
  ASSUME NEW t \in Texts, IsDigits(t)
  PROVE  \E P : Reads(P, t)
<1>1. Len(t) \in Nat /\ \A i \in 1 .. Len(t) : t[i] \in Nat
  BY TextIs DEF IsDigits
<1> DEFINE g == [i \in 1 .. Len(t) |-> [k \in Nat |-> k * Base + t[i]]]
<1>2. g \in [1 .. Len(t) -> [Nat -> Nat]]
  BY <1>1, Words
<1>3. \A i \in 1 .. Len(t), k \in Nat : g[i][k] = k * Base + t[i]
  OBVIOUS
<1> HIDE DEF g
<1>4. PICK P : Recurs(P, Len(t), Nat, 0, g)
  <2>1. 0 \in Nat
    OBVIOUS
  <2> QED
    BY <1>1, <1>2, <2>1, RecursionExists
<1>5. P \in [0 .. Len(t) -> Nat] /\ P[0] = 0 /\ \A i \in 1 .. Len(t) : P[i] = g[i][P[i - 1]]
  BY <1>4 DEF Recurs
<1>6. ASSUME NEW i \in 1 .. Len(t) PROVE P[i] = P[i - 1] * Base + t[i]
  <2>1. i - 1 \in 0 .. Len(t)
    BY <1>1
  <2>2. P[i - 1] \in Nat
    BY <1>5, <2>1
  <2>3. g[i][P[i - 1]] = P[i - 1] * Base + t[i]
    BY <1>3, <2>2
  <2> QED
    BY <1>5, <2>3
<1> QED
  BY <1>5, <1>6 DEF Reads

\* The recursion of parseDecimal.
LEMMA ParseRecurs ==
  ASSUME NEW t \in Texts
  PROVE  \E v : /\ v \in [0 .. Len(t) -> 0 .. WordMax \cup {NoNumber}] /\ v[0] = 0
                /\ \A i \in 1 .. Len(t) :
                     v[i] = IF \/ v[i - 1] = NoNumber \/ t[i] = Other
                               \/ Overflows(v[i - 1], t[i])
                            THEN NoNumber
                            ELSE (v[i - 1] * Base + t[i]) % (WordMax + 1)
                /\ ParseDecimal(t) = IF t = <<>> THEN Absent ELSE v[Len(t)]
<1> DEFINE W == 0 .. WordMax \cup {NoNumber}
           step(k, d) == IF k = NoNumber \/ d = Other \/ Overflows(k, d)
                         THEN NoNumber ELSE (k * Base + d) % (WordMax + 1)
           g == [i \in 1 .. Len(t) |-> [k \in W |-> step(k, t[i])]]
           G(v) == v = [i \in 0 .. Len(t) |->
                          IF i = 0 THEN 0
                          ELSE IF \/ v[i - 1] = NoNumber \/ t[i] = Other
                                  \/ Overflows(v[i - 1], t[i])
                               THEN NoNumber
                               ELSE (v[i - 1] * Base + t[i]) % (WordMax + 1)]
           c == CHOOSE v : G(v)
<1>1. Len(t) \in Nat /\ \A i \in 1 .. Len(t) : t[i] \in Int
  BY TextIs, Words
<1>2. ASSUME NEW k \in W, NEW d \in Int PROVE step(k, d) \in W
  <2>1. CASE k = NoNumber \/ d = Other \/ Overflows(k, d)
    BY <2>1
  <2>2. CASE ~(k = NoNumber \/ d = Other \/ Overflows(k, d))
    <3>1. k \in Int /\ k * Base + d \in Int
      BY <2>2, Words
    <3>2. (k * Base + d) % (WordMax + 1) \in 0 .. WordMax
      BY <3>1, Words
    <3> QED
      BY <2>2, <3>2
  <2> QED
    BY <2>1, <2>2
<1>3. g \in [1 .. Len(t) -> [W -> W]] /\ 0 \in W
  <2> HIDE DEF step
  <2>1. 0 \in W
    BY Words
  <2>2. g \in [1 .. Len(t) -> [W -> W]]
    <3> HIDE DEF W
    <3> QED
      BY <1>1, <1>2
  <2> QED
    BY <2>1, <2>2
<1>4. PICK v : Recurs(v, Len(t), W, 0, g)
  <2> HIDE DEF W, g
  <2> QED
    BY <1>1, <1>3, RecursionExists
<1>5. v \in [0 .. Len(t) -> W] /\ v[0] = 0 /\ \A i \in 1 .. Len(t) : v[i] = g[i][v[i - 1]]
  <2> HIDE DEF W, g
  <2> QED
    BY <1>4 DEF Recurs
<1>6. ASSUME NEW i \in 1 .. Len(t) PROVE v[i] = step(v[i - 1], t[i])
  <2> HIDE DEF W, step
  <2>1. i - 1 \in 0 .. Len(t)
    BY <1>1
  <2>2. v[i - 1] \in W
    BY <1>5, <2>1
  <2>3. g[i][v[i - 1]] = step(v[i - 1], t[i])
    BY <2>2
  <2> QED
    BY <1>5, <2>3
<1>7. G(v)
  <2> DEFINE u == [i \in 0 .. Len(t) |-> IF i = 0 THEN 0 ELSE step(v[i - 1], t[i])]
  <2>1. \A i \in 0 .. Len(t) : v[i] = u[i]
    <3> HIDE DEF step, W, G
    <3>1. TAKE i \in 0 .. Len(t)
    <3>2. i = 0 \/ (i \in 1 .. Len(t) /\ i # 0)
      BY <1>1
    <3> QED
      BY <1>5, <1>6, <3>2
  <2>2. v = u
    <3> HIDE DEF step, W, G
    <3>1. v = [i \in 0 .. Len(t) |-> v[i]]
      BY <1>5
    <3> QED
      BY <2>1, <3>1
  <2> QED
    BY <2>2, Zenon
<1>8. G(c)
  <2> HIDE DEF G
  <2> QED
    BY <1>7
<1>9. c = [i \in 0 .. Len(t) |-> c[i]] /\ c[0] = 0
      /\ \A i \in 1 .. Len(t) : c[i] = step(c[i - 1], t[i])
  <2> DEFINE u == [i \in 0 .. Len(t) |-> IF i = 0 THEN 0 ELSE step(c[i - 1], t[i])]
  <2> HIDE DEF c
  <2>1. c = u
    BY <1>8, Zenon
  <2>2. \A i \in 0 .. Len(t) : c[i] = IF i = 0 THEN 0 ELSE step(c[i - 1], t[i])
    <3> HIDE DEF step, W, G
    <3> QED
      BY <2>1
  <2>3. c = [i \in 0 .. Len(t) |-> c[i]]
    <3> HIDE DEF step, W, G
    <3>1. u = [i \in 0 .. Len(t) |-> u[i]]
      OBVIOUS
    <3> HIDE DEF u
    <3> QED
      BY <2>1, <3>1
  <2>4. 0 \in 0 .. Len(t) /\ \A i \in 1 .. Len(t) : i \in 0 .. Len(t) /\ i # 0
    BY <1>1
  <2> HIDE DEF step, W, G
  <2> QED
    BY <2>2, <2>3, <2>4
<1>10. ParseDecimal(t) = IF t = <<>> THEN Absent ELSE c[Len(t)]
  BY DEF ParseDecimal
<1> HIDE DEF c, step, G
<1>11. \A i \in 0 .. Len(t) : c[i] \in W
  <2> DEFINE T == {i \in 0 .. Len(t) : c[i] \in W}
  <2>1. 0 \in T
    BY <1>1, <1>3, <1>9
  <2>2. \A i \in 1 .. Len(t) : i - 1 \in T => i \in T
    <3> HIDE DEF W
    <3>1. ASSUME NEW i \in 1 .. Len(t), c[i - 1] \in W PROVE c[i] \in W
      <4>1. step(c[i - 1], t[i]) \in W
        BY <1>1, <1>2, <3>1
      <4> QED
        BY <1>9, <4>1
    <3>2. \A i \in 1 .. Len(t) : i \in 0 .. Len(t)
      BY <1>1
    <3> QED
      BY <3>1, <3>2
  <2>3. T \in SUBSET (0 .. Len(t))
    OBVIOUS
  <2> HIDE DEF T
  <2>4. T = 0 .. Len(t)
    BY <1>1, <2>1, <2>2, <2>3, UpTo
  <2> QED
    BY <2>4 DEF T
<1>12. c \in [0 .. Len(t) -> W]
  BY <1>9, <1>11
<1> QED
  BY <1>9, <1>10, <1>12 DEF step

\* The sum of the reference, where all of the text is digits.
LEMMA ValueRecurs ==
  ASSUME NEW t \in Texts, IsDigits(t)
  PROVE  \E s : /\ s[0] = 0 /\ Value(t) = s[Len(t)]
                /\ \A i \in 1 .. Len(t) : s[i] = s[i - 1] + t[i] * Power[Len(t) - i]
<1> DEFINE n == Len(t)
           add(k, i) == k + t[i] * Power[n - i]
           G(v) == v = [i \in 0 .. Len(t) |->
                          IF i = 0 THEN 0 ELSE v[i - 1] + t[i] * Power[Len(t) - i]]
           c == CHOOSE v : G(v)
           g == [i \in 1 .. n |-> [k \in Int |-> add(k, i)]]
<1>1. n \in Nat /\ \A i \in 1 .. n : t[i] \in Nat
  BY TextIs DEF IsDigits
<1>2. \A i \in 1 .. n : n - i \in Nat
  BY <1>1
<1>3. ASSUME NEW k \in Int, NEW i \in 1 .. n PROVE add(k, i) \in Int
  <2>1. Power[n - i] \in Nat
    BY <1>2, PowerIs
  <2>2. t[i] \in Nat
    BY <1>1
  <2> HIDE DEF n
  <2>3. t[i] * Power[n - i] \in Int
    BY <2>1, <2>2
  <2> QED
    BY <2>3
<1>4. g \in [1 .. n -> [Int -> Int]]
  <2> HIDE DEF add, n
  <2> QED
    BY <1>3
<1>5. PICK v : Recurs(v, n, Int, 0, g)
  <2> HIDE DEF g, n
  <2>1. 0 \in Int
    OBVIOUS
  <2> QED
    BY <1>1, <1>4, <2>1, RecursionExists
<1>6. v \in [0 .. n -> Int] /\ v[0] = 0 /\ \A i \in 1 .. n : v[i] = g[i][v[i - 1]]
  <2> HIDE DEF n, g
  <2> QED
    BY <1>5 DEF Recurs
<1>7. ASSUME NEW i \in 1 .. n PROVE v[i] = add(v[i - 1], i)
  <2> HIDE DEF add, n
  <2>1. i - 1 \in 0 .. n
    BY <1>1
  <2>2. v[i - 1] \in Int
    BY <1>6, <2>1
  <2>3. g[i][v[i - 1]] = add(v[i - 1], i)
    BY <2>2
  <2> QED
    BY <1>6, <2>3
<1>8. G(v)
  <2> DEFINE u == [i \in 0 .. n |-> IF i = 0 THEN 0 ELSE add(v[i - 1], i)]
  <2>1. \A i \in 0 .. n : v[i] = u[i]
    <3> HIDE DEF add, G, n
    <3>1. TAKE i \in 0 .. n
    <3>2. i = 0 \/ (i \in 1 .. n /\ i # 0)
      BY <1>1
    <3> QED
      BY <1>6, <1>7, <3>2
  <2>2. v = u
    <3> HIDE DEF add, G, n
    <3>1. v = [i \in 0 .. n |-> v[i]]
      BY <1>6
    <3> QED
      BY <2>1, <3>1
  <2> QED
    BY <2>2, Zenon
<1>9. G(c)
  <2> HIDE DEF G
  <2> QED
    BY <1>8
<1>10. c[0] = 0 /\ \A i \in 1 .. n : c[i] = add(c[i - 1], i)
  <2> DEFINE u == [i \in 0 .. n |-> IF i = 0 THEN 0 ELSE add(c[i - 1], i)]
  <2> HIDE DEF c
  <2>1. c = u
    BY <1>9, Zenon
  <2>2. \A i \in 0 .. n : c[i] = IF i = 0 THEN 0 ELSE add(c[i - 1], i)
    <3> HIDE DEF add, G, n
    <3> QED
      BY <2>1
  <2>3. 0 \in 0 .. n /\ \A i \in 1 .. n : i \in 0 .. n /\ i # 0
    BY <1>1
  <2> HIDE DEF add, G, n
  <2> QED
    BY <2>2, <2>3
<1>11. Value(t) = c[n]
  BY DEF Value
<1> HIDE DEF c, G
<1> QED
  BY <1>10, <1>11

\* The sum is the number that the digits, read from the left, make.
LEMMA ValueIs ==
  ASSUME NEW t \in Texts, IsDigits(t), NEW P, Reads(P, t)
  PROVE  Value(t) = P[Len(t)]
<1>1. PICK n \in Nat : n = Len(t)
  BY TextIs
<1>2. \A i \in 1 .. n : t[i] \in Nat
  BY <1>1, TextIs DEF IsDigits
<1>3. PICK s : /\ s[0] = 0 /\ Value(t) = s[n]
               /\ \A i \in 1 .. n : s[i] = s[i - 1] + t[i] * Power[n - i]
  BY <1>1, ValueRecurs
<1>4. /\ P \in [0 .. n -> Nat] /\ P[0] = 0
      /\ \A i \in 1 .. n : P[i] = P[i - 1] * Base + t[i]
  BY <1>1 DEF Reads
<1> DEFINE T == {i \in 0 .. n : s[i] = P[i] * Power[n - i]}
<1>5. 0 \in T
  <2>1. PICK q \in Nat : q = Power[n - 0]
    BY PowerIs
  <2> QED
    BY <1>3, <1>4, <2>1
<1>6. ASSUME NEW i \in 1 .. n, i - 1 \in T PROVE i \in T
  <2>1. n - i \in Nat /\ i - 1 \in 0 .. n /\ i \in 0 .. n /\ n - (i - 1) = (n - i) + 1
    OBVIOUS
  <2>2. PICK q \in Nat : q = Power[n - i]
    BY <2>1, PowerIs
  <2>3. Power[n - (i - 1)] = Base * q
    BY <2>1, <2>2, PowerIs
  <2>4. PICK p \in Nat : p = P[i - 1]
    BY <1>4, <2>1
  <2>5. PICK d \in Nat : d = t[i]
    BY <1>2
  <2>6. s[i - 1] = p * (Base * q)
    BY <1>6, <2>3, <2>4
  <2>7. s[i] = p * (Base * q) + d * q
    BY <1>3, <2>2, <2>5, <2>6
  <2>8. P[i] * q = (p * Base + d) * q
    BY <1>4, <2>4, <2>5
  <2>9. (p * Base + d) * q = p * (Base * q) + d * q
    <3>1. PICK b \in Nat : b = Base
      BY Words
    <3>2. (p * b + d) * q = p * (b * q) + d * q
      OBVIOUS
    <3> QED
      BY <3>1, <3>2
  <2> QED
    BY <2>1, <2>2, <2>7, <2>8, <2>9
<1>7. T = 0 .. n
  <2>1. T \in SUBSET (0 .. n)
    OBVIOUS
  <2> HIDE DEF T
  <2> QED
    BY <1>5, <1>6, <2>1, UpTo
<1>8. n \in T /\ n - n = 0
  BY <1>7
<1>9. P[n] \in Nat
  BY <1>4
<1>10. s[n] = P[n] * Power[0]
  BY <1>8
<1>11. s[n] = P[n]
  BY <1>9, <1>10, PowerIs
<1> QED
  BY <1>1, <1>3, <1>11

-----------------------------------------------------------------------------
\* What parseDecimal returns is what the text stands for, and never a number
\* that the word has no room for.
LEMMA DecimalOfDigits ==
  ASSUME NEW t \in Texts, t # <<>>, IsDigits(t)
  PROVE  /\ ParseDecimal(t) = End(t)
         /\ End(t) \in 0 .. WordMax \cup {NoNumber, Absent}
         /\ t = <<>> <=> End(t) = Absent
         /\ IsNumber(t) <=> End(t) \in Nat
         /\ IsNumber(t) => End(t) = Value(t)
<1>1. PICK n \in Nat : n = Len(t)
  BY TextIs
<1>2. \A i \in 1 .. n : t[i] \in Nat /\ t[i] <= Base - 1 /\ t[i] # Other
  BY <1>1, TextIs DEF IsDigits
<1>3. PICK P : Reads(P, t)
  BY ReadsExists
<1>4. /\ P \in [0 .. n -> Nat] /\ P[0] = 0
      /\ \A i \in 1 .. n : P[i] = P[i - 1] * Base + t[i]
  BY <1>1, <1>3 DEF Reads
<1>5. PICK v : /\ v[0] = 0 /\ ParseDecimal(t) = v[n]
               /\ \A i \in 1 .. n :
                    v[i] = IF \/ v[i - 1] = NoNumber \/ t[i] = Other
                              \/ Overflows(v[i - 1], t[i])
                           THEN NoNumber
                           ELSE (v[i - 1] * Base + t[i]) % (WordMax + 1)
  BY <1>1, ParseRecurs
<1> DEFINE R(k) == IF k <= WordMax THEN k ELSE NoNumber
           T == {i \in 0 .. n : v[i] = R(P[i])}
<1>6. 0 \in T
  BY <1>4, <1>5, Words
<1>7. ASSUME NEW i \in 1 .. n, i - 1 \in T PROVE i \in T
  <2>1. i - 1 \in 0 .. n /\ i \in 0 .. n
    OBVIOUS
  <2>2. PICK p \in Nat : p = P[i - 1]
    BY <1>4, <2>1
  <2>3. PICK d \in Nat : d = t[i] /\ d <= Base - 1 /\ d # Other
    BY <1>2
  <2>4. PICK w \in Nat : w = WordMax
    BY Words
  <2>5. PICK b \in Nat \ {0} : b = Base
    BY Words
  <2>6. P[i] = p * b + d /\ p * b \in Nat /\ p * b >= p
    BY <1>4, <2>2, <2>3, <2>5, Grows
  <2>7. CASE p > w
    <3>1. v[i - 1] = NoNumber
      BY <1>7, <2>2, <2>4, <2>7
    <3>2. v[i] = NoNumber
      BY <1>5, <3>1
    <3>3. P[i] \in Nat /\ P[i] > w
      BY <2>3, <2>6, <2>7
    <3>4. v[i] = R(P[i])
      BY <2>4, <3>2, <3>3
    <3> QED
      BY <2>1, <3>4
  <2>8. CASE p <= w
    <3>1. v[i - 1] = p /\ p # NoNumber
      BY <1>7, <2>2, <2>4, <2>8, Words
    <3>2. w - d \in Nat
      BY <2>3, <2>4, <2>5, Words
    <3>3. Overflows(p, d) <=> p * b > w - d
      <4>1. Overflows(p, d) <=> p > (w - d) \div b
        BY <2>4, <2>5 DEF Overflows
      <4> QED
        BY <3>2, <4>1, Quotient
    <3>4. v[i] = IF p * b > w - d THEN NoNumber ELSE (p * b + d) % (w + 1)
      <4> HIDE DEF T
      <4>1. v[i] = IF \/ p = NoNumber \/ d = Other \/ Overflows(p, d)
                   THEN NoNumber ELSE (p * Base + d) % (WordMax + 1)
        BY <1>5, <2>3, <3>1, Zenon
      <4> QED
        BY <2>3, <2>4, <2>5, <3>1, <3>3, <4>1
    <3>5. PICK m \in Nat : m = p * b
      BY <2>6
    <3>6. m + d <= w => (m + d) % (w + 1) = m + d
      OBVIOUS
    <3>7. v[i] = R(P[i])
      BY <2>4, <2>6, <3>4, <3>5, <3>6
    <3> QED
      BY <2>1, <3>7
  <2> QED
    BY <2>7, <2>8
<1>8. T = 0 .. n
  <2>1. T \in SUBSET (0 .. n)
    OBVIOUS
  <2> HIDE DEF T
  <2> QED
    BY <1>6, <1>7, <2>1, UpTo
<1>9. v[n] = R(P[n])
  BY <1>8
<1>10. Value(t) = P[n] /\ P[n] \in Nat
  BY <1>1, <1>3, <1>4, ValueIs
<1>11. IsNumber(t) <=> P[n] <= WordMax
  <2>1. \A i \in DOMAIN t : t[i] # Other
    BY <1>1, <1>2, TextIs
  <2> QED
    BY <1>10, <2>1 DEF IsNumber
<1>12. End(t) = R(P[n])
  BY <1>10, <1>11 DEF End
<1>13. IsNumber(t) => End(t) = Value(t)
  BY <1>10, <1>11, <1>12
<1>14. /\ End(t) \in 0 .. WordMax \cup {NoNumber, Absent}
       /\ End(t) # Absent /\ (P[n] <= WordMax <=> End(t) \in Nat)
  BY <1>10, <1>12, Words
<1> QED
  BY <1>5, <1>9, <1>11, <1>12, <1>13, <1>14

LEMMA DecimalIs ==
  ASSUME NEW t, t \in Texts \/ t = <<>>
  PROVE  /\ ParseDecimal(t) = End(t)
         /\ End(t) \in 0 .. WordMax \cup {NoNumber, Absent}
         /\ t = <<>> <=> End(t) = Absent
         /\ IsNumber(t) <=> End(t) \in Nat
         /\ IsNumber(t) => End(t) = Value(t)
<1>1. CASE t = <<>>
  <2>1. ParseDecimal(t) = Absent /\ End(t) = Absent /\ ~IsNumber(t)
    BY <1>1, Zenon DEF ParseDecimal, End, IsNumber
  <2> QED
    BY <1>1, <2>1, Words
<1>2. CASE t # <<>> /\ IsDigits(t)
  BY <1>2, DecimalOfDigits
<1>3. CASE t # <<>> /\ ~IsDigits(t)
  <2>1. PICK n \in Nat : n = Len(t) /\ DOMAIN t = 1 .. n
    BY <1>3, TextIs
  <2>2. PICK j \in 1 .. n : t[j] = Other
    BY <1>3, <2>1 DEF IsDigits
  <2>3. PICK v : /\ ParseDecimal(t) = v[n]
                 /\ \A i \in 1 .. n :
                      v[i] = IF \/ v[i - 1] = NoNumber \/ t[i] = Other
                                \/ Overflows(v[i - 1], t[i])
                             THEN NoNumber
                             ELSE (v[i - 1] * Base + t[i]) % (WordMax + 1)
    BY <1>3, <2>1, ParseRecurs
  <2> DEFINE T == {i \in 0 .. n : i >= j => v[i] = NoNumber}
  <2>4. 0 \in T
    OBVIOUS
  <2>5. ASSUME NEW i \in 1 .. n, i - 1 \in T PROVE i \in T
    <3>1. CASE i < j
      BY <3>1
    <3>2. CASE i = j
      BY <2>2, <2>3, <3>2
    <3>3. CASE i > j
      <4>1. v[i - 1] = NoNumber
        BY <2>5, <3>3
      <4> QED
        BY <2>3, <4>1
    <3> QED
      BY <3>1, <3>2, <3>3
  <2>6. T = 0 .. n
    <3>1. T \in SUBSET (0 .. n)
      OBVIOUS
    <3> HIDE DEF T
    <3> QED
      BY <2>4, <2>5, <3>1, UpTo
  <2>7. v[n] = NoNumber
    <3>1. n \in T /\ n >= j
      BY <2>6
    <3> QED
      BY <3>1
  <2>8. ~IsNumber(t)
    BY <2>1, <2>2 DEF IsNumber
  <2>9. ParseDecimal(t) = NoNumber /\ End(t) = NoNumber
    BY <1>3, <2>3, <2>7, <2>8 DEF End
  <2> QED
    BY <1>3, <2>8, <2>9, Words
<1> QED
  BY <1>1, <1>2, <1>3

\* A range that is one gets an answer of its own, and nothing else does.
LEMMA RangeIs ==
  ASSUME NEW l, l \in Texts \/ l = <<>>, NEW r, r \in Texts \/ r = <<>>,
         NEW extent \in Nat,
         NEW a, a = Reply(ParseRange(End(l), End(r), extent), extent)
  PROVE  /\ a.status = 206 => IsRange(l, r)
         /\ IsRange(l, r) => a.status \in {206, 416}
<1>1. PICK first \in Ends : /\ first = End(l)
                            /\ l = <<>> <=> first = Absent
                            /\ IsNumber(l) <=> first \in Nat
                            /\ IsNumber(l) => first = Value(l)
  BY DecimalIs, Words DEF Ends
<1>2. PICK last \in Ends : /\ last = End(r)
                           /\ r = <<>> <=> last = Absent
                           /\ IsNumber(r) <=> last \in Nat
                           /\ IsNumber(r) => last = Value(r)
  BY DecimalIs, Words DEF Ends
<1>3. IsRange(l, r) <=> \/ first \in Nat /\ last = Absent
                        \/ first = Absent /\ last \in Nat
                        \/ first \in Nat /\ last \in Nat /\ first <= last
  BY <1>1, <1>2 DEF IsRange
<1>4. a = Reply(ParseRange(first, last, extent), extent)
  BY <1>1, <1>2
<1> DEFINE Ranges == \/ first \in Nat /\ last = Absent
                     \/ first = Absent /\ last \in Nat
                     \/ first \in Nat /\ last \in Nat /\ first <= last
<1>5. (a.status = 206 => Ranges) /\ (Ranges => a.status \in {206, 416})
  <2>1. CASE first = Absent
    BY <1>4, <2>1 DEF Ends, ParseRange, Suffix, Reply, Partial, Ignore, Unsatisfiable,
                      NoNumber, Absent
  <2>2. CASE first # Absent
    BY <1>4, <2>2 DEF Ends, ParseRange, FromTo, Reply, Partial, Ignore, Unsatisfiable,
                      NoNumber, Absent
  <2> QED
    BY <2>1, <2>2
<1> QED
  BY <1>3, <1>5
-----------------------------------------------------------------------------
\* FileServe.
Labels == {"idle", "exists", "index", "regular", "size", "prepare", "open",
           "head", "file", "done", "closed"}

Responses == [status : Int, length : Int, body : Nat, hasFile : BOOLEAN,
              start : Nat, count : Nat, headOnly : BOOLEAN]

Types ==
    /\ exists \in BOOLEAN /\ removed \in BOOLEAN /\ failed \in BOOLEAN
    /\ size \in 0 .. MaxSize
    /\ pc \in Labels
    /\ request.left \in Texts \cup {<<>>} /\ request.right \in Texts \cup {<<>>}
    /\ response \in Responses
    /\ closing \in BOOLEAN
    /\ fd \in [open : BOOLEAN, linked : BOOLEAN, size : 0 .. MaxSize]
    /\ fileOffset \in Nat /\ remaining \in Nat
    /\ declared \in Nat /\ delivered \in Nat

\* The parts of Frame, along the way of a request.
Before ==
    /\ pc \in {"idle", "exists", "index", "regular", "size", "prepare"} =>
          declared = 0 /\ delivered = 0 /\ ~fd.open
    /\ pc \in {"exists", "index", "regular", "size"} =>
          response.body = 0 /\ request.method # "unparsed"
    /\ pc \in {"prepare", "open", "head"} /\ response.hasFile =>
          response.body = 0 /\ response.length = response.count
    /\ pc = "prepare" /\ request.method = "unparsed" => ~response.headOnly

AtHead ==
    /\ pc \in {"open", "head"} =>
          /\ delivered = 0 /\ declared = ContentLength(response)
          /\ response.headOnly <=> request.method = "head"
    /\ pc = "open" => response.hasFile /\ ~response.headOnly /\ ~fd.open
    /\ pc = "head" /\ fd.open =>
          response.hasFile /\ ~response.headOnly /\ remaining = response.count
    /\ pc = "head" /\ ~fd.open => response.headOnly \/ ~response.hasFile \/ closing

AtFile ==
    /\ pc = "file" /\ fd.open =>
          request.method # "head" /\ delivered + remaining = declared
    /\ pc = "file" /\ ~fd.open =>
          delivered <= Expected /\ (delivered = Expected \/ closing)
    /\ pc \in {"done", "closed"} => ~fd.open /\ delivered <= Expected
    /\ pc = "done" => delivered = Expected

Frame == Before /\ AtHead /\ AtFile

Uncut ==
    ~removed /\ ~failed =>
        /\ pc \in {"regular", "size", "open"} => exists
        /\ pc \in {"prepare", "open", "head"} /\ response.hasFile =>
              exists /\ response.start + response.count <= size
        /\ fd.open => exists /\ fd.linked /\ fileOffset + remaining <= size
        /\ pc = "head" /\ ~fd.open => response.headOnly \/ ~response.hasFile
        /\ pc = "file" /\ ~fd.open => delivered = Expected
        /\ pc = "closed" => delivered = Expected

FInv == Types /\ Frame /\ Uncut

LEMMA InitFInv == Init => FInv
  <1>. SUFFICES ASSUME Init PROVE FInv
    OBVIOUS
  <1>. USE DEF Init, NoRequest, EmptyResponse, Closed, NoLength
  <1>1. /\ exists \in BOOLEAN /\ removed \in BOOLEAN /\ failed \in BOOLEAN
        /\ closing \in BOOLEAN
    BY Zenon DEF SF!NoFile
  <1>2. size \in 0 .. MaxSize
    BY ServeAssumption, RangeAssumption DEF SF!NoFile
  <1>3. fd \in [open : BOOLEAN, linked : BOOLEAN, size : 0 .. MaxSize]
    BY <1>2 DEF SF!NoFile
  <1>4. Types
    BY <1>1, <1>2, <1>3 DEF Types, Labels, Responses
  <1>5. Frame /\ Uncut
    BY DEF Frame, Before, AtHead, AtFile, Uncut
  <1>. QED BY <1>4, <1>5 DEF FInv

LEMMA TextIsResponse ==
    ASSUME NEW status \in Nat
    PROVE  /\ Text(status) \in Responses
           /\ Text(status).hasFile = FALSE /\ Text(status).headOnly = FALSE
  <1>1. Text(status) = [status |-> status, length |-> -1, body |-> TextSize,
                        hasFile |-> FALSE, start |-> 0, count |-> 0, headOnly |-> FALSE]
    BY DEF Text, NoLength
  <1>2. TextSize \in Nat /\ 0 \in Nat /\ -1 \in Int /\ status \in Int
    BY ServeAssumption
  <1>3. Text(status) \in Responses
    BY <1>1, <1>2 DEF Responses
  <1>4. Text(status).hasFile = FALSE /\ Text(status).headOnly = FALSE
    BY <1>1
  <1>. QED BY <1>3, <1>4

\* The answer lies inside the file the way it was when its size was read.
LEMMA ReplyInFile ==
    ASSUME NEW first \in Ends, NEW last \in Ends, NEW s \in Nat
    PROVE  LET a == Reply(ParseRange(first, last, s), s)
           IN  /\ a.status \in {200, 206, 416} /\ a.start \in Nat /\ a.count \in Nat
               /\ a.start + a.count <= s
  <1>1. CASE first = Absent
    BY <1>1 DEF ParseRange, Suffix, Reply, Partial, Ignore, Unsatisfiable, Ends,
                NoNumber, Absent
  <1>2. CASE first # Absent
    BY <1>2 DEF ParseRange, FromTo, Reply, Partial, Ignore, Unsatisfiable, Ends,
                NoNumber, Absent
  <1>. QED BY <1>1, <1>2

LEMMA TextEnds ==
    ASSUME NEW t \in Texts \cup {<<>>}
    PROVE  ParseDecimal(t) \in Ends
  BY DecimalIs, Words DEF Ends

LEMMA FileAnswerInFile ==
    ASSUME Types, NEW s \in Nat
    PROVE  /\ FileAnswer(s) \in Responses
           /\ FileAnswer(s).hasFile =>
                /\ FileAnswer(s).body = response.body
                /\ FileAnswer(s).length = FileAnswer(s).count
                /\ FileAnswer(s).start + FileAnswer(s).count <= s
  <1>. DEFINE a == Reply(ParseRange(ParseDecimal(request.left),
                                    ParseDecimal(request.right), s), s)
  <1>1. a.status \in {200, 206, 416} /\ a.start \in Nat /\ a.count \in Nat
        /\ a.start + a.count <= s
    BY ReplyInFile, TextEnds DEF Types
  <1>2. FileAnswer(s) =
          IF a.status = 416
            THEN Text(416)
            ELSE [status |-> a.status, length |-> a.count, body |-> response.body,
                  hasFile |-> TRUE, start |-> a.start, count |-> a.count,
                  headOnly |-> response.headOnly]
    BY DEF FileAnswer
  <1>. HIDE DEF a
  <1>3. CASE a.status = 416
    <2>1. FileAnswer(s) = Text(416)
      BY <1>2, <1>3, Zenon
    <2>2. 416 \in Nat
      OBVIOUS
    <2>. QED BY <2>1, <2>2, TextIsResponse, ZenonT(60)
  <1>4. CASE a.status # 416
    <2>1. FileAnswer(s) =
            [status |-> a.status, length |-> a.count, body |-> response.body,
             hasFile |-> TRUE, start |-> a.start, count |-> a.count,
             headOnly |-> response.headOnly]
      BY <1>2, <1>4, Zenon
    <2>2. response \in Responses
      BY Zenon DEF Types
    <2>3. a.status \in Int /\ a.count \in Int /\ TRUE \in BOOLEAN
      BY <1>1
    <2>4. FileAnswer(s) \in Responses
      BY <1>1, <2>1, <2>2, <2>3 DEF Responses
    <2>5. /\ FileAnswer(s).body = response.body
          /\ FileAnswer(s).length = a.count /\ FileAnswer(s).count = a.count
          /\ FileAnswer(s).start = a.start
      BY <2>1, <2>2 DEF Responses
    <2>. QED BY <1>1, <2>4, <2>5
  <1>. QED BY <1>3, <1>4

\* Of the answer, what it says of the range.
Said(r) == [status |-> r.status, start |-> r.start, count |-> r.count]

\* What the header asks for, by the numbers of parseDecimal, in a file of size s.
Answer(s) ==
    Reply(ParseRange(ParseDecimal(request.left), ParseDecimal(request.right), s), s)

LEMMA FileAnswerSaid ==
    ASSUME NEW s
    PROVE  Said(FileAnswer(s)) = Answer(s)
  <1>1. PICK a : a = Answer(s)
    OBVIOUS
  <1>2. a = [status |-> a.status, start |-> a.start, count |-> a.count]
        /\ (a.status = 416 => a.start = 0 /\ a.count = 0)
    BY <1>1 DEF Answer, Reply
  <1>3. FileAnswer(s) =
          IF a.status = 416
            THEN Text(416)
            ELSE [status |-> a.status, length |-> a.count, body |-> response.body,
                  hasFile |-> TRUE, start |-> a.start, count |-> a.count,
                  headOnly |-> response.headOnly]
    BY <1>1 DEF FileAnswer, Answer
  <1>4. CASE a.status = 416
    <2>1. Said(FileAnswer(s)) = [status |-> 416, start |-> 0, count |-> 0]
      BY <1>3, <1>4 DEF Said, Text
    <2>. QED BY <1>1, <1>2, <1>4, <2>1
  <1>5. CASE a.status # 416
    <2>1. Said(FileAnswer(s)) = [status |-> a.status, start |-> a.start, count |-> a.count]
      BY <1>3, <1>5 DEF Said
    <2>. QED BY <1>1, <1>2, <2>1
  <1>. QED BY <1>4, <1>5

\* Marking the answer changes nothing else of it.
LEMMA Marked ==
    ASSUME Types
    PROVE  LET r == MarkHead(response)
           IN  /\ r \in Responses
               /\ r.body = response.body /\ r.length = response.length
               /\ r.hasFile = response.hasFile
               /\ r.start = response.start /\ r.count = response.count
               /\ r.status = response.status
               /\ IF request.method = "unparsed" THEN r.headOnly = response.headOnly
                  ELSE r.headOnly <=> request.method = "head"
  <1>. DEFINE h == request.method = "head"
  <1>. HIDE DEF h
  <1>1. response \in Responses /\ h \in BOOLEAN
    BY Zenon DEF Types, h
  <1>2. [response EXCEPT !.headOnly = h] \in Responses
    BY <1>1, Zenon DEF Responses
  <1>3. LET r == [response EXCEPT !.headOnly = h]
        IN  /\ r.body = response.body /\ r.length = response.length
            /\ r.hasFile = response.hasFile
            /\ r.start = response.start /\ r.count = response.count
            /\ r.status = response.status
            /\ r.headOnly = h
    BY <1>1 DEF Responses
  <1>4. CASE request.method = "unparsed"
    BY <1>1, <1>4 DEF MarkHead
  <1>5. CASE request.method # "unparsed"
    <2>1. MarkHead(response) = [response EXCEPT !.headOnly = h]
      BY <1>5, Zenon DEF MarkHead, h
    <2>2. h <=> request.method = "head"
      BY DEF h
    <2>. QED BY <1>2, <1>3, <1>5, <2>1, <2>2, Zenon
  <1>. QED BY <1>4, <1>5

-----------------------------------------------------------------------------
\* The steps of a request up to the answer.
LEMMA FixedAnswers ==
    ASSUME NEW q \in Requests, NEW r \in FixedAnswer(q)
    PROVE  r \in Responses /\ r.hasFile = FALSE
  <1>1. \/ r = [EmptyResponse EXCEPT !.status = 204]
        \/ \E status \in {200, 400, 403, 405} : r = Text(status)
    BY DEF FixedAnswer, Requests, Methods, Targets, Files
  <1>2. CASE r = [EmptyResponse EXCEPT !.status = 204]
    <2>1. r = [status |-> 204, length |-> -1, body |-> 0, hasFile |-> FALSE,
               start |-> 0, count |-> 0, headOnly |-> FALSE]
      BY <1>2 DEF EmptyResponse, NoLength
    <2>. QED BY <2>1 DEF Responses
  <1>3. CASE \E status \in {200, 400, 403, 405} : r = Text(status)
    <2>1. PICK status \in {200, 400, 403, 405} : r = Text(status)
      BY <1>3
    <2>2. status \in Nat
      OBVIOUS
    <2>. QED BY <2>1, <2>2, TextIsResponse, Zenon
  <1>. QED BY <1>1, <1>2, <1>3

LEMMA StartFInv ==
    ASSUME FInv, NEW q \in Requests, Start(q)
    PROVE  FInv'
  <1>. USE DEF FInv
  <1>1. /\ pc = "idle" /\ request' = q /\ removed' = FALSE /\ failed' = FALSE
        /\ UNCHANGED <<exists, size, fileSize, sending, wire>>
    BY DEF Start
  <1>2. /\ declared = 0 /\ delivered = 0 /\ ~fd.open
    BY <1>1 DEF Frame, Before
  <1>3. q.left \in Texts \cup {<<>>} /\ q.right \in Texts \cup {<<>>}
        /\ q.method \in Methods
    BY DEF Requests, Methods
  <1>4. /\ response' \in Responses
        /\ \/ pc' = "prepare" /\ response'.hasFile = FALSE
           \/ pc' \in {"exists", "index"} /\ response'.body = 0
    <2>1. CASE \E r \in FixedAnswer(q) : Respond(r)
      BY <2>1, FixedAnswers, Zenon DEF Respond
    <2>2. CASE /\ response' = [EmptyResponse EXCEPT !.headOnly = (q.method = "head")]
               /\ pc' = IF q.target = "file" THEN "exists" ELSE "index"
      <3>. DEFINE h == q.method = "head"
      <3>1. h \in BOOLEAN
        BY Zenon
      <3>. HIDE DEF h
      <3>2. response' = [status |-> 0, length |-> -1, body |-> 0, hasFile |-> FALSE,
                         start |-> 0, count |-> 0, headOnly |-> h]
        BY <2>2 DEF EmptyResponse, NoLength, h
      <3>3. response' \in Responses /\ response'.body = 0
        BY <3>1, <3>2 DEF Responses
      <3>. QED BY <2>2, <3>3
    <2>. QED BY <2>1, <2>2, Zenon DEF Start
  <1>5. q.method # "unparsed"
    BY <1>3 DEF Methods
  <1>6. Types'
    BY <1>1, <1>3, <1>4 DEF Types, Labels, sending, wire
  <1>7. Frame'
    BY <1>1, <1>2, <1>4, <1>5 DEF Frame, Before, AtHead, AtFile, sending, wire
  <1>8. Uncut'
    BY <1>1, <1>2, <1>4 DEF Uncut, sending, wire
  <1>. QED BY <1>6, <1>7, <1>8

LEMMA StartUnparsedFInv ==
    ASSUME FInv, StartUnparsed
    PROVE  FInv'
  <1>. USE DEF FInv
  <1>1. /\ pc = "idle" /\ removed' = FALSE /\ failed' = FALSE /\ pc' = "prepare"
        /\ UNCHANGED <<exists, size, fileSize, sending, wire>>
    BY DEF StartUnparsed, Respond
  <1>2. /\ declared = 0 /\ delivered = 0 /\ ~fd.open
    BY <1>1 DEF Frame, Before
  <1>3. request'.left = <<>> /\ request'.right = <<>>
    BY DEF StartUnparsed, NoRequest
  <1>4. response' \in Responses /\ response'.hasFile = FALSE /\ response'.headOnly = FALSE
    <2>1. response' = Text(400) /\ 400 \in Nat
      BY DEF StartUnparsed, Respond
    <2>. QED BY <2>1, TextIsResponse, ZenonT(60)
  <1>5. Types'
    BY <1>1, <1>3, <1>4 DEF Types, Labels, sending, wire
  <1>6. Frame'
    BY <1>1, <1>2, <1>4 DEF Frame, Before, AtHead, AtFile, sending, wire
  <1>7. Uncut'
    BY <1>1, <1>2, <1>4 DEF Uncut, sending, wire
  <1>. QED BY <1>5, <1>6, <1>7

\* The three questions before the size, and the size itself.
LEMMA AskFInv ==
    ASSUME FInv, Exists \/ Index \/ Regular
    PROVE  FInv'
  <1>. USE DEF FInv
  <1>1. /\ pc \in {"exists", "index", "regular"}
        /\ UNCHANGED <<exists, size, removed, failed, request, sending, wire>>
    BY DEF Exists, Index, Regular, file, history
  <1>2. /\ declared = 0 /\ delivered = 0 /\ ~fd.open /\ response.body = 0
        /\ request.method # "unparsed"
    BY <1>1 DEF Frame, Before
  <1>3. \/ exists /\ pc' \in {"regular", "size"} /\ response' = response
        \/ pc' = "prepare" /\ response' \in {Text(404), Text(403), Text(200)}
    BY DEF Exists, Index, Regular, Continue, Respond
  <1>4. CASE exists /\ pc' \in {"regular", "size"} /\ response' = response
    <2>1. Types'
      BY <1>1, <1>4 DEF Types, Labels, sending, wire
    <2>2. Frame'
      BY <1>1, <1>2, <1>4 DEF Frame, Before, AtHead, AtFile, sending, wire
    <2>3. Uncut'
      BY <1>1, <1>2, <1>4 DEF Uncut, sending, wire
    <2>. QED BY <2>1, <2>2, <2>3
  <1>5. CASE pc' = "prepare" /\ response' \in {Text(404), Text(403), Text(200)}
    <2>1. /\ response' \in Responses
          /\ response'.hasFile = FALSE /\ response'.headOnly = FALSE
      <3>1. PICK status \in {404, 403, 200} : response' = Text(status)
        BY <1>5, ZenonT(60)
      <3>2. status \in Nat
        OBVIOUS
      <3>. QED BY <3>1, <3>2, TextIsResponse, Zenon
    <2>2. Types'
      BY <1>1, <1>5, <2>1 DEF Types, Labels, sending, wire
    <2>3. Frame'
      BY <1>1, <1>2, <1>5, <2>1 DEF Frame, Before, AtHead, AtFile, sending, wire
    <2>4. Uncut'
      BY <1>1, <1>2, <1>5, <2>1 DEF Uncut, sending, wire
    <2>. QED BY <2>2, <2>3, <2>4
  <1>. QED BY <1>3, <1>4, <1>5

LEMMA FileSizeFInv ==
    ASSUME FInv, FileSize \/ FileSizeFails
    PROVE  FInv'
  <1>. USE DEF FInv
  <1>1. /\ pc = "size" /\ pc' = "prepare"
        /\ failed' \in BOOLEAN /\ (~failed' => ~failed)
        /\ UNCHANGED <<exists, size, removed, request, sending, wire>>
    BY DEF FileSize, FileSizeFails, Respond, file, history, Types
  <1>2. /\ declared = 0 /\ delivered = 0 /\ ~fd.open /\ response.body = 0
    BY <1>1 DEF Frame, Before
  <1>3. fileSize' \in Nat /\ (exists /\ ~failed' => fileSize' = size)
    BY RangeAssumption, ServeAssumption DEF FileSize, FileSizeFails, Types
  <1>4. request.method # "unparsed"
    BY <1>1 DEF Frame, Before
  <1>5. /\ response' \in Responses
        /\ response'.hasFile =>
             /\ response'.body = 0 /\ response'.length = response'.count
             /\ response'.start + response'.count <= fileSize'
    <2>1. response' = FileAnswer(fileSize')
      BY DEF FileSize, FileSizeFails, Respond
    <2>. QED BY <1>2, <1>3, <2>1, FileAnswerInFile
  <1>6. Types'
    BY <1>1, <1>5 DEF Types, Labels, sending, wire
  <1>7. Frame'
    BY <1>1, <1>2, <1>4, <1>5 DEF Frame, Before, AtHead, AtFile, sending, wire
  <1>8. Uncut'
    <2>1. ~removed /\ ~failed => exists
      BY <1>1 DEF Uncut
    <2>. QED BY <1>1, <1>2, <1>3, <1>5, <2>1 DEF Uncut, sending, wire
  <1>. QED BY <1>6, <1>7, <1>8

-----------------------------------------------------------------------------
\* The steps of the answer.
LEMMA PrepareMsgFInv ==
    ASSUME FInv, PrepareMsg
    PROVE  FInv'
  <1>. USE DEF FInv
  <1>1. /\ pc = "prepare" /\ response' = MarkHead(response)
        /\ declared' = ContentLength(response') /\ delivered' = 0
        /\ pc' = IF response'.hasFile /\ ~response'.headOnly THEN "open" ELSE "head"
        /\ closing' = ~request.keepAlive
        /\ UNCHANGED <<exists, size, removed, failed, request, fileSize, fd, fileOffset, remaining>>
    BY DEF PrepareMsg, file, history
  <1>2. ~fd.open /\ (request.method = "unparsed" => ~response.headOnly)
        /\ (response.hasFile => response.body = 0 /\ response.length = response.count)
    BY <1>1 DEF Frame, Before
  <1>3. /\ response' \in Responses
        /\ response'.body = response.body /\ response'.length = response.length
        /\ response'.hasFile = response.hasFile
        /\ response'.start = response.start /\ response'.count = response.count
        /\ response'.headOnly <=> request.method = "head"
    BY <1>1, <1>2, Marked
  <1>4. closing' \in BOOLEAN
    BY <1>1, Zenon
  <1>5. declared' \in Nat
    <2>1. response'.body \in Nat /\ response'.count \in Nat
      BY <1>3 DEF Responses
    <2>. QED BY <1>1, <1>2, <1>3, <2>1 DEF ContentLength
  <1>6. Types'
    BY <1>1, <1>3, <1>4, <1>5 DEF Types, Labels
  <1>7. Frame'
    BY <1>1, <1>2, <1>3 DEF Frame, Before, AtHead, AtFile, ContentLength
  <1>8. Uncut'
    BY <1>1, <1>2, <1>3 DEF Uncut
  <1>. QED BY <1>6, <1>7, <1>8

LEMMA OpenFInv ==
    ASSUME FInv, Open \/ OpenFails
    PROVE  FInv'
  <1>. USE DEF FInv
  <1>1. /\ pc = "open" /\ pc' = "head"
        /\ UNCHANGED <<exists, size, removed, request, fileSize, response, declared,
                       delivered>>
    BY DEF Open, OpenFails, file, history, wire
  <1>2. /\ delivered = 0 /\ declared = ContentLength(response)
        /\ response.headOnly <=> request.method = "head"
        /\ response.hasFile /\ ~response.headOnly /\ ~fd.open
        /\ response.body = 0 /\ response.length = response.count
    BY <1>1 DEF Frame, Before, AtHead
  <1>3. CASE Open
    <2>1. /\ exists /\ closing' = closing /\ failed' = failed
          /\ fd' = [open |-> TRUE, linked |-> TRUE, size |-> 0]
          /\ fileOffset' = response.start /\ remaining' = response.count
      BY <1>3 DEF Open, file, history
    <2>2. fd'.open = TRUE /\ fd'.linked = TRUE
          /\ fd' \in [open : BOOLEAN, linked : BOOLEAN, size : 0 .. MaxSize]
      <3>1. 0 \in 0 .. MaxSize
        BY ServeAssumption, RangeAssumption
      <3>. QED BY <2>1, <3>1
    <2>3. Types'
      BY <1>1, <2>1, <2>2 DEF Types, Labels, Responses
    <2>4. Frame'
      BY <1>1, <1>2, <2>1, <2>2 DEF Frame, Before, AtHead, AtFile, ContentLength
    <2>5. Uncut'
      BY <1>1, <1>2, <2>1, <2>2 DEF Uncut
    <2>. QED BY <2>3, <2>4, <2>5
  <1>4. CASE OpenFails
    <2>1. /\ failed' \in BOOLEAN /\ (~failed' => ~failed /\ ~exists)
          /\ closing' = TRUE /\ UNCHANGED <<fd, fileOffset, remaining>>
      BY <1>4 DEF OpenFails, Types
    <2>2. Types'
      BY <1>1, <2>1 DEF Types, Labels
    <2>3. Frame'
      BY <1>1, <1>2, <2>1 DEF Frame, Before, AtHead, AtFile, ContentLength
    <2>4. Uncut'
      BY <1>1, <1>2, <2>1 DEF Uncut
    <2>. QED BY <2>2, <2>3, <2>4
  <1>. QED BY <1>3, <1>4

LEMMA SendHeadFInv ==
    ASSUME FInv, SendHead
    PROVE  FInv'
  <1>. USE DEF FInv
  <1>1. /\ pc = "head" /\ pc' = "file"
        /\ delivered' = IF response.headOnly THEN 0 ELSE response.body
        /\ UNCHANGED <<exists, size, removed, failed, request, fileSize, response, sending, declared>>
    BY DEF SendHead, file, history
  <1>2. response.body \in Nat /\ response.count \in Nat
    BY DEF Types, Responses
  <1>3. /\ declared = ContentLength(response)
        /\ response.headOnly <=> request.method = "head"
        /\ response.hasFile => response.body = 0 /\ response.length = response.count
        /\ fd.open => response.hasFile /\ ~response.headOnly /\ remaining = response.count
        /\ ~fd.open => response.headOnly \/ ~response.hasFile \/ closing
    BY <1>1 DEF Frame, Before, AtHead
  <1>4. Types'
    BY <1>1, <1>2 DEF Types, Labels, sending
  <1>5. Frame'
    BY <1>1, <1>2, <1>3 DEF Frame, Before, AtHead, AtFile, ContentLength, Expected, sending
  <1>6. Uncut'
    BY <1>1, <1>2, <1>3 DEF Uncut, ContentLength, Expected, sending
  <1>. QED BY <1>4, <1>5, <1>6

LEMMA SendFileFInv ==
    ASSUME FInv, NEW k \in 1 .. MaxSize, SendFile(k)
    PROVE  FInv'
  <1>. USE DEF FInv
  <1>1. /\ pc = "file" /\ fd.open /\ k <= remaining
        /\ fileOffset' = fileOffset + k /\ remaining' = remaining - k
        /\ delivered' = delivered + k
        /\ UNCHANGED <<exists, size, removed, failed, pc, request, fileSize, response,
                       closing, fd, declared>>
    BY DEF SendFile, Sending, file, history
  <1>2. k \in Nat
    BY ServeAssumption, RangeAssumption
  <1>3. Types'
    BY <1>1, <1>2 DEF Types
  <1>4. Frame'
    BY <1>1, <1>2 DEF Frame, Before, AtHead, AtFile, Types
  <1>5. Uncut'
    BY <1>1, <1>2 DEF Uncut, Types
  <1>. QED BY <1>3, <1>4, <1>5

\* A file nobody has deleted and no call has failed on has all that is to be
\* sent of it.
LEMMA NotStarved ==
    ASSUME FInv, Sending, ~removed, ~failed
    PROVE  InRange /\ fileOffset < FdSize
  <1>. USE DEF FInv
  <1>1. /\ fd.open /\ remaining \in Nat /\ remaining > 0 /\ fileOffset \in Nat
        /\ size \in 0 .. MaxSize
    BY DEF Sending, Types
  <1>2. fd.linked /\ fileOffset + remaining <= size
    BY <1>1 DEF Uncut
  <1>3. FdSize = size
    BY <1>2 DEF FdSize
  <1>4. WordMax \div 2 \in Int /\ MaxSize \in 0 .. WordMax \div 2
    BY ServeAssumption, RangeAssumption
  <1>. QED BY <1>1, <1>2, <1>3, <1>4 DEF InRange

LEMMA StopFInv ==
    ASSUME FInv, SendFileRefused \/ SendFileFails \/ IdleTimeout \/ Finish
    PROVE  FInv'
  <1>. USE DEF FInv
  <1>1. /\ pc = "file"
        /\ failed' \in BOOLEAN /\ (~failed' => ~failed)
        /\ UNCHANGED <<exists, size, removed, request, fileSize, response, wire>>
    BY DEF Types, SendFileRefused, SendFileFails, IdleTimeout, Starved, Finish, Sending, file, history
  <1>2. delivered \in Nat /\ declared \in Nat /\ remaining \in Nat
    BY DEF Types
  <1>3. /\ fd.open => request.method # "head" /\ delivered + remaining = declared
        /\ ~fd.open => delivered <= Expected /\ (delivered = Expected \/ closing)
        /\ ~fd.open /\ ~removed /\ ~failed => delivered = Expected
    BY <1>1 DEF Frame, AtFile, Uncut
  <1>4. Closed \in [open : BOOLEAN, linked : BOOLEAN, size : 0 .. MaxSize]
        /\ ~Closed.open /\ 0 \in Nat
    <2>1. 0 \in 0 .. MaxSize
      BY ServeAssumption, RangeAssumption
    <2>. QED BY <2>1 DEF Closed
  <1>5. CASE SendFileRefused \/ SendFileFails
    <2>1. /\ fd' = Closed /\ fileOffset' = 0 /\ remaining' = 0 /\ closing' = TRUE
          /\ pc' = "file" /\ fd.open
      BY <1>5, <1>1 DEF SendFileRefused, SendFileFails, CloseFile, Sending
    <2>2. removed \/ failed'
      BY <1>1, <1>5, NotStarved DEF SendFileRefused, SendFileFails
    <2>3. Types'
      BY <1>1, <1>4, <2>1 DEF Types, Labels, wire
    <2>4. Frame'
      BY <1>1, <1>2, <1>3, <1>4, <2>1 DEF Frame, Before, AtHead, AtFile, Expected, wire
    <2>5. Uncut'
      BY <1>1, <2>1, <2>2 DEF Uncut
    <2>. QED BY <2>3, <2>4, <2>5
  <1>6. CASE IdleTimeout
    <2>1. /\ fd' = Closed /\ fileOffset' = 0 /\ remaining' = 0 /\ closing' = closing
          /\ pc' = "closed" /\ fd.open /\ (removed \/ failed)
      <3>1. removed \/ failed
        BY <1>6, NotStarved DEF IdleTimeout, Starved, FdSize, Types
      <3>. QED BY <1>6, <3>1 DEF IdleTimeout, Starved, Sending, CloseFile
    <2>2. Types'
      BY <1>1, <1>4, <2>1 DEF Types, Labels, wire
    <2>3. Frame'
      BY <1>1, <1>2, <1>3, <1>4, <2>1 DEF Frame, Before, AtHead, AtFile, Expected, wire
    <2>4. Uncut'
      BY <1>1, <2>1 DEF Uncut
    <2>. QED BY <2>2, <2>3, <2>4
  <1>7. CASE Finish
    <2>1. /\ fd.open => remaining = 0
          /\ closing' = closing
          /\ pc' = IF closing THEN "closed" ELSE "done"
          /\ \/ fd.open /\ fd' = Closed /\ fileOffset' = 0 /\ remaining' = 0
             \/ ~fd.open /\ UNCHANGED <<fd, fileOffset, remaining>>
      BY <1>7 DEF Finish, CloseFile
    <2>2. Types'
      BY <1>1, <1>4, <2>1 DEF Types, Labels, wire
    <2>3. Frame'
      BY <1>1, <1>2, <1>3, <1>4, <2>1 DEF Frame, Before, AtHead, AtFile, Expected, wire
    <2>4. Uncut'
      BY <1>1, <1>2, <1>3, <1>4, <2>1 DEF Uncut, Expected, wire
    <2>. QED BY <2>2, <2>3, <2>4
  <1>. QED BY <1>5, <1>6, <1>7

LEMMA NextRequestFInv ==
    ASSUME FInv, NextRequest
    PROVE  FInv'
  <1>. USE DEF FInv
  <1>1. /\ pc = "done" /\ pc' = "idle"
        /\ request' = NoRequest /\ declared' = 0 /\ delivered' = 0
        /\ UNCHANGED <<exists, size, removed, failed, response, sending>>
    BY DEF NextRequest, file, history
  <1>2. ~fd.open
    BY <1>1 DEF Frame, AtFile
  <1>3. Types'
    BY <1>1 DEF Types, Labels, NoRequest, sending
  <1>4. Frame' /\ Uncut'
    BY <1>1, <1>2 DEF Frame, Before, AtHead, AtFile, Uncut, sending
  <1>. QED BY <1>3, <1>4

-----------------------------------------------------------------------------
\* The other workers.  Only the file changes, and what fd tells of it.
LEMMA OthersFInv ==
    ASSUME FInv, Others
    PROVE  FInv'
  <1>. USE DEF FInv
  <1>1. UNCHANGED connection
    BY DEF Others, OthersCreate, OthersLengthen, OthersDelete, OthersLengthenOpen
  <1>2. /\ fd'.open = fd.open
        /\ fd' \in [open : BOOLEAN, linked : BOOLEAN, size : 0 .. MaxSize]
        /\ exists' \in BOOLEAN /\ removed' \in BOOLEAN /\ size' \in 0 .. MaxSize
        /\ failed' = failed
        /\ \/ removed'
           \/ /\ removed' = removed /\ fd'.linked = fd.linked
              /\ ~removed /\ ~failed /\ fd.open => fd.linked
              /\ exists => exists' /\ size' >= size
    <2>1. /\ fd \in [open : BOOLEAN, linked : BOOLEAN, size : 0 .. MaxSize]
          /\ size \in 0 .. MaxSize /\ exists \in BOOLEAN /\ removed \in BOOLEAN
          /\ ~removed /\ ~failed /\ fd.open => fd.linked
      BY DEF Types, Uncut
    <2>2. failed' = failed
      BY DEF Others, OthersCreate, OthersLengthen, OthersDelete, OthersLengthenOpen,
             connection, file, history
    <2>3. CASE OthersCreate
      <3>1. ~exists /\ exists' = TRUE /\ size' = 0 /\ removed' = removed /\ fd' = fd
        BY <2>3 DEF OthersCreate, SF!Create, history
      <3>2. exists' \in BOOLEAN
        BY <3>1, Zenon
      <3>3. size' \in 0 .. MaxSize
        BY <3>1, RangeAssumption, ServeAssumption
      <3>. QED BY <2>1, <2>2, <3>1, <3>2, <3>3
    <2>4. CASE OthersLengthen
      <3>1. size' \in 0 .. MaxSize
        BY <2>4, RangeAssumption, ServeAssumption DEF OthersLengthen
      <3>. QED BY <2>1, <2>4, <2>2, <3>1 DEF OthersLengthen, SF!Lengthen, history
    <2>5. CASE OthersDelete
      <3>1. FdSize \in 0 .. MaxSize
        BY <2>1 DEF FdSize
      <3>2. fd' = [fd EXCEPT !.linked = FALSE, !.size = FdSize]
        BY <2>5 DEF OthersDelete
      <3>3. fd' \in [open : BOOLEAN, linked : BOOLEAN, size : 0 .. MaxSize]
        BY <2>1, <3>1, <3>2, Zenon
      <3>4. fd'.open = fd.open
        BY <2>1, <3>2
      <3>5. exists' = FALSE /\ removed' = TRUE /\ size' = 0
        BY <2>5 DEF OthersDelete, SF!Unlink
      <3>6. removed' /\ exists' \in BOOLEAN /\ removed' \in BOOLEAN
        BY <3>5, Zenon
      <3>7. size' \in 0 .. MaxSize
        BY <3>5, RangeAssumption, ServeAssumption
      <3>. QED BY <2>2, <3>3, <3>4, <3>6, <3>7
    <2>6. CASE OthersLengthenOpen
      <3>1. fd.open /\ ~fd.linked /\ UNCHANGED file
        BY <2>6 DEF OthersLengthenOpen
      <3>2. PICK n \in fd.size + 1 .. MaxSize : fd' = [fd EXCEPT !.size = n]
        BY <2>6 DEF OthersLengthenOpen
      <3>3. n \in 0 .. MaxSize
        BY <2>1, <3>2, ServeAssumption, RangeAssumption
      <3>4. fd' \in [open : BOOLEAN, linked : BOOLEAN, size : 0 .. MaxSize]
            /\ fd'.open = fd.open /\ fd'.linked = fd.linked
        BY <2>1, <3>1, <3>2, <3>3
      <3>. QED BY <2>1, <2>2, <3>1, <3>4 DEF file, history
    <2>. QED BY <2>3, <2>4, <2>5, <2>6 DEF Others
  <1>3. Types'
    BY <1>1, <1>2 DEF Types, Labels, connection, wire
  <1>4. Frame'
    BY <1>1, <1>2 DEF Frame, Before, AtHead, AtFile, Expected, ContentLength,
                      connection, wire
  <1>5. Uncut'
    <2>1. CASE removed'
      BY <2>1 DEF Uncut
    <2>2. CASE failed'
      BY <2>2 DEF Uncut
    <2>3. CASE /\ removed' = removed /\ ~removed /\ ~failed
               /\ fd.open => fd.linked
               /\ fd'.linked = fd.linked
               /\ exists => exists' /\ size' >= size
      <3>1. /\ response.start \in Nat /\ response.count \in Nat
            /\ fileOffset \in Nat /\ remaining \in Nat
            /\ size \in Int /\ size' \in Int
        BY <1>2 DEF Types, Responses
      <3>2. fd.open => exists
        BY <2>3 DEF Uncut
      <3>. QED BY <1>1, <1>2, <2>3, <3>1, <3>2 DEF Uncut, Expected, connection, wire
    <2>. QED BY <1>2, <2>1, <2>2, <2>3 DEF Types
  <1>. QED BY <1>3, <1>4, <1>5

LEMMA NextFInv == FInv /\ [Next]_vars => FInv'
  <1>. SUFFICES ASSUME FInv, [Next]_vars PROVE FInv'
    OBVIOUS
  <1>1. CASE \E q \in Requests : Start(q)
    BY <1>1, StartFInv
  <1>2. CASE StartUnparsed
    BY <1>2, StartUnparsedFInv
  <1>3. CASE Work
    BY <1>3, AskFInv, FileSizeFInv, PrepareMsgFInv, OpenFInv, SendHeadFInv,
       SendFileFInv, StopFInv, Zenon DEF Work
  <1>4. CASE SendFileFails
    BY <1>4, StopFInv
  <1>5. CASE NextRequest
    BY <1>5, NextRequestFInv
  <1>6. CASE Others
    BY <1>6, OthersFInv
  <1>7. CASE UNCHANGED vars
    BY <1>7 DEF FInv, Types, Labels, Responses, Frame, Before, AtHead, AtFile, Uncut,
                Expected, ContentLength, vars, file, history, sending, wire
  <1>. QED BY <1>1, <1>2, <1>3, <1>4, <1>5, <1>6, <1>7 DEF Next

\* What every reachable state of a request in progress satisfies.
LEMMA FInvariant == Spec => []FInv
  <1>. QED BY InitFInv, NextFInv, PTL DEF Spec

\* Whatever other workers do with the file while it is sent, a connection goes
\* on only behind an answer of the length it has announced.
THEOREM AnswersAreFramed == Spec => []AnswerFramed
  <1>1. FInv => AnswerFramed
    <2>. SUFFICES ASSUME FInv PROVE AnswerFramed
      OBVIOUS
    <2>. USE DEF FInv
    <2>1. pc \in Labels /\ declared \in Nat /\ delivered \in Nat /\ remaining \in Nat
          /\ response.body \in Nat
      BY DEF Types, Responses
    <2>2. delivered <= Expected
      BY <2>1 DEF Labels, Frame, Before, AtHead, AtFile, Expected
    <2>. QED BY <2>2 DEF AnswerFramed, Frame, AtFile
  <1>. QED BY <1>1, FInvariant, PTL

\* Uploads never make the server break off an answer, and never leave it
\* waiting for bytes that the file has not; a DELETE can, and an error of
\* fs::file_size, open or sendfile.
THEOREM UploadsCutNoAnswer == Spec => []UploadsNeverCut
  <1>1. FInv => UploadsNeverCut
    <2>. SUFFICES ASSUME FInv, ~removed, ~failed
                  PROVE  (pc = "closed" => delivered = Expected) /\ ~Starved
      BY DEF UploadsNeverCut
    <2>1. pc = "closed" => delivered = Expected
      BY DEF FInv, Uncut
    <2>2. ~Starved
      <3>1. fileOffset \in Int /\ FdSize \in Int
        BY DEF FInv, Types, FdSize
      <3>. QED BY <3>1, NotStarved DEF Starved
    <2>. QED BY <2>1, <2>2
  <1>. QED BY <1>1, FInvariant, PTL

-----------------------------------------------------------------------------
\* Once the size of the file is known, the answer says what the header asks of
\* a file of that size, and no later step makes it say anything else.
RInv ==
    /\ fileSize \in Nat \cup {NoSize}
    /\ pc \in {"idle", "exists", "index", "regular", "size"} => fileSize = NoSize
    /\ fileSize # NoSize => Said(response) = Answer(fileSize)

LEMMA InitRInv == Init => RInv
  BY DEF Init, RInv, NoSize

LEMMA NextRInv == FInv /\ RInv /\ [Next]_vars => RInv'
  <1>. SUFFICES ASSUME FInv, RInv, [Next]_vars PROVE RInv'
    OBVIOUS
  <1>1. ASSUME fileSize = NoSize, fileSize' = NoSize PROVE RInv'
    BY <1>1 DEF RInv
  <1>2. CASE \E q \in Requests : Start(q)
    BY <1>1, <1>2 DEF RInv, Start
  <1>3. CASE StartUnparsed
    BY <1>1, <1>3 DEF RInv, StartUnparsed
  <1>4. CASE Exists \/ Index \/ Regular
    BY <1>1, <1>4 DEF RInv, Exists, Index, Regular
  <1>5. CASE FileSize \/ FileSizeFails
    <2>1. /\ pc' = "prepare" /\ response' = FileAnswer(fileSize') /\ request' = request
          /\ fileSize' \in {size, WordMax}
      BY <1>5 DEF FileSize, FileSizeFails, Respond
    <2>2. fileSize' \in Nat
      BY <2>1, RangeAssumption, ServeAssumption DEF FInv, Types
    <2>3. Said(response)' = Said(FileAnswer(fileSize'))
      BY <2>1, Zenon DEF Said
    <2>4. Answer(fileSize)' = Answer(fileSize')
      BY <2>1, Zenon DEF Answer
    <2>5. Said(response)' = Answer(fileSize)'
      BY <2>3, <2>4, FileAnswerSaid, Zenon
    <2>. QED BY <2>1, <2>2, <2>5 DEF RInv
  <1>6. CASE PrepareMsg
    <2>1. /\ pc = "prepare" /\ response' = MarkHead(response)
          /\ pc' \in {"open", "head"}
          /\ request' = request /\ fileSize' = fileSize
      BY <1>6 DEF PrepareMsg
    <2>2. Said(response)' = Said(response)
      BY <2>1, Marked DEF Said, FInv
    <2>3. Answer(fileSize)' = Answer(fileSize)
      BY <2>1, Zenon DEF Answer
    <2>. QED BY <2>1, <2>2, <2>3 DEF RInv
  <1>7. ASSUME UNCHANGED <<request, fileSize, response>>,
               \/ pc' = pc
               \/ pc' \in {"head", "file", "done", "closed"}
        PROVE  RInv'
    BY <1>7 DEF RInv, Said, Answer
  <1>8. CASE Open \/ OpenFails \/ SendHead
    BY <1>7, <1>8 DEF Open, OpenFails, SendHead
  <1>9. CASE \E k \in 1 .. MaxSize : SendFile(k)
    BY <1>7, <1>9 DEF SendFile
  <1>10. CASE SendFileRefused \/ SendFileFails \/ Finish \/ IdleTimeout
    BY <1>7, <1>10 DEF SendFileRefused, SendFileFails, Finish, IdleTimeout
  <1>11. CASE NextRequest
    BY <1>11 DEF NextRequest, RInv
  <1>12. CASE Others
    BY <1>7, <1>12 DEF Others, OthersCreate, OthersLengthen, OthersDelete,
                       OthersLengthenOpen, connection
  <1>13. CASE UNCHANGED vars
    BY <1>7, <1>13 DEF vars
  <1>. QED BY <1>2, <1>3, <1>4, <1>5, <1>6, <1>8, <1>9, <1>10, <1>11, <1>12, <1>13
       DEF Next, Work

\* For every Range header, in any base and for words of any width: the client
\* gets the positions it asks for, 416 only if there are none, and the whole
\* file only if what it has sent is no range (HttpRequest.cpp:208-325,
\* 1118-1140).
THEOREM RangesStayExact == Spec => []RangeExact
  <1>1. FInv /\ RInv => RangeExact
    <2>. SUFFICES ASSUME FInv, RInv, fileSize # NoSize,
                         NEW a, a = Said(response)
                  PROVE  /\ Exact(End(request.left), End(request.right), fileSize, a)
                         /\ a.status = 206 => IsRange(request.left, request.right)
                         /\ IsRange(request.left, request.right) => a.status \in {206, 416}
      BY DEF RangeExact, Said
    <2>1. fileSize \in Nat /\ a = Answer(fileSize)
      BY DEF RInv
    <2>2. /\ request.left \in Texts \/ request.left = <<>>
          /\ request.right \in Texts \/ request.right = <<>>
      BY DEF FInv, Types
    <2>3. /\ ParseDecimal(request.left) = End(request.left)
          /\ ParseDecimal(request.right) = End(request.right)
      BY <2>2, DecimalIs
    <2>4. End(request.left) \in Ends /\ End(request.right) \in Ends
      BY <2>2, DecimalIs, Words DEF Ends
    <2>5. a = Reply(ParseRange(End(request.left), End(request.right), fileSize), fileSize)
      BY <2>1, <2>3 DEF Answer
    <2>. QED BY <2>1, <2>2, <2>4, <2>5, RangeAnswerExact, RangeIs
  <1>2. Spec => []RInv
    BY InitRInv, NextRInv, FInvariant, PTL DEF Spec
  <1>. QED BY <1>1, <1>2, FInvariant, PTL
=============================================================================
