------------------------------ MODULE ByteRange ------------------------------
(***************************************************************************)
(* What a Range header makes of a GET for a static file: parseDecimal and  *)
(* parseRangeHeader (HttpRequest.cpp:208-325), and what the handler makes  *)
(* of their result (HttpRequest.cpp:1118-1141), as operators.              *)
(*                                                                         *)
(* The header is one range, "bytes=left-right"; left and right are         *)
(* sequences of digits in base Base, or of something else.  Anything but   *)
(* one range is ignored before it comes to the numbers.  Numbers are       *)
(* unsigned words up to WordMax.                                           *)
(*                                                                         *)
(* Operators named Broken... are faulty variants of the operator that      *)
(* follows them; no specification uses them.                               *)
(***************************************************************************)
EXTENDS Integers, Sequences

CONSTANTS Base,      \* 10
          WordMax,   \* UINT64_MAX
          Texts      \* what may be left or right of the dash

\* A character that is no digit; the result of parseDecimal for what is no
\* number; and for what is not there at all.
Other == -1
NoNumber == -1
Absent == -2

ASSUME RangeAssumption ==
    /\ Base \in Nat \ {0, 1} /\ WordMax \in Nat /\ Base <= WordMax + 1
    /\ Texts \subseteq Seq(0 .. Base - 1 \cup {Other})

BrokenOverflows(r, d) == r > WordMax \div Base   \* forgets the digit

\* One more digit would not fit into the word.
Overflows(r, d) == r > (WordMax - d) \div Base

\* parseDecimal, over the first i characters.
ParseDecimal(t) ==
    LET value[i \in 0 .. Len(t)] ==
          IF i = 0 THEN 0
          ELSE IF \/ value[i - 1] = NoNumber \/ t[i] = Other
                  \/ Overflows(value[i - 1], t[i])
               THEN NoNumber
               ELSE (value[i - 1] * Base + t[i]) % (WordMax + 1)
    IN  IF t = <<>> THEN Absent ELSE value[Len(t)]

Ignore == [result |-> "ignore", start |-> 0, end |-> 0]
Unsatisfiable == [result |-> "unsatisfiable", start |-> 0, end |-> 0]
Partial(a, b) == [result |-> "partial", start |-> a, end |-> b]

\* bytes=-n
Suffix(n, size) ==
    IF n < 0 THEN Ignore
    ELSE IF n = 0 \/ size = 0 THEN Unsatisfiable
    ELSE Partial(IF n >= size THEN 0 ELSE size - n, size - 1)

\* bytes=first- and bytes=first-last
FromTo(first, last, size) ==
    IF first = NoNumber THEN Ignore
    ELSE IF first >= size THEN Unsatisfiable
    ELSE IF last = NoNumber \/ last \in 0 .. first - 1 THEN Ignore
    ELSE Partial(first, IF last # Absent /\ last < size - 1 THEN last ELSE size - 1)

ParseRange(first, last, size) ==
    IF first = Absent THEN Suffix(last, size) ELSE FromTo(first, last, size)

\* Status, and what setFileToSend is told.
Reply(r, size) ==
    IF r.result = "partial"
      THEN [status |-> 206, start |-> r.start, count |-> r.end - r.start + 1]
      ELSE IF r.result = "unsatisfiable"
             THEN [status |-> 416, start |-> 0, count |-> 0]
             ELSE [status |-> 200, start |-> 0, count |-> size]
-----------------------------------------------------------------------------
\* The reference.  The number a text stands for:
Power[i \in Nat] == IF i = 0 THEN 1 ELSE Base * Power[i - 1]

Value(t) ==
    LET sum[i \in 0 .. Len(t)] ==
          IF i = 0 THEN 0 ELSE sum[i - 1] + t[i] * Power[Len(t) - i]
    IN  sum[Len(t)]

IsNumber(t) == t # <<>> /\ (\A i \in DOMAIN t : t[i] # Other) /\ Value(t) <= WordMax

\* ... a range that is one:
IsRange(l, r) == \/ IsNumber(l) /\ r = <<>>
                 \/ l = <<>> /\ IsNumber(r)
                 \/ IsNumber(l) /\ IsNumber(r) /\ Value(l) <= Value(r)

End(t) == IF t = <<>> THEN Absent ELSE IF IsNumber(t) THEN Value(t) ELSE NoNumber

\* ... and the positions of the file that a range with these ends asks for.
Asked(first, last, size) ==
    {p \in 0 .. size - 1 :
        IF first = Absent THEN p >= size - last
        ELSE p >= first /\ (last = Absent \/ p <= last)}

Positions(a) == a.start .. a.start + a.count - 1

\* An answer 206 has exactly the positions asked for, and 416 is sent only if
\* there are none.
Exact(first, last, size, a) ==
    /\ a.status = 206 => Positions(a) = Asked(first, last, size) /\ Positions(a) # {}
    /\ a.status = 416 => Asked(first, last, size) = {}
    /\ a.status = 200 => Positions(a) = 0 .. size - 1
=============================================================================
