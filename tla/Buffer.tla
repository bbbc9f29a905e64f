------------------------------- MODULE Buffer -------------------------------
(***************************************************************************)
(* The byte buffer of a connection (Buffer.cpp), as operators on a record  *)
(* b: b.mem is the memory, its length m_capacity, and the unread bytes lie *)
(* in it after readPos, up to writePos.  The bytes outside of them are     *)
(* whatever earlier calls have left.                                       *)
(*                                                                         *)
(* Memory can be had: realloc does not fail (if it does appendString drops *)
(* the bytes, and no caller looks).  The memcpy of extendRoom may overlap; *)
(* it is taken for the move that the C library of the image makes of it.   *)
(*                                                                         *)
(* Operators named Broken... are faulty variants of the operator that      *)
(* follows them; no specification uses them.                               *)
(***************************************************************************)
EXTENDS Integers, Sequences

CONSTANTS Zero,      \* the byte 0
          TempSize   \* size of socketRead's temporary buffer (40960)

ASSUME BufferAssumption == TempSize \in Nat

Record(m, r, w) == [mem |-> m, readPos |-> r, writePos |-> w]

NewBuffer(size) == Record([i \in 1 .. size |-> Zero], 0, 0)

Capacity(b) == Len(b.mem)
Readable(b) == b.writePos - b.readPos
Writeable(b) == Capacity(b) - b.writePos

\* data(), as far as readableSize().
Contents(b) == [i \in 1 .. Readable(b) |-> b.mem[b.readPos + i]]

BrokenCompact(b) ==   \* leaves the last byte behind
    Record([i \in 1 .. Capacity(b) |->
              IF i < Readable(b) THEN b.mem[b.readPos + i] ELSE b.mem[i]],
           0, Readable(b))

\* The unread bytes move to the front.
Compact(b) ==
    Record([i \in 1 .. Capacity(b) |->
              IF i <= Readable(b) THEN b.mem[b.readPos + i] ELSE b.mem[i]],
           0, Readable(b))

Grow(b, size) ==
    Record(b.mem \o [i \in 1 .. size |-> Zero], b.readPos, b.writePos)

BrokenExtendRoom(b, size) ==   \* does not use what has been read
    IF Writeable(b) >= size THEN b ELSE Grow(b, size)

ExtendRoom(b, size) ==
    IF Writeable(b) >= size THEN b
    ELSE IF b.readPos + Writeable(b) >= size THEN Compact(b)
    ELSE Grow(b, size)

\* memcpy to the write position.
Store(b, data) ==
    Record([i \in 1 .. Capacity(b) |->
              IF i \in b.writePos + 1 .. b.writePos + Len(data)
                THEN data[i - b.writePos] ELSE b.mem[i]],
           b.readPos, b.writePos + Len(data))

AppendString(b, data) ==
    IF data = <<>> THEN b ELSE Store(ExtendRoom(b, Len(data)), data)

\* readv of data into the room there is and the temporary buffer.
SocketRead(b, data) ==
    IF Len(data) <= Writeable(b)
      THEN Store(b, data)
      ELSE AppendString(Store(b, SubSeq(data, 1, Writeable(b))),
                        SubSeq(data, Writeable(b) + 1, Len(data)))

ReadMaxOf(b) == Writeable(b) + TempSize

ReadPosIncrease(b, count) == Record(b.mem, b.readPos + count, b.writePos)

\* sendData has sent count bytes.
Sent(b, count) ==
    IF b.readPos + count = b.writePos
      THEN Record(b.mem, 0, 0)
      ELSE ReadPosIncrease(b, count)

\* A buffer the program can have.
IsBuffer(b, Bytes) ==
    /\ b \in [mem : Seq(Bytes), readPos : Nat, writePos : Nat]
    /\ b.writePos \in 0 .. Len(b.mem) /\ b.readPos \in 0 .. b.writePos
=============================================================================
