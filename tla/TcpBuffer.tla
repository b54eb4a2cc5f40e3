------------------------------ MODULE TcpBuffer ------------------------------
(***************************************************************************)
(* net/tcp/tcp_buffer.{h,cc}: the operations on a connection's buffer, as  *)
(* operators on a record: cells is m_buffer, r and w are m_read_index and  *)
(* m_write_index (0-based: the readable bytes are cells[r+1] to cells[w]). *)
(***************************************************************************)
EXTENDS Integers, Sequences

CONSTANTS
    Byte,       \* the bytes a buffer holds
    NoByte      \* what std::vector fills new cells with

\* The first and the last byte of every message that is sent.
PB_START == 2
PB_END   == 3

Size(b)      == Len(b.cells)
ReadAble(b)  == b.w - b.r
WriteAble(b) == Size(b) - b.w

\* The bytes that can be read, oldest first.
Content(b) == [i \in 1..ReadAble(b) |-> b.cells[b.r + i]]

Buffer == {b \in [cells : Seq(Byte \cup {NoByte}), r : Nat, w : Nat] :
             /\ b.r <= b.w
             /\ b.w <= Size(b)
             /\ Content(b) \in Seq(Byte)}

NewBuffer(n) == [cells |-> [i \in 1..n |-> NoByte], r |-> 0, w |-> 0]

\* The same cells under other indices.
At(b, r, w) == [cells |-> b.cells, r |-> r, w |-> w]

Least(m, n) == IF m < n THEN m ELSE n

\* resizeBuffer: a new vector of n cells that begins with the readable bytes.
ResizeBuffer(b, n) ==
    LET count == Least(n, ReadAble(b))
    IN  [cells |-> [i \in 1..n |-> IF i <= count THEN b.cells[b.r + i] ELSE NoByte],
         r |-> 0,
         w |-> count]

\* Mutant of AdjustBuffer: the bytes move, the write index does not.
AdjustCellsOnly(b) ==
    IF b.r < Size(b) \div 3 THEN b
                            ELSE At(ResizeBuffer(b, Size(b)), 0, b.w)

\* adjustBuffer: once a third of the cells has been read, the readable bytes
\* move to the front.
AdjustBuffer(b) ==
    IF b.r < Size(b) \div 3 THEN b ELSE ResizeBuffer(b, Size(b))

\* The bytes s are stored from the write index on, which stays where it is:
\* the memcpy of writeToBuffer, and the read() of TcpConnection::onRead.
Store(b, s) ==
    [cells |-> [i \in 1..Size(b) |->
                  IF i \in (b.w + 1)..(b.w + Len(s)) THEN s[i - b.w] ELSE b.cells[i]],
     r |-> b.r,
     w |-> b.w]

\* writeToBuffer makes room for n bytes: 1.5 times what is written then.
Grow(b, n) ==
    IF n > WriteAble(b) THEN ResizeBuffer(b, (3 * (b.w + n)) \div 2) ELSE b

WriteToBuffer(b, s) ==
    LET c == Grow(b, Len(s)) IN At(Store(c, s), c.r, c.w + Len(s))

\* readFromBuffer hands out the oldest n bytes, or all there are.
Taken(b, n) == Least(n, ReadAble(b))
ReadFromBuffer(b, n) ==
    IF ReadAble(b) = 0 THEN b
                       ELSE AdjustBuffer(At(b, b.r + Taken(b, n), b.w))

\* Mutant of MoveReadRefused: the index may not reach the write index.
MoveReadRefusedAtWrite(b, n) == b.r + n >= b.w

\* moveReadIndex and moveWriteIndex refuse an index that reaches the end of the
\* vector, although it is a legal one.
MoveReadRefused(b, n) == b.r + n >= Size(b)
MoveWriteRefused(b, n) == b.w + n >= Size(b)

MoveReadIndex(b, n) ==
    IF MoveReadRefused(b, n) THEN b ELSE AdjustBuffer(At(b, b.r + n, b.w))

MoveWriteIndex(b, n) ==
    IF MoveWriteRefused(b, n) THEN b ELSE AdjustBuffer(At(b, b.r, b.w + n))
=============================================================================
