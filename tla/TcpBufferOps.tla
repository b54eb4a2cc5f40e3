---------------------------- MODULE TcpBufferOps -----------------------------
(***************************************************************************)
(* Every sequence of calls on one TcpBuffer.  Bytes are numbered in the    *)
(* order they are handed to it, so that what must come out is known.       *)
(***************************************************************************)
EXTENDS TcpBuffer

CONSTANTS
    InitSize,   \* the size the buffer is made with
    OpsBytes    \* bound: bytes handed to the buffer

ASSUME BufferOpsAssumption ==
    /\ InitSize \in Nat \ {0}
    /\ OpsBytes \in Nat
    /\ 1..OpsBytes \subseteq Byte

VARIABLES
    buffer,     \* the buffer
    written,    \* bytes handed to it
    taken,      \* bytes that have come out of it, oldest first
    refused     \* an index move has been refused

opsVars == <<buffer, written, taken, refused>>

OpsTypeOK ==
    /\ buffer \in Buffer
    /\ written \in 0..OpsBytes
    /\ taken \in Seq(Byte)
    /\ refused \in BOOLEAN

OpsInit ==
    /\ buffer = NewBuffer(InitSize)
    /\ written = 0
    /\ taken = << >>
    /\ refused = FALSE

\* The next n bytes.
NextBytes(n) == [i \in 1..n |-> written + i]

\* TinyPBCoder::encode: writeToBuffer.
Write(n) ==
    /\ written + n <= OpsBytes
    /\ buffer' = WriteToBuffer(buffer, NextBytes(n))
    /\ written' = written + n
    /\ UNCHANGED <<taken, refused>>

\* TcpConnection::onRead: read() into the free cells, then moveWriteIndex.
Fill(n) ==
    /\ written + n <= OpsBytes
    /\ n <= WriteAble(buffer)
    /\ buffer' = MoveWriteIndex(Store(buffer, NextBytes(n)), n)
    /\ written' = written + n
    /\ refused' = (refused \/ MoveWriteRefused(buffer, n))
    /\ UNCHANGED taken

\* StringCoder::decode: readFromBuffer.
Read(n) ==
    /\ buffer' = ReadFromBuffer(buffer, n)
    /\ taken' = taken \o SubSeq(Content(buffer), 1, Taken(buffer, n))
    /\ UNCHANGED <<written, refused>>

\* TinyPBCoder::decode: the bytes of a frame are read in place, then
\* moveReadIndex.
Skip(n) ==
    /\ n <= ReadAble(buffer)
    /\ buffer' = MoveReadIndex(buffer, n)
    /\ taken' = taken \o SubSeq(Content(buffer), 1, n)
    /\ refused' = (refused \/ MoveReadRefused(buffer, n))
    /\ UNCHANGED written

\* TcpConnection::onRead: a full buffer is doubled.
Double ==
    /\ WriteAble(buffer) = 0
    /\ buffer' = ResizeBuffer(buffer, 2 * Size(buffer))
    /\ UNCHANGED <<written, taken, refused>>

\* A sequence of calls ends with the first refused one.
OpsNext ==
    /\ ~ refused
    /\ \/ \E n \in 1..OpsBytes : Write(n) \/ Fill(n) \/ Read(n) \/ Skip(n)
       \/ Double

OpsSpec == OpsInit /\ [][OpsNext]_opsVars

\* What comes out is what was put in, in order and without a gap, through all
\* growing and shifting of the cells, until an index move is refused: then
\* bytes are lost (moveWriteIndex) or come out again (moveReadIndex).
StreamKept ==
    ~ refused => taken \o Content(buffer) = [i \in 1..written |-> i]
=============================================================================
