---------------------------- MODULE TinyPBStream -----------------------------
(***************************************************************************)
(* Frames of TinyPB, byte by byte, through the in buffer of a connection:  *)
(* TcpConnection::onRead stores what has arrived and excute decodes it.    *)
(* Where TcpConnectionRead takes a frame's start and length for one cell,  *)
(* this module has every byte, and a read may end between any two.         *)
(***************************************************************************)
EXTENDS TinyPB

CONSTANTS
    BufferSize,     \* 128 in TcpServer::onAccept
    Messages,       \* bound: messages that are sent, one after the other
    MaxRead         \* bound: bytes that one onRead reads

ASSUME StreamAssumption == BufferSize \in Nat /\ Messages \in Nat /\ MaxRead \in Nat

VARIABLES
    sent,       \* the messages the peer sends
    arrived,    \* how many of their bytes have been read
    buf,        \* m_in_buffer
    out,        \* what decode has handed out
    spins       \* decode is in a loop without an end

vars == <<sent, arrived, buf, out, spins>>

\* A short request without an id, one with PB_START and PB_END among its bytes,
\* and one that is longer than a third of the buffer.
Sample == {
    [msg_id |-> << >>, method_name |-> <<97>>, err_code |-> 0, err_info |-> << >>,
     pb_data |-> << >>],
    [msg_id |-> <<49, 50>>, method_name |-> <<97, 46, 98>>, err_code |-> 260,
     err_info |-> <<111>>, pb_data |-> <<8, 3, 16, 2>>],
    [msg_id |-> <<49>>, method_name |-> <<97, 46, 98>>, err_code |-> 0, err_info |-> << >>,
     pb_data |-> [i \in 1..13 |-> 8]] }

\* The bytes of the first n messages.
Stream(n) ==
    LET upTo[k \in 0..n] == IF k = 0 THEN << >> ELSE upTo[k - 1] \o encodeTinyPB(sent[k])
    IN  upTo[n]

\* How many of the messages are there with k bytes.
Complete(k) ==
    CHOOSE n \in 0..Messages : /\ Len(Stream(n)) <= k
                               /\ n = Messages \/ k < Len(Stream(n + 1))

TypeOK ==
    /\ sent \in Seq(Sample) /\ Len(sent) = Messages
    /\ arrived \in 0..Len(Stream(Messages))
    /\ buf \in Buffer /\ Size(buf) = BufferSize
    /\ Len(out) <= Messages
    /\ spins \in BOOLEAN

Init ==
    /\ sent \in [1..Messages -> Sample]
    /\ arrived = 0
    /\ buf = NewBuffer(BufferSize)
    /\ out = << >>
    /\ spins = FALSE

\* One onRead: n bytes are stored and counted, then excute decodes.  (It reads
\* fewer than there is room for: a read that fills the buffer is another matter,
\* BytesKept of TcpConnectionRead.)
OnRead(n) ==
    /\ ~ spins
    /\ n < WriteAble(buf) /\ arrived + n <= Len(Stream(Messages))
    /\ LET bytes == SubSeq(Stream(Messages), arrived + 1, arrived + n)
           d     == decode(MoveWriteIndex(Store(buf, bytes), n), Messages)
       IN  /\ buf' = d.buf
           /\ out' = out \o d.out
           /\ spins' = Spins(d)
    /\ arrived' = arrived + n
    /\ UNCHANGED sent

Next == \E n \in 1..MaxRead : OnRead(n)

Spec == Init /\ [][Next]_vars

-----------------------------------------------------------------------------
(* What must hold. *)

\* Wherever the reads cut the stream, decode hands out every message that is
\* complete, once, in order and with all the fields encodeTinyPB was given, and
\* leaves the bytes of the next one in the buffer.
FramesDecoded ==
    LET n == Complete(arrived)
    IN  /\ out = [i \in 1..n |-> WithId(sent[i])]
        /\ Content(buf) = SubSeq(Stream(Messages), Len(Stream(n)) + 1, arrived)

\* decode's loop ends, unless a read stops inside the length of a frame and the
\* frame before it is still in front of it in the buffer.  The bytes of the
\* length that have not come are read as the zeros of the vector, the frame has
\* length 0, and the PB_END of the one before it is taken for its own: decode
\* goes round on it for ever.  A frame of a third of the buffer or more is not
\* followed by this, as its bytes are shifted out.
SpinsBehindFrame ==
    spins => /\ buf.r > 0
             /\ ReadAble(buf) \in 2..4
             /\ PkLen(sent[Complete(arrived)]) < BufferSize \div 3
=============================================================================
