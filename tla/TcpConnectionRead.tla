-------------------------- MODULE TcpConnectionRead --------------------------
(***************************************************************************)
(* The receiving side of a server's TcpConnection                          *)
(* (net/tcp/tcp_connection.cc): onRead copies what the socket holds into   *)
(* the in buffer, excute cuts frames out of it (the loop of                *)
(* TinyPBCoder::decode) and hands them to the RpcDispatcher.               *)
(*                                                                         *)
(* The IO thread runs onRead; the main thread, which made the connection,  *)
(* sets its state only after the constructor has begun to listen; the peer *)
(* sends, closes and resets.  epoll is level-triggered.                    *)
(*                                                                         *)
(* The peer's bytes are numbered; every frame has FrameLen of them:        *)
(* PB_START, the LenBytes of the length, what is in it, and PB_END.  What  *)
(* is in it is no start and no end byte here; TinyPBStream has the others. *)
(***************************************************************************)
EXTENDS TcpBuffer

CONSTANTS
    BufferSize,     \* 128 in TcpServer::onAccept
    LenBytes,       \* bytes of a frame's length: 4
    FrameLen,       \* bytes of a frame
    Frames          \* bound: frames the peer sends

MaxBytes == FrameLen * Frames

ASSUME ReadAssumption ==
    /\ BufferSize \in Nat \ {0}
    /\ LenBytes \in Nat \ {0}
    /\ FrameLen \in Nat /\ FrameLen > LenBytes + 2
    /\ Frames \in Nat
    /\ Byte = 1..MaxBytes
    /\ NoByte \notin Byte

VARIABLES
    state,      \* m_state
    listening,  \* the fd is registered with epoll, for EPOLLIN
    deaf,       \* onRead has run too early and will not be called again
    buf,        \* m_in_buffer
    pc,         \* what the IO thread does with this connection
    decoded,    \* the frames decode has cut out, in order
    socket,     \* received by the kernel and not yet read
    sent,       \* how many bytes the peer has sent
    peer,       \* "open", "closed" (FIN) or "reset"
    lost        \* bytes that were read and not counted

vars == <<state, listening, deaf, buf, pc, decoded, socket, sent, peer, lost>>

-----------------------------------------------------------------------------
(* Frames. *)

\* What a cell holds: the place of a byte in its frame tells.
Value(cell) ==
    IF cell = NoByte THEN 0
    ELSE CASE cell % FrameLen = 1            -> PB_START
           [] cell % FrameLen = 0            -> PB_END
           [] cell % FrameLen = LenBytes + 1 -> FrameLen
           [] OTHER                          -> 0

\* The i-th frame of the peer.
Frame(i) == [k \in 1..FrameLen |-> FrameLen * (i - 1) + k]

\* The length behind a start byte, whether or not all of it has arrived.  The
\* cells beyond the write index are read as well, and memory behind the vector,
\* where any byte may lie.  A length in whose upper bytes there is anything is
\* beyond every buffer.
Length(b, i, outside) ==
    LET Cell(k) == Value(IF i + k <= Size(b) THEN b.cells[i + k] ELSE outside)
    IN  IF \E k \in 1..(LenBytes - 1) : Cell(k) # 0 THEN Size(b) + 1 ELSE Cell(LenBytes)

\* Mutant of FrameStarts: the end is not looked at.
FrameStartsAnywhere(b, outside) ==
    {i \in (b.r + 1)..(b.w - 1) : /\ Value(b.cells[i]) = PB_START
                                  /\ i + Length(b, i, outside) - 1 \in i..Size(b)}

\* Where decode's scan finds a start byte, another byte, and an end byte where
\* the length says.  (A length of 0 says: in front of the start byte.)
FrameStarts(b, outside) ==
    {i \in (b.r + 1)..(b.w - 1) :
        LET j == i + Length(b, i, outside) - 1
        IN  /\ Value(b.cells[i]) = PB_START
            /\ j \in 1..b.w
            /\ Value(b.cells[j]) = PB_END}

-----------------------------------------------------------------------------

TypeOK ==
    /\ state \in {"NotConnected", "Connected", "Closed"}
    /\ listening \in BOOLEAN /\ deaf \in BOOLEAN
    /\ buf \in Buffer
    /\ pc \in {"idle", "queued", "read", "decode", "spins"}
    /\ decoded \in Seq(Seq(Byte))
    /\ socket \in Seq(Byte)
    /\ sent \in 0..MaxBytes
    /\ peer \in {"open", "closed", "reset"}
    /\ lost \subseteq Byte

\* The constructor, run by the main thread, listens for EPOLLIN.
Init ==
    /\ state = "NotConnected"
    /\ listening = TRUE /\ deaf = FALSE
    /\ buf = NewBuffer(BufferSize)
    /\ pc = "idle"
    /\ decoded = << >>
    /\ socket = << >>
    /\ sent = 0
    /\ peer = "open"
    /\ lost = {}

\* TcpServer::onAccept, after the constructor.
SetState ==
    /\ state = "NotConnected"
    /\ state' = "Connected"
    /\ UNCHANGED <<listening, deaf, buf, pc, decoded, socket, sent, peer, lost>>

\* epoll_wait reports the fd and the loop queues onRead.  What comes with
\* EPOLLERR is deleted from epoll besides.
Report ==
    /\ pc = "idle" /\ listening
    /\ socket # << >> \/ peer # "open"
    /\ listening' = (peer # "reset")
    /\ pc' = "queued"
    /\ UNCHANGED <<state, deaf, buf, decoded, socket, sent, peer, lost>>

\* onRead returns at once if the connection is not connected.
OnRead ==
    /\ pc = "queued"
    /\ pc' = IF state = "Connected" THEN "read" ELSE "idle"
    /\ deaf' = (state # "Connected" /\ ~ listening)
    /\ UNCHANGED <<state, listening, buf, decoded, socket, sent, peer, lost>>

\* A full buffer is doubled before the read.
Room(b) == IF WriteAble(b) = 0 THEN ResizeBuffer(b, 2 * Size(b)) ELSE b

\* One round of onRead's loop in which read() returns bytes: they are stored
\* and counted, and a read that filled the buffer is followed by another one.
ReadBytes ==
    LET b == Room(buf)
        n == Least(WriteAble(b), Len(socket))
        s == SubSeq(socket, 1, n)
    IN  /\ pc = "read"
        /\ socket # << >>
        /\ buf' = MoveWriteIndex(Store(b, s), n)
        /\ lost' = IF MoveWriteRefused(b, n) THEN lost \cup {s[i] : i \in 1..n} ELSE lost
        /\ socket' = SubSeq(socket, n + 1, Len(socket))
        /\ pc' = IF n = WriteAble(b) THEN "read" ELSE "decode"
        /\ UNCHANGED <<state, listening, deaf, decoded, sent, peer>>

\* read() returns EAGAIN.
ReadNothing ==
    /\ pc = "read"
    /\ socket = << >> /\ peer = "open"
    /\ buf' = Room(buf)
    /\ pc' = "decode"
    /\ UNCHANGED <<state, listening, deaf, decoded, socket, sent, peer, lost>>


\* read() returns 0, after a reset once ECONNRESET has been read and passed
\* over by the loop: clear, and what is buffered is not looked at.
ReadEnd ==
    /\ pc = "read"
    /\ socket = << >> /\ peer # "open"
    /\ buf' = Room(buf)
    /\ listening' = FALSE
    /\ state' = "Closed"
    /\ pc' = "idle"
    /\ UNCHANGED <<deaf, decoded, socket, sent, peer, lost>>

\* Mutant of Decode: one frame per excute.
DecodeOne ==
    /\ pc = "decode"
    /\ \E outside \in Byte \cup {NoByte} : \E i \in FrameStarts(buf, outside) :
         /\ \A j \in FrameStarts(buf, outside) : i <= j
         /\ decoded' = Append(decoded, SubSeq(buf.cells, i, i + FrameLen - 1))
         /\ buf' = MoveReadIndex(buf, FrameLen)
    /\ pc' = "idle"
    /\ UNCHANGED <<state, listening, deaf, socket, sent, peer, lost>>

\* One round of decode's loop: the read index moves by the length of the first
\* frame that is found, from where it stood and not from where the frame began.
\* A length that leaves no room for anything in the frame is a parse error.
\* With a length of 0 nothing moves: the next round finds the same, for ever.
Decode ==
    /\ pc = "decode"
    /\ \E outside \in Byte \cup {NoByte} : \E i \in FrameStarts(buf, outside) :
         LET n == Length(buf, i, outside)
         IN  /\ \A j \in FrameStarts(buf, outside) : i <= j
             /\ decoded' = IF n <= LenBytes + 2 THEN decoded
                           ELSE Append(decoded, SubSeq(buf.cells, i, i + n - 1))
             /\ buf' = MoveReadIndex(buf, n)
             /\ pc' = IF n = 0 /\ buf' = buf THEN "spins" ELSE "decode"
    /\ UNCHANGED <<state, listening, deaf, socket, sent, peer, lost>>

\* decode finds no further frame; what it has found is dispatched.
DecodeEnd ==
    /\ pc = "decode"
    /\ \E outside \in Byte \cup {NoByte} : FrameStarts(buf, outside) = {}
    /\ pc' = "idle"
    /\ UNCHANGED <<state, listening, deaf, buf, decoded, socket, sent, peer, lost>>

\* The peer.
PeerSends(n) ==
    /\ peer = "open"
    /\ sent + n <= MaxBytes
    /\ socket' = socket \o [i \in 1..n |-> sent + i]
    /\ sent' = sent + n
    /\ UNCHANGED <<state, listening, deaf, buf, pc, decoded, peer, lost>>

PeerCloses ==
    /\ peer = "open"
    /\ peer' = "closed"
    /\ UNCHANGED <<state, listening, deaf, buf, pc, decoded, socket, sent, lost>>

\* A reset discards what the kernel holds.
PeerResets ==
    /\ peer # "reset"
    /\ peer' = "reset"
    /\ socket' = << >>
    /\ UNCHANGED <<state, listening, deaf, buf, pc, decoded, sent, lost>>

IoThread == Report \/ OnRead \/ ReadBytes \/ ReadNothing \/ ReadEnd \/ Decode \/ DecodeEnd
Peer     == (\E n \in 1..MaxBytes : PeerSends(n)) \/ PeerCloses \/ PeerResets

Next == SetState \/ IoThread \/ Peer

Spec == Init /\ [][Next]_vars

\* onAccept returns, and the IO thread comes to every event.
FairSpec == Spec /\ WF_vars(SetState) /\ WF_vars(IoThread)

-----------------------------------------------------------------------------
(* What must hold. *)

\* Until a byte is lost, every frame decoded is one the peer sent, in order
\* and once each, and the bytes of the others are in the buffer and the socket.
StreamIntact ==
    lost = {} /\ peer # "reset" =>
        LET n == Len(decoded)
        IN  /\ \A i \in 1..n : decoded[i] = Frame(i)
            /\ Content(buf) \o socket
                 = [i \in 1..(sent - FrameLen * n) |-> FrameLen * n + i]

\* Where a frame is that is all there.
WholeFrames(b) ==
    {i \in (b.r + 1)..b.w : /\ Value(b.cells[i]) = PB_START
                            /\ Length(b, i, NoByte) = FrameLen
                            /\ i + FrameLen - 1 <= b.w
                            /\ Value(b.cells[i + FrameLen - 1]) = PB_END}

\* No complete frame waits in the buffer when the loop goes back to epoll_wait:
\* nothing would bring onRead back to it.
NoFrameWaits == pc = "idle" => WholeFrames(buf) = {}

\* What is buffered begins with a frame whose length has not arrived entirely,
\* and a frame that has been taken still lies in front of it.
CutBehindFrame(b) == b.r > 0 /\ ReadAble(b) \in 2..LenBytes

\* A round of decode's loop leaves fewer bytes, so that the loop ends and finds
\* no frame a second time; unless bytes have been lost, or in the one case in
\* which it goes round for ever, with the end byte of the frame in front of the
\* cut one taken for the end of that one.
DecodeConsumes ==
    [][Decode => \/ ReadAble(buf') < ReadAble(buf)
                 \/ lost # {}
                 \/ CutBehindFrame(buf) /\ pc' = "spins" /\ decoded' = decoded]_vars


\* tcp_connection.cc:71 (and src/README.md:1216): a buffer without room is
\* doubled, so no byte that read() returned is dropped.  moveWriteIndex refuses
\* a read that fills the buffer exactly; the next one writes over its bytes.
BytesKept == lost = {}
=============================================================================
