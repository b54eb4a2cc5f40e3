-------------------------- MODULE TcpConnectionProofs --------------------------
(***************************************************************************)
(* The two sides of a TcpConnection.  Whatever the size of the in buffer,  *)
(* the length of the frames and the peer, every frame decoded leaves the   *)
(* buffer, is the one that was sent, and none is left behind.  Of the      *)
(* messages to send none is stranded, and they go out in order.            *)
(*                                                                         *)
(* The two specifications share no name, so that one module extends both.  *)
(***************************************************************************)
EXTENDS TcpConnectionRead, TcpConnectionWrite, TcpBufferProofs

\* moveWriteIndex refuses a read that fills the buffer, so that it never is
\* full and keeps its first size.
NeverFull == Size(buf) = BufferSize /\ buf.w < BufferSize

\* adjustBuffer has been at work after every move of an index.
Adjusted(b) == b.r = 0 \/ b.r < Size(b) \div 3

\* The part of the state the buffer's steps keep.
BufferInv == buf \in Buffer /\ NeverFull /\ Adjusted(buf) /\ socket \in Seq(Byte)

LEMMA BufferFacts ==
    ASSUME BufferInv
    PROVE  /\ Size(buf) = BufferSize /\ BufferSize \in Nat
           /\ buf.r \in Nat /\ buf.w \in Nat /\ buf.r <= buf.w /\ buf.w < BufferSize
           /\ WriteAble(buf) \in Nat \ {0}
           /\ Room(buf) = buf
  <1>1. /\ Size(buf) = BufferSize /\ BufferSize \in Nat
        /\ buf.r \in Nat /\ buf.w \in Nat /\ buf.r <= buf.w /\ buf.w < BufferSize
    BY ReadAssumption, Fields DEF BufferInv, NeverFull
  <1>2. WriteAble(buf) \in Nat \ {0}
    BY <1>1 DEF WriteAble
  <1>3. Room(buf) = buf
    BY <1>2 DEF Room
  <1> QED BY <1>1, <1>2, <1>3

(* What one round of onRead's loop reads fits in the buffer. *)
LEMMA ReadFits ==
    ASSUME BufferInv, NEW n, n = Least(WriteAble(buf), Len(socket))
    PROVE  LET s == SubSeq(socket, 1, n)
           IN  /\ n \in Nat /\ n <= WriteAble(buf) /\ n <= Len(socket)
               /\ s \in Seq(Byte) /\ Len(s) = n
               /\ SubSeq(socket, n + 1, Len(socket)) \in Seq(Byte)
  <1>1. socket \in Seq(Byte) /\ Len(socket) \in Nat
    BY DEF BufferInv
  <1>2. n \in Nat /\ n <= WriteAble(buf) /\ n <= Len(socket)
    BY <1>1, BufferFacts DEF Least
  <1>3. \A i \in 1..n : socket[i] \in Byte
    BY <1>1, <1>2
  <1>4. \A i \in (n + 1)..Len(socket) : socket[i] \in Byte
    BY <1>1, <1>2
  <1>5. SubSeq(socket, 1, n) \in Seq(Byte) /\ Len(SubSeq(socket, 1, n)) = n
    BY <1>2, <1>3, SubSeqProperties
  <1>6. SubSeq(socket, n + 1, Len(socket)) \in Seq(Byte)
    BY <1>1, <1>2, <1>4, SubSeqProperties
  <1> QED BY <1>2, <1>5, <1>6

(* What a length can be, and so what decode can find. *)
LEMMA Lengths ==
    ASSUME NEW b, Size(b) \in Nat, NEW i, NEW o
    PROVE  /\ Length(b, i, o) \in {0, PB_START, PB_END, FrameLen, Size(b) + 1}
           /\ Length(b, i, o) \in Nat
  <1>1. \A c : Value(c) \in {0, PB_START, PB_END, FrameLen}
    BY DEF Value
  <1>2. Length(b, i, o) \in {0, PB_START, PB_END, FrameLen, Size(b) + 1}
    BY <1>1 DEF Length
  <1> QED BY <1>2, ReadAssumption DEF PB_START, PB_END

(* A frame that decode finds lies between the two indices. *)
LEMMA FrameFits ==
    ASSUME BufferInv, NEW o, NEW i \in FrameStarts(buf, o),
           NEW n, n = Length(buf, i, o)
    PROVE  /\ n \in Nat /\ n <= ReadAble(buf)
           /\ ~ MoveReadRefused(buf, n)
           /\ n > 0 => SubSeq(buf.cells, i, i + n - 1) \in Seq(Byte)
  <1>1. n \in Nat
    BY Lengths, BufferFacts
  <1>2. /\ i \in (buf.r + 1)..(buf.w - 1) /\ i \in Int
        /\ i + n - 1 \in 1..buf.w
    BY BufferFacts DEF FrameStarts
  <1>3. n <= ReadAble(buf)
    BY <1>1, <1>2, BufferFacts DEF ReadAble
  <1>4. ~ MoveReadRefused(buf, n)
    BY <1>1, <1>2, BufferFacts DEF MoveReadRefused
  <1>5. \A k \in i..(i + n - 1) : buf.cells[k] \in Byte
    <2> TAKE k \in i..(i + n - 1)
    <2>1. k - buf.r \in 1..ReadAble(buf) /\ buf.r + (k - buf.r) = k
      BY <1>1, <1>2, BufferFacts DEF ReadAble
    <2>2. buf.cells[k] = Content(buf)[k - buf.r]
      BY <2>1, Fields DEF BufferInv
    <2>3. Content(buf) \in Seq(Byte) /\ k - buf.r \in 1..Len(Content(buf))
      BY <2>1, Fields DEF BufferInv
    <2> QED BY <2>2, <2>3, ElementOfSeq
  <1>6. i \in Int /\ i + n - 1 \in Int
    BY <1>1, <1>2
  <1> DEFINE j == i + n - 1
  <1>7. SubSeq(buf.cells, i, j) \in Seq(Byte)
    <2>1. \A k \in i..j : buf.cells[k] \in Byte
      BY <1>5
    <2>2. i \in Int /\ j \in Int
      BY <1>6
    <2> HIDE DEF j
    <2> QED BY <2>1, <2>2, SubSeqProperties
  <1> QED BY <1>1, <1>3, <1>4, <1>7

(* Moving the read index leaves so many bytes fewer. *)
LEMMA MoveShrinks ==
    ASSUME NEW b \in Buffer, NEW n \in Nat, n <= ReadAble(b), ~ MoveReadRefused(b, n)
    PROVE  ReadAble(MoveReadIndex(b, n)) = ReadAble(b) - n
  <1> DEFINE s == SubSeq(Content(b), 1, n)
             c == Content(MoveReadIndex(b, n))
             d == Content(b)
  <1>1. MoveReadIndex(b, n) \in Buffer /\ s \o c = d
    BY MoveReadTakes
  <1>2. d \in Seq(Byte) /\ Len(d) = ReadAble(b) /\ ReadAble(b) \in Nat
    BY Fields
  <1>3. /\ c \in Seq(Byte) /\ Len(c) = ReadAble(MoveReadIndex(b, n))
        /\ ReadAble(MoveReadIndex(b, n)) \in Nat
    BY <1>1, Fields
  <1>4. s \in Seq(Byte) /\ Len(s) = n
    <2>1. \A k \in 1..n : d[k] \in Byte
      BY <1>2, ElementOfSeq
    <2> HIDE DEF d
    <2>2. SubSeq(d, 1, n) \in Seq(Byte) /\ Len(SubSeq(d, 1, n)) = n
      BY <2>1, SubSeqProperties
    <2> QED BY <2>2 DEF d
  <1> HIDE DEF s, c, d
  <1>5. Len(d) = Len(s) + Len(c)
    BY <1>1, <1>3, <1>4, ConcatProperties
  <1> QED BY <1>2, <1>3, <1>4, <1>5

LEMMA AdjustedMoves ==
    ASSUME NEW b, NEW n
    PROVE  /\ Adjusted(b) => Adjusted(MoveReadIndex(b, n))
           /\ Adjusted(b) => Adjusted(MoveWriteIndex(b, n))
  <1>1. \A c : Adjusted(AdjustBuffer(c))
    BY DEF Adjusted, AdjustBuffer, ResizeBuffer
  <1> QED BY <1>1 DEF MoveReadIndex, MoveWriteIndex

LEMMA DecodeKeeps ==
    ASSUME BufferInv, Decode
    PROVE  /\ buf' \in Buffer /\ NeverFull' /\ Adjusted(buf') /\ socket' = socket
  <1>1. PICK o : \E i \in FrameStarts(buf, o) : buf' = MoveReadIndex(buf, Length(buf, i, o))
    BY DEF Decode
  <1>2. PICK i \in FrameStarts(buf, o) : buf' = MoveReadIndex(buf, Length(buf, i, o))
    BY <1>1
  <1>3. PICK n : n = Length(buf, i, o)
    OBVIOUS
  <1>4. n \in Nat /\ n <= ReadAble(buf) /\ ~ MoveReadRefused(buf, n)
    BY <1>3, FrameFits
  <1>5. buf' \in Buffer /\ Size(buf') = Size(buf) /\ buf'.w <= buf.w
    BY <1>2, <1>3, <1>4, MoveReadTakes DEF BufferInv
  <1>6. NeverFull'
    <2>1. buf'.w \in Nat
      BY <1>5, Fields
    <2> QED BY <1>5, <2>1, BufferFacts DEF NeverFull
  <1>7. Adjusted(buf')
    BY <1>2, AdjustedMoves DEF BufferInv
  <1> QED BY <1>5, <1>6, <1>7 DEF Decode

LEMMA BufferStep ==
    ASSUME TypeOK, BufferInv, [Next]_vars
    PROVE  buf' \in Buffer /\ NeverFull' /\ Adjusted(buf') /\ socket' \in Seq(Byte)
  <1>1. CASE ReadBytes
    <2> DEFINE n == Least(WriteAble(buf), Len(socket))
               s == SubSeq(socket, 1, n)
    <2>1. Room(buf) = buf
      BY BufferFacts
    <2>2. buf' = MoveWriteIndex(Store(buf, s), n) /\ socket' = SubSeq(socket, n + 1, Len(socket))
      BY <1>1, <2>1 DEF ReadBytes
    <2>3. /\ s \in Seq(Byte) /\ Len(s) = n /\ n <= WriteAble(buf)
          /\ SubSeq(socket, n + 1, Len(socket)) \in Seq(Byte)
      BY ReadFits
    <2> HIDE DEF s, n
    <2>4. buf' \in Buffer /\ Size(buf') = Size(buf) /\ buf'.w < Size(buf)
      BY <2>2, <2>3, FillAppends, BufferFacts DEF BufferInv
    <2>5. Adjusted(buf')
      <3>1. Size(Store(buf, s)) = Size(buf) /\ Store(buf, s).r = buf.r
        BY <2>3, StoreKeeps DEF BufferInv
      <3>2. Adjusted(Store(buf, s))
        BY <3>1 DEF BufferInv, Adjusted
      <3> QED BY <2>2, <3>2, AdjustedMoves
    <2> QED BY <2>2, <2>3, <2>4, <2>5 DEF BufferInv, NeverFull
  <1>2. CASE Decode
    BY <1>2, DecodeKeeps DEF BufferInv
  <1>3. CASE ReadNothing \/ ReadEnd
    BY <1>3, BufferFacts DEF BufferInv, NeverFull, ReadNothing, ReadEnd
  <1>4. ASSUME NEW n \in 1..MaxBytes, PeerSends(n)
        PROVE  buf' \in Buffer /\ NeverFull' /\ Adjusted(buf') /\ socket' \in Seq(Byte)
    <2> DEFINE s == [i \in 1..n |-> sent + i]
    <2>1. s \in Seq(Byte)
      <3>1. n \in Nat /\ sent \in Nat /\ sent + n <= MaxBytes /\ MaxBytes \in Nat
        BY <1>4, ReadAssumption DEF TypeOK, PeerSends, MaxBytes
      <3>2. \A i \in 1..n : sent + i \in 1..MaxBytes
        BY <3>1
      <3> QED BY <3>1, <3>2, ReadAssumption, IsASeq
    <2>2. socket' = socket \o s /\ buf' = buf
      BY <1>4 DEF PeerSends
    <2> HIDE DEF s
    <2> QED BY <2>1, <2>2, ConcatProperties DEF BufferInv, NeverFull
  <1>5. CASE PeerResets
    BY <1>5 DEF PeerResets, BufferInv, NeverFull
  <1>6. CASE SetState \/ Report \/ OnRead \/ DecodeEnd \/ PeerCloses \/ UNCHANGED vars
    BY <1>6 DEF SetState, Report, OnRead, DecodeEnd, PeerCloses, vars, BufferInv, NeverFull
  <1> QED BY <1>1, <1>2, <1>3, <1>4, <1>5, <1>6 DEF Next, IoThread, Peer

(* The rest of the types. *)
LEMMA TypeStep ==
    ASSUME TypeOK, BufferInv, [Next]_vars
    PROVE  TypeOK'
  <1>0. buf' \in Buffer /\ socket' \in Seq(Byte)
    BY BufferStep
  <1>1. CASE ReadBytes
    <2> DEFINE n == Least(WriteAble(buf), Len(socket))
               s == SubSeq(socket, 1, n)
    <2>1. lost' \in {lost, lost \cup {s[i] : i \in 1..n}}
      BY <1>1, BufferFacts DEF ReadBytes
    <2>2. s \in Seq(Byte) /\ Len(s) = n
      BY ReadFits
    <2>3. pc' \in {"read", "decode"}
      BY <1>1 DEF ReadBytes
    <2> HIDE DEF s, n
    <2>4. \A i \in 1..n : s[i] \in Byte
      BY <2>2, ElementOfSeq
    <2>5. lost' \subseteq Byte
      BY <2>1, <2>4 DEF TypeOK
    <2>6. UNCHANGED <<state, listening, deaf, decoded, sent, peer>>
      BY <1>1 DEF ReadBytes
    <2> QED BY <1>0, <2>3, <2>5, <2>6 DEF TypeOK
  <1>2. CASE Decode
    <2>1. PICK o : \E i \in FrameStarts(buf, o) :
            LET n == Length(buf, i, o)
            IN  /\ decoded' = IF n <= LenBytes + 2 THEN decoded
                              ELSE Append(decoded, SubSeq(buf.cells, i, i + n - 1))
                /\ pc' = IF n = 0 /\ buf' = buf THEN "spins" ELSE "decode"
      BY <1>2 DEF Decode
    <2>2. PICK i \in FrameStarts(buf, o), n \in Nat :
            /\ n = Length(buf, i, o)
            /\ decoded' = IF n <= LenBytes + 2 THEN decoded
                          ELSE Append(decoded, SubSeq(buf.cells, i, i + n - 1))
            /\ pc' = IF n = 0 /\ buf' = buf THEN "spins" ELSE "decode"
      BY <2>1, Lengths, BufferFacts
    <2> DEFINE f == SubSeq(buf.cells, i, i + n - 1)
    <2>3. n \in Nat /\ (n > 0 => f \in Seq(Byte))
      BY <2>2, FrameFits
    <2>4. decoded' \in {decoded, Append(decoded, f)} /\ (decoded' # decoded => n > 0)
      BY <2>2, <2>3, ReadAssumption
    <2> HIDE DEF f
    <2>5. decoded' \in Seq(Seq(Byte))
      <3>1. decoded \in Seq(Seq(Byte))
        BY DEF TypeOK
      <3>2. f \in Seq(Byte) => Append(decoded, f) \in Seq(Seq(Byte))
        BY <3>1, AppendProperties
      <3> QED BY <2>3, <2>4, <3>1, <3>2
    <2>6. pc' \in {"spins", "decode"} /\ UNCHANGED <<state, listening, deaf, sent, peer, lost>>
      BY <1>2, <2>2 DEF Decode
    <2> QED BY <1>0, <2>5, <2>6 DEF TypeOK
  <1>3. CASE ReadNothing \/ ReadEnd
    BY <1>0, <1>3 DEF ReadNothing, ReadEnd, TypeOK
  <1>4. ASSUME NEW n \in 1..MaxBytes, PeerSends(n) PROVE TypeOK'
    <2>1. sent' \in 0..MaxBytes
      BY <1>4, ReadAssumption DEF PeerSends, TypeOK, MaxBytes
    <2> QED BY <1>0, <1>4, <2>1 DEF PeerSends, TypeOK
  <1>5. CASE SetState \/ Report \/ OnRead \/ DecodeEnd \/ PeerCloses \/ PeerResets \/ UNCHANGED vars
    BY <1>0, <1>5 DEF SetState, Report, OnRead, DecodeEnd, PeerCloses, PeerResets, vars, TypeOK
  <1> QED BY <1>1, <1>2, <1>3, <1>4, <1>5 DEF Next, IoThread, Peer

LEMMA Inductive == Spec => [](TypeOK /\ BufferInv)
  <1>1. Init => TypeOK /\ BufferInv
    <2> SUFFICES ASSUME Init PROVE TypeOK /\ BufferInv
      OBVIOUS
    <2> USE ReadAssumption
    <2>1. buf \in Buffer /\ NeverFull /\ Adjusted(buf)
      <3>1. buf = NewBuffer(BufferSize)
        BY DEF Init
      <3>2. NewBuffer(BufferSize) \in Buffer /\ Size(NewBuffer(BufferSize)) = BufferSize
        BY NewBufferEmpty
      <3>3. buf.w = 0 /\ buf.r = 0
        BY <3>1 DEF NewBuffer
      <3> QED BY <3>1, <3>2, <3>3 DEF NeverFull, Adjusted
    <2>2. << >> \in Seq(Byte) /\ << >> \in Seq(Seq(Byte)) /\ 0 \in 0..MaxBytes
      BY DEF MaxBytes
    <2> QED BY <2>1, <2>2 DEF Init, TypeOK, BufferInv
  <1>2. TypeOK /\ BufferInv /\ [Next]_vars => TypeOK' /\ BufferInv'
    BY BufferStep, TypeStep DEF BufferInv
  <1> QED BY <1>1, <1>2, PTL DEF Spec

-----------------------------------------------------------------------------

(* Type correctness of the receiving side. *)
THEOREM Typing == Spec => []TypeOK
  BY Inductive, PTL

-----------------------------------------------------------------------------
(* What is decoded. *)

\* The bytes from `from` + 1 to `to`.
Run(from, to) == [i \in 1..(to - from) |-> from + i]

\* Frames are cut out whole, from the front of what the peer has sent.
StreamInv ==
    lost = {} =>
      /\ \A i \in 1..Len(decoded) : decoded[i] = Frame(i)
      /\ \E b \in Nat :
           /\ FrameLen * Len(decoded) <= b /\ b <= sent
           /\ peer # "reset" => b = sent
           /\ Content(buf) \o socket = Run(FrameLen * Len(decoded), b)

\* Only decode's loop leaves a frame for its next round: a read after which
\* onRead reads again was refused by moveWriteIndex and has added nothing.
FramesInv == pc \in {"idle", "queued", "read"} => WholeFrames(buf) = {}

(* The bytes of a run, and what is left of it when its first ones are taken. *)
LEMMA RunBytes ==
    ASSUME NEW a \in Nat, NEW b \in Nat, a <= b
    PROVE  /\ Run(a, b) \in Seq(Nat) /\ Len(Run(a, b)) = b - a
           /\ \A i \in 1..(b - a) : Run(a, b)[i] = a + i
  <1> DEFINE n == b - a
             s == [i \in 1..n |-> a + i]
  <1>1. n \in Nat /\ \A i \in 1..n : a + i \in Nat
    OBVIOUS
  <1>2. Run(a, b) = s
    BY DEF Run
  <1> HIDE DEF n
  <1>3. s \in Seq(Nat) /\ Len(s) = n
    BY <1>1
  <1> QED BY <1>2, <1>3 DEF n

LEMMA RunGrows ==
    ASSUME NEW a \in Nat, NEW b \in Nat, a <= b, NEW n \in Nat,
           NEW s \in Seq(Nat), Len(s) = n, \A i \in 1..n : s[i] = b + i
    PROVE  Run(a, b) \o s = Run(a, b + n)
  <1>1. s \in Seq(Nat) /\ Len(s) = n /\ \A i \in 1..n : s[i] = b + i
    OBVIOUS
  <1>2. /\ Run(a, b) \in Seq(Nat) /\ Len(Run(a, b)) = b - a
        /\ \A i \in 1..(b - a) : Run(a, b)[i] = a + i
    BY RunBytes
  <1>3. /\ Run(a, b + n) \in Seq(Nat) /\ Len(Run(a, b + n)) = (b + n) - a
        /\ \A i \in 1..((b + n) - a) : Run(a, b + n)[i] = a + i
    <2>1. PICK c \in Nat : c = b + n /\ a <= c
      OBVIOUS
    <2> QED BY <2>1, RunBytes
  <1> DEFINE x == Run(a, b)
             y == Run(a, b + n)
  <1> HIDE DEF x, y
  <1>4. /\ x \o s \in Seq(Nat) /\ Len(x \o s) = Len(x) + Len(s)
        /\ \A i \in 1..(Len(x) + Len(s)) : (x \o s)[i] = IF i <= Len(x) THEN x[i] ELSE s[i - Len(x)]
    BY <1>1, <1>2, ConcatProperties DEF x
  <1>5. Len(x \o s) = Len(y)
    BY <1>1, <1>2, <1>3, <1>4 DEF x, y
  <1>6. \A i \in 1..Len(y) : (x \o s)[i] = y[i]
    <2> SUFFICES ASSUME NEW i \in 1..((b + n) - a) PROVE (x \o s)[i] = a + i
      BY <1>3 DEF y
    <2>1. Len(x) = b - a /\ i \in 1..(Len(x) + Len(s))
      BY <1>1, <1>2 DEF x
    <2>2. CASE i <= b - a
      BY <1>2, <1>4, <2>1, <2>2 DEF x
    <2>3. CASE ~ (i <= b - a)
      <3>1. i - (b - a) \in 1..n /\ b + (i - (b - a)) = a + i
        BY <2>3
      <3> QED BY <1>1, <1>4, <2>1, <2>3, <3>1
    <2> QED BY <2>2, <2>3
  <1>7. x \o s = y
    BY <1>3, <1>4, <1>5, <1>6, SeqEqual DEF y
  <1> QED BY <1>7 DEF x, y

LEMMA RunSplits ==
    ASSUME NEW a \in Nat, NEW b \in Nat, a <= b, NEW x \in Seq(Nat), NEW y \in Seq(Nat),
           x \o y = Run(a, b)
    PROVE  /\ a + Len(x) <= b
           /\ \A i \in 1..Len(x) : x[i] = a + i
           /\ y = Run(a + Len(x), b)
  <1>1. /\ Run(a, b) \in Seq(Nat) /\ Len(Run(a, b)) = b - a
        /\ \A i \in 1..(b - a) : Run(a, b)[i] = a + i
    BY RunBytes
  <1>2. PICK k \in Nat, l \in Nat : k = Len(x) /\ l = Len(y)
    BY LenProperties
  <1>3. k + l = b - a
    BY <1>1, <1>2, ConcatProperties
  <1>4. \A i \in 1..(k + l) : (IF i <= k THEN x[i] ELSE y[i - k]) = a + i
    BY <1>1, <1>2, <1>3, ConcatProperties
  <1>5. \A i \in 1..k : x[i] = a + i
    BY <1>4
  <1>6. \A i \in 1..l : y[i] = (a + k) + i
    <2> TAKE i \in 1..l
    <2>1. i + k \in 1..(k + l) /\ ~ (i + k <= k) /\ (i + k) - k = i /\ a + (i + k) = (a + k) + i
      OBVIOUS
    <2>2. (IF i + k <= k THEN x[i + k] ELSE y[(i + k) - k]) = a + (i + k)
      BY <1>4, <2>1
    <2> QED BY <2>1, <2>2
  <1>7. a + k \in Nat /\ a + k <= b /\ b - (a + k) = l
    BY <1>3
  <1>8. /\ Run(a + k, b) \in Seq(Nat) /\ Len(Run(a + k, b)) = l
        /\ \A i \in 1..l : Run(a + k, b)[i] = (a + k) + i
    BY <1>7, RunBytes
  <1>9. y = Run(a + k, b)
    BY <1>2, <1>6, <1>8, SeqEqual
  <1> QED BY <1>2, <1>5, <1>7, <1>9

(* The places of the bytes of a frame. *)
LEMMA Places ==
    ASSUME NEW n \in Nat, NEW x \in 1..FrameLen
    PROVE  (FrameLen * n + x) % FrameLen = IF x = FrameLen THEN 0 ELSE x
  <1> DEFINE k == FrameLen
             m == FrameLen * n
             p == IF x = FrameLen THEN 0 ELSE x
             q == (m + x) \div k
             r == (m + x) % k
  <1>1. k \in Nat \ {0} /\ m \in Nat /\ x \in 1..k /\ p \in 0..(k - 1)
    BY ReadAssumption
  <1>2. m + x \in Nat
    BY <1>1
  <1>3. q \in Int /\ r \in 0..(k - 1) /\ m + x = k * q + r
    <2> HIDE DEF k, m
    <2> QED BY <1>1, <1>2
  <1>4. \E d \in {0, 1} : m + x = k * (n + d) + p
    <2>1. k * (n + 1) = m + k
      BY <1>1
    <2>2. k * (n + 0) = m
      BY <1>1
    <2> QED BY <1>1, <2>1, <2>2
  <1>5. PICK e \in Int : m + x = k * e + p
    BY <1>4
  <1> HIDE DEF k, m, p, q, r
  <1>6. k * (e - q) = r - p
    BY <1>1, <1>3, <1>5
  <1>7. e - q >= 1 => k * (e - q) >= k
    BY <1>1, <1>3
  <1>8. e - q <= -1 => k * (e - q) <= - k
    BY <1>1, <1>3
  <1>9. r = p
    BY <1>1, <1>3, <1>6, <1>7, <1>8
  <1> QED BY <1>9 DEF k, m, p, r

(* What the bytes of a frame are. *)
LEMMA Values ==
    ASSUME NEW n \in Nat, NEW x \in 1..FrameLen, FrameLen * n + x \in Byte
    PROVE  Value(FrameLen * n + x) = IF x = 1 THEN PB_START
                                     ELSE IF x = FrameLen THEN PB_END
                                     ELSE IF x = LenBytes + 1 THEN FrameLen
                                     ELSE 0
  <1>1. PICK c : c = FrameLen * n + x
    OBVIOUS
  <1>2. c # NoByte
    BY <1>1, ReadAssumption
  <1>3. c % FrameLen = IF x = FrameLen THEN 0 ELSE x
    BY <1>1, Places
  <1>4. LenBytes \in Nat \ {0} /\ FrameLen \in Nat /\ FrameLen > LenBytes + 2
    BY ReadAssumption
  <1>5. Value(c) = IF x = 1 THEN PB_START
                   ELSE IF x = FrameLen THEN PB_END
                   ELSE IF x = LenBytes + 1 THEN FrameLen
                   ELSE 0
    BY <1>2, <1>3, <1>4 DEF Value
  <1> QED BY <1>1, <1>5

(* What was read and refused is not looked at: it completes no frame. *)
LEMMA WholeKept ==
    ASSUME NEW b \in Buffer, NEW s
    PROVE  WholeFrames(Store(b, s)) = WholeFrames(b)
  <1> DEFINE c == Store(b, s)
  <1>1. /\ c.r = b.r /\ c.w = b.w /\ Size(c) = Size(b)
        /\ \A i \in 1..b.w : c.cells[i] = b.cells[i]
    <2>1. Size(b) \in Nat /\ b.w \in Nat /\ b.w <= Size(b)
      BY Fields
    <2>2. /\ c.r = b.r /\ c.w = b.w
          /\ c.cells = [i \in 1..Size(b) |->
                          IF i \in (b.w + 1)..(b.w + Len(s)) THEN s[i - b.w] ELSE b.cells[i]]
      BY DEF Store
    <2>3. Size(c) = Size(b)
      BY <2>1, <2>2 DEF Size
    <2> HIDE DEF c
    <2>4. \A i \in 1..b.w : i \in 1..Size(b) /\ i \notin (b.w + 1)..(b.w + Len(s))
      BY <2>1
    <2> QED BY <2>2, <2>3, <2>4
  <1> HIDE DEF c
  <1>2. /\ b.r \in Nat /\ b.w \in Nat /\ Size(b) \in Nat /\ b.w <= Size(b)
        /\ LenBytes \in Nat \ {0} /\ FrameLen \in Nat /\ FrameLen > LenBytes + 2
    BY Fields, ReadAssumption
  <1>3. \A i \in (b.r + 1)..b.w :
          i + FrameLen - 1 <= b.w =>
            /\ c.cells[i] = b.cells[i] /\ c.cells[i + FrameLen - 1] = b.cells[i + FrameLen - 1]
            /\ Length(c, i, NoByte) = Length(b, i, NoByte)
    <2> SUFFICES ASSUME NEW i \in (b.r + 1)..b.w, i + FrameLen - 1 <= b.w
                 PROVE  /\ c.cells[i] = b.cells[i]
                        /\ c.cells[i + FrameLen - 1] = b.cells[i + FrameLen - 1]
                        /\ Length(c, i, NoByte) = Length(b, i, NoByte)
      OBVIOUS
    <2>1. i \in 1..b.w /\ i + FrameLen - 1 \in 1..b.w
      BY <1>2
    <2>2. \A k \in 1..LenBytes : i + k \in 1..b.w
      BY <1>2
    <2>3. \A k \in 1..LenBytes : c.cells[i + k] = b.cells[i + k]
      BY <1>1, <2>2
    <2>4. LenBytes \in 1..LenBytes /\ \A k \in 1..(LenBytes - 1) : k \in 1..LenBytes
      BY <1>2
    <2>5. Length(c, i, NoByte) = Length(b, i, NoByte)
      BY <1>1, <2>3, <2>4 DEF Length
    <2> QED BY <1>1, <2>1, <2>5
  <1> QED BY <1>1, <1>3 DEF WholeFrames, c

(* decode finds every frame that is all there, whatever lies behind the vector. *)
LEMMA WholeFound ==
    ASSUME BufferInv, NEW o
    PROVE  WholeFrames(buf) \subseteq FrameStarts(buf, o)
  <1> SUFFICES ASSUME NEW i \in WholeFrames(buf) PROVE i \in FrameStarts(buf, o)
    OBVIOUS
  <1>1. /\ LenBytes \in Nat \ {0} /\ FrameLen \in Nat /\ FrameLen > LenBytes + 2
        /\ buf.r \in Nat /\ buf.w \in Nat /\ Size(buf) \in Nat /\ buf.w <= Size(buf)
    BY ReadAssumption, BufferFacts
  <1>2. /\ i \in (buf.r + 1)..buf.w /\ i + FrameLen - 1 <= buf.w
        /\ Value(buf.cells[i]) = PB_START /\ Value(buf.cells[i + FrameLen - 1]) = PB_END
        /\ Length(buf, i, NoByte) = FrameLen
    BY DEF WholeFrames
  <1>3. LenBytes \in 1..LenBytes /\ \A k \in 1..(LenBytes - 1) : k \in 1..LenBytes
    BY <1>1
  <1>4. \A k \in 1..LenBytes : i + k <= Size(buf)
    BY <1>1, <1>2
  <1>5. Length(buf, i, o) = Length(buf, i, NoByte)
    BY <1>3, <1>4 DEF Length
  <1>6. i \in (buf.r + 1)..(buf.w - 1) /\ i + FrameLen - 1 \in 1..buf.w
    BY <1>1, <1>2
  <1> QED BY <1>2, <1>5, <1>6 DEF FrameStarts

LEMMA FramesStep ==
    ASSUME TypeOK, BufferInv, FramesInv, [Next]_vars
    PROVE  FramesInv'
  <1>1. CASE ReadBytes
    <2> SUFFICES ASSUME pc' # "decode" PROVE WholeFrames(buf') = {}
      BY DEF FramesInv, WholeFrames, Length, Size
    <2>1. PICK n : n = Least(WriteAble(buf), Len(socket))
      OBVIOUS
    <2>2. PICK s : s = SubSeq(socket, 1, n)
      OBVIOUS
    <2>3. Room(buf) = buf /\ WriteAble(buf) \in Nat
      BY BufferFacts
    <2>4. /\ buf' = MoveWriteIndex(Store(buf, s), n) /\ pc = "read"
          /\ n = WriteAble(buf)
      BY <1>1, <2>1, <2>2, <2>3 DEF ReadBytes
    <2>5. MoveWriteRefused(Store(buf, s), n)
      <3>1. Store(buf, s).w = buf.w /\ Size(Store(buf, s)) = Size(buf)
        <4>1. s \in Seq(Byte) /\ Len(s) <= WriteAble(buf)
          <5>1. s \in Seq(Byte) /\ Len(s) = n /\ n \in Nat
            BY <2>1, <2>2, ReadFits
          <5> QED BY <2>4, <5>1
        <4> QED BY <4>1, StoreKeeps DEF BufferInv
      <3>2. buf.w \in Nat /\ Size(buf) \in Nat /\ buf.w + (Size(buf) - buf.w) >= Size(buf)
        BY BufferFacts
      <3> QED BY <2>4, <3>1, <3>2 DEF MoveWriteRefused, WriteAble
    <2>6. buf' = Store(buf, s)
      BY <2>4, <2>5 DEF MoveWriteIndex
    <2>7. WholeFrames(Store(buf, s)) = {}
      BY <2>4, WholeKept DEF BufferInv, FramesInv
    <2> QED BY <2>6, <2>7
  <1>2. CASE ReadNothing \/ Decode
    <2>1. pc' \in {"decode", "spins"}
      BY <1>2 DEF ReadNothing, Decode
    <2> QED BY <2>1 DEF FramesInv
  <1>3. CASE ReadEnd
    <2>1. buf' = buf /\ pc = "read"
      BY <1>3, BufferFacts DEF ReadEnd
    <2> QED BY <2>1 DEF FramesInv, WholeFrames, Length, Size
  <1>4. CASE DecodeEnd
    <2>1. PICK o : FrameStarts(buf, o) = {}
      BY <1>4 DEF DecodeEnd
    <2>2. WholeFrames(buf) = {}
      BY <2>1, WholeFound
    <2> QED BY <1>4, <2>2 DEF DecodeEnd, FramesInv, WholeFrames, Length, Size
  <1>5. CASE Report \/ OnRead
    <2>1. buf' = buf /\ pc \in {"idle", "queued"}
      BY <1>5 DEF Report, OnRead
    <2> QED BY <2>1 DEF FramesInv, WholeFrames, Length, Size
  <1>6. CASE SetState \/ PeerCloses \/ PeerResets \/ UNCHANGED vars
    BY <1>6 DEF SetState, PeerCloses, PeerResets, vars, FramesInv, WholeFrames, Length, Size
  <1>7. ASSUME NEW n \in 1..MaxBytes, PeerSends(n) PROVE FramesInv'
    BY <1>7 DEF PeerSends, FramesInv, WholeFrames, Length, Size
  <1> QED BY <1>1, <1>2, <1>3, <1>4, <1>5, <1>6, <1>7 DEF Next, IoThread, Peer

(* What decode finds first begins with the oldest byte: the frame that was sent
   next, or the start of one whose length is cut. *)
LEMMA FirstFrame ==
    ASSUME BufferInv, NEW n \in Nat, NEW m \in Nat, m = FrameLen * n,
           \A j \in 1..ReadAble(buf) : Content(buf)[j] = m + j,
           NEW o, NEW i \in FrameStarts(buf, o), \A j \in FrameStarts(buf, o) : i <= j
    PROVE  \/ /\ Length(buf, i, o) = FrameLen
              /\ SubSeq(buf.cells, i, i + FrameLen - 1) = Frame(n + 1)
           \/ /\ Length(buf, i, o) = 0
              /\ CutBehindFrame(buf)
  <1>1. /\ LenBytes \in Nat \ {0} /\ FrameLen \in Nat /\ FrameLen > LenBytes + 2
        /\ buf.r \in Nat /\ buf.w \in Nat /\ buf.w < Size(buf) /\ Size(buf) \in Nat
        /\ ReadAble(buf) \in Nat /\ ReadAble(buf) = buf.w - buf.r
    BY ReadAssumption, BufferFacts DEF ReadAble
  <1>2. \A j \in 1..ReadAble(buf) : buf.cells[buf.r + j] = m + j /\ m + j \in Byte
    <2> TAKE j \in 1..ReadAble(buf)
    <2>1. Content(buf)[j] = buf.cells[buf.r + j] /\ Content(buf)[j] = m + j
      BY DEF Content
    <2>2. Content(buf)[j] \in Byte
      BY Fields, ElementOfSeq DEF BufferInv
    <2> QED BY <2>1, <2>2
  <1>3. \A x \in 1..FrameLen :
          x <= ReadAble(buf) =>
            Value(buf.cells[buf.r + x]) = IF x = 1 THEN PB_START
                                          ELSE IF x = FrameLen THEN PB_END
                                          ELSE IF x = LenBytes + 1 THEN FrameLen
                                          ELSE 0
    <2> SUFFICES ASSUME NEW x \in 1..FrameLen, x <= ReadAble(buf)
                 PROVE  Value(buf.cells[buf.r + x]) = IF x = 1 THEN PB_START
                                                      ELSE IF x = FrameLen THEN PB_END
                                                      ELSE IF x = LenBytes + 1 THEN FrameLen
                                                      ELSE 0
      OBVIOUS
    <2>1. x \in 1..ReadAble(buf)
      BY <1>1
    <2>2. buf.cells[buf.r + x] = m + x /\ FrameLen * n + x \in Byte
      BY <1>2, <2>1
    <2>3. Value(FrameLen * n + x) = IF x = 1 THEN PB_START
                                    ELSE IF x = FrameLen THEN PB_END
                                    ELSE IF x = LenBytes + 1 THEN FrameLen
                                    ELSE 0
      BY <2>2, Values
    <2> QED BY <2>2, <2>3
  <1> DEFINE s == buf.r + 1
  <1>4. ReadAble(buf) > LenBytes => Length(buf, s, o) = FrameLen
    <2> SUFFICES ASSUME ReadAble(buf) > LenBytes PROVE Length(buf, s, o) = FrameLen
      OBVIOUS
    <2>1. \A k \in 1..LenBytes :
            /\ s + k <= Size(buf)
            /\ Value(buf.cells[s + k]) = IF k = LenBytes THEN FrameLen ELSE 0
      <3> TAKE k \in 1..LenBytes
      <3>1. /\ k + 1 \in 1..FrameLen /\ k + 1 <= ReadAble(buf) /\ s + k = buf.r + (k + 1)
            /\ k + 1 # 1 /\ k + 1 # FrameLen /\ (k + 1 = LenBytes + 1 <=> k = LenBytes)
            /\ s + k <= Size(buf)
        BY <1>1
      <3> QED BY <1>3, <3>1
    <2>2. LenBytes \in 1..LenBytes /\ \A k \in 1..(LenBytes - 1) : k \in 1..LenBytes /\ k # LenBytes
      BY <1>1
    <2> HIDE DEF s
    <2>3. \A k \in 1..(LenBytes - 1) :
             Value(IF s + k <= Size(buf) THEN buf.cells[s + k] ELSE o) = 0
      BY <2>1, <2>2
    <2>4. Value(IF s + LenBytes <= Size(buf) THEN buf.cells[s + LenBytes] ELSE o) = FrameLen
      BY <2>1, <2>2
    <2> QED BY <2>3, <2>4 DEF Length
  <1>5. i \in (buf.r + 1)..(buf.w - 1) /\ Value(buf.cells[i]) = PB_START
    BY DEF FrameStarts
  <1>6. ReadAble(buf) >= FrameLen => s \in FrameStarts(buf, o)
    <2> SUFFICES ASSUME ReadAble(buf) >= FrameLen PROVE s \in FrameStarts(buf, o)
      OBVIOUS
    <2>1. Length(buf, s, o) = FrameLen
      BY <1>1, <1>4
    <2>2. /\ s \in (buf.r + 1)..(buf.w - 1)
          /\ s + FrameLen - 1 \in 1..buf.w /\ s + FrameLen - 1 = buf.r + FrameLen
      BY <1>1
    <2>3. Value(buf.cells[buf.r + 1]) = PB_START /\ Value(buf.cells[buf.r + FrameLen]) = PB_END
      BY <1>1, <1>3
    <2> QED BY <2>1, <2>2, <2>3 DEF FrameStarts
  <1>7. i = s
    <2>1. PICK q \in Nat : q = i - buf.r
      BY <1>1, <1>5
    <2>2. q \in 1..ReadAble(buf) /\ i = buf.r + q
      BY <1>1, <1>5, <2>1
    <2>3. CASE q <= FrameLen
      <3>1. Value(buf.cells[buf.r + q]) = IF q = 1 THEN PB_START
                                          ELSE IF q = FrameLen THEN PB_END
                                          ELSE IF q = LenBytes + 1 THEN FrameLen
                                          ELSE 0
        BY <1>1, <1>3, <2>2, <2>3
      <3> QED BY <1>1, <1>5, <2>2, <3>1 DEF PB_START, PB_END
    <2>4. CASE q > FrameLen
      <3>1. s \in FrameStarts(buf, o)
        BY <1>1, <1>6, <2>2, <2>4
      <3>2. i <= s
        BY <3>1
      <3> QED BY <1>1, <2>2, <2>4, <3>2
    <2> QED BY <1>1, <2>1, <2>3, <2>4
  <1>8. PICK l \in {0, PB_START, PB_END, FrameLen, Size(buf) + 1} : l = Length(buf, i, o)
    BY <1>1, Lengths
  <1>9. buf.r + l \in 1..buf.w /\ Value(buf.cells[buf.r + l]) = PB_END
    <2>1. i + l - 1 \in 1..buf.w /\ Value(buf.cells[i + l - 1]) = PB_END
      BY <1>8 DEF FrameStarts
    <2>2. i + l - 1 = buf.r + l
      BY <1>1, <1>7, <1>8 DEF PB_START, PB_END
    <2> QED BY <2>1, <2>2
  <1>10. l # Size(buf) + 1
    BY <1>1, <1>9
  <1>11. l \notin {PB_START, PB_END} \ {FrameLen}
    <2> SUFFICES ASSUME l \in {2, 3} PROVE FALSE
      BY DEF PB_START, PB_END
    <2>1. l \in 1..FrameLen /\ l <= ReadAble(buf) /\ l # 1 /\ l # FrameLen
      BY <1>1, <1>9
    <2>2. Value(buf.cells[buf.r + l]) \in {FrameLen, 0}
      BY <1>3, <2>1
    <2> QED BY <1>1, <1>9, <2>2 DEF PB_END
  <1>12. CASE l = 0
    <2>1. buf.r > 0 /\ ReadAble(buf) >= 2
      BY <1>1, <1>5, <1>9, <1>12
    <2>2. ~ (ReadAble(buf) > LenBytes)
      BY <1>1, <1>4, <1>7, <1>8, <1>12
    <2> QED BY <1>1, <1>8, <1>12, <2>1, <2>2 DEF CutBehindFrame
  <1>13. CASE l = FrameLen
    <2> DEFINE e == i + FrameLen - 1
    <2>1. e = buf.r + FrameLen /\ i \in Int /\ e \in Int /\ FrameLen = e - i + 1 /\ i <= e
      BY <1>1, <1>7
    <2>2. \A j \in i..e : buf.cells[j] = m + (j - buf.r) /\ m + (j - buf.r) \in Nat
      <3> TAKE j \in i..e
      <3>1. j - buf.r \in 1..ReadAble(buf) /\ buf.r + (j - buf.r) = j
        BY <1>1, <1>7, <1>9, <1>13, <2>1
      <3> QED BY <1>2, <3>1
    <2> HIDE DEF e
    <2> DEFINE f == SubSeq(buf.cells, i, e)
    <2>3. /\ f \in Seq(Nat) /\ Len(f) = FrameLen
          /\ \A k \in 1..FrameLen : f[k] = buf.cells[i + k - 1]
      <3>1. \A j \in i..e : buf.cells[j] \in Nat
        BY <2>2
      <3>2. /\ SubSeq(buf.cells, i, e) \in Seq(Nat)
            /\ Len(SubSeq(buf.cells, i, e)) = IF i <= e THEN e - i + 1 ELSE 0
            /\ \A k \in 1..(e - i + 1) : SubSeq(buf.cells, i, e)[k] = buf.cells[i + k - 1]
        BY <2>1, <3>1, SubSeqProperties
      <3> QED BY <2>1, <3>2
    <2> HIDE DEF f
    <2>4. \A k \in 1..FrameLen : f[k] = m + k
      <3> TAKE k \in 1..FrameLen
      <3>1. i + k - 1 \in i..e /\ (i + k - 1) - buf.r = k
        BY <1>1, <1>7, <2>1
      <3> QED BY <2>2, <2>3, <3>1
    <2>5. Frame(n + 1) = [k \in 1..FrameLen |-> m + k]
      <3>1. (n + 1) - 1 = n
        OBVIOUS
      <3> QED BY <3>1 DEF Frame
    <2>6. f = [k \in 1..FrameLen |-> m + k]
      <3>1. DOMAIN f = 1..FrameLen /\ f = [k \in DOMAIN f |-> f[k]]
        BY <2>3, LenProperties
      <3> QED BY <2>4, <3>1
    <2> QED BY <1>8, <1>13, <2>5, <2>6 DEF f, e
  <1> QED BY <1>8, <1>10, <1>11, <1>12, <1>13

LEMMA StreamStep ==
    ASSUME TypeOK, BufferInv, StreamInv, [Next]_vars
    PROVE  StreamInv'
  <1> SUFFICES ASSUME lost' = {}
               PROVE  /\ \A i \in 1..Len(decoded') : decoded'[i] = Frame(i)
                      /\ \E b \in Nat :
                           /\ FrameLen * Len(decoded') <= b /\ b <= sent'
                           /\ peer' # "reset" => b = sent'
                           /\ Content(buf') \o socket' = Run(FrameLen * Len(decoded'), b)
    BY DEF StreamInv, Content, ReadAble, Run, Frame
  <1>1. lost = {}
    <2>1. lost \subseteq lost'
      BY DEF Next, IoThread, Peer, SetState, Report, OnRead, ReadBytes, ReadNothing, ReadEnd,
             Decode, DecodeEnd, PeerSends, PeerCloses, PeerResets, vars
    <2> QED BY <2>1
  <1>2. PICK n : n = Len(decoded)
    OBVIOUS
  <1>3. PICK m : m = FrameLen * n
    OBVIOUS
  <1>4. /\ decoded \in Seq(Seq(Byte)) /\ n \in Nat /\ sent \in Nat
        /\ FrameLen \in Nat \ {0, 1} /\ LenBytes \in Nat /\ FrameLen > LenBytes + 2
        /\ m \in Nat
        /\ Byte \subseteq Nat
    <2>1. decoded \in Seq(Seq(Byte)) /\ sent \in 0..MaxBytes
      BY DEF TypeOK
    <2>2. n \in Nat
      BY <1>2, <2>1, LenProperties
    <2>3. /\ FrameLen \in Nat \ {0, 1} /\ LenBytes \in Nat /\ FrameLen > LenBytes + 2
          /\ MaxBytes \in Nat /\ Byte = 1..MaxBytes
      BY ReadAssumption DEF MaxBytes
    <2> QED BY <1>3, <2>1, <2>2, <2>3
  <1>5. PICK e \in Nat :
          /\ m <= e /\ e <= sent /\ (peer # "reset" => e = sent)
          /\ \A i \in 1..n : decoded[i] = Frame(i)
          /\ Content(buf) \o socket = Run(m, e)
    <2>1. m = FrameLen * Len(decoded)
      BY <1>2, <1>3
    <2>2. \A i \in 1..Len(decoded) : decoded[i] = Frame(i)
      BY <1>1, Zenon DEF StreamInv
    <2>3. PICK e \in Nat :
            /\ FrameLen * Len(decoded) <= e /\ e <= sent /\ (peer # "reset" => e = sent)
            /\ Content(buf) \o socket = Run(FrameLen * Len(decoded), e)
      BY <1>1, Zenon DEF StreamInv
    <2>4. m <= e /\ Content(buf) \o socket = Run(m, e)
      BY <2>1, <2>3, Zenon
    <2> QED BY <1>2, <2>2, <2>3, <2>4, Zenon
  <1>6. PICK c : c = Content(buf)
    OBVIOUS
  <1>7. c \in Seq(Byte) /\ socket \in Seq(Byte) /\ c \in Seq(Nat) /\ socket \in Seq(Nat)
    <2>1. c \in Seq(Byte) /\ socket \in Seq(Byte)
      BY <1>6, Fields DEF BufferInv
    <2> QED BY <1>4, <2>1, SeqMonotonic
  <1>8. CASE ReadBytes
    <2>1. PICK k : k = Least(WriteAble(buf), Len(socket))
      OBVIOUS
    <2>2. PICK s : s = SubSeq(socket, 1, k)
      OBVIOUS
    <2>3. Room(buf) = buf /\ WriteAble(buf) \in Nat \ {0}
      BY BufferFacts
    <2>4. /\ buf' = MoveWriteIndex(Store(buf, s), k)
          /\ socket' = SubSeq(socket, k + 1, Len(socket))
          /\ lost' = IF MoveWriteRefused(buf, k) THEN lost \cup {s[i] : i \in 1..k} ELSE lost
          /\ decoded' = decoded /\ sent' = sent /\ socket # << >> /\ peer' = peer
      BY <1>8, <2>1, <2>2, <2>3 DEF ReadBytes
    <2>5. /\ k \in Nat /\ k <= WriteAble(buf) /\ k <= Len(socket)
          /\ s \in Seq(Byte) /\ Len(s) = k /\ socket' \in Seq(Byte)
      BY <2>1, <2>2, <2>4, ReadFits
    <2>6. Len(socket) \in Nat \ {0}
      BY <1>7, <2>4, EmptySeq
    <2>7. k # 0
      BY <2>1, <2>3, <2>6 DEF Least
    <2>8. ~ MoveWriteRefused(buf, k)
      <3> SUFFICES ASSUME MoveWriteRefused(buf, k) PROVE FALSE
        OBVIOUS
      <3>1. lost' = lost \cup {s[i] : i \in 1..k}
        BY <2>4
      <3>2. 1 \in 1..k
        BY <2>5, <2>7
      <3>3. s[1] \in lost'
        BY <3>1, <3>2
      <3> QED BY <3>3
    <2>9. Content(buf') = c \o s
      BY <1>6, <2>4, <2>5, <2>8, FillAppends DEF BufferInv
    <2>10. s \o socket' = socket
      <3>1. PICK l \in Nat : l = Len(socket)
        BY <2>6
      <3>2. SubSeq(socket, 1, k) \o SubSeq(socket, k + 1, l) = SubSeq(socket, 1, l)
        <4>1. 1 \in 1..(l + 1) /\ k \in (1 - 1)..l /\ l \in k..l
          BY <2>5, <3>1
        <4> QED BY <1>7, <3>1, <4>1, ConcatAdjacentSubSeq
      <3>3. SubSeq(socket, 1, l) = socket
        BY <1>7, <3>1, SubSeqFull
      <3> QED BY <2>2, <2>4, <3>1, <3>2, <3>3
    <2>11. (c \o s) \o socket' = c \o (s \o socket')
      <3>1. PICK z : z = socket'
        OBVIOUS
      <3>2. c \in Seq(Byte) /\ s \in Seq(Byte) /\ z \in Seq(Byte)
        BY <1>7, <2>5, <3>1
      <3>3. (c \o s) \o z = c \o (s \o z)
        BY <3>2, ConcatAssociative
      <3> QED BY <3>1, <3>3
    <2>12. Content(buf') \o socket' = Run(m, e)
      BY <1>5, <1>6, <2>9, <2>10, <2>11
    <2> QED BY <1>2, <1>3, <1>5, <2>4, <2>12
  <1>9. CASE Decode
    <2>1. PICK o : \E i \in FrameStarts(buf, o) :
            LET l == Length(buf, i, o)
            IN  /\ \A j \in FrameStarts(buf, o) : i <= j
                /\ decoded' = IF l <= LenBytes + 2 THEN decoded
                              ELSE Append(decoded, SubSeq(buf.cells, i, i + l - 1))
                /\ buf' = MoveReadIndex(buf, l)
      BY <1>9 DEF Decode
    <2>2. PICK i \in FrameStarts(buf, o), l \in Nat :
            /\ l = Length(buf, i, o)
            /\ \A j \in FrameStarts(buf, o) : i <= j
            /\ decoded' = IF l <= LenBytes + 2 THEN decoded
                          ELSE Append(decoded, SubSeq(buf.cells, i, i + l - 1))
            /\ buf' = MoveReadIndex(buf, l)
      BY <2>1, Lengths, BufferFacts
    <2>3. socket' = socket /\ sent' = sent /\ peer' = peer
      BY <1>9 DEF Decode
    <2>4. /\ l \in Nat /\ l <= ReadAble(buf) /\ ~ MoveReadRefused(buf, l)
          /\ l > 0 => SubSeq(buf.cells, i, i + l - 1) \in Seq(Byte)
      BY <2>2, FrameFits
    <2>5. PICK x : x = SubSeq(c, 1, l)
      OBVIOUS
    <2>6. PICK d : d = Content(buf')
      OBVIOUS
    <2>7. buf' \in Buffer /\ x \o d = c
      BY <1>4, <1>6, <2>2, <2>4, <2>5, <2>6, MoveReadTakes DEF BufferInv
    <2>8. \A j \in 1..ReadAble(buf) : Content(buf)[j] = m + j
      <3>1. \A j \in 1..Len(c) : c[j] = m + j
        BY <1>4, <1>5, <1>6, <1>7, RunSplits
      <3>2. Len(c) = ReadAble(buf)
        BY <1>6, Fields DEF BufferInv
      <3> QED BY <1>6, <3>1, <3>2
    <2>9. \/ l = FrameLen /\ SubSeq(buf.cells, i, i + FrameLen - 1) = Frame(n + 1)
          \/ l = 0
      BY <1>3, <1>4, <2>2, <2>8, FirstFrame
    <2>10. x \in Seq(Byte) /\ Len(x) = l
      <3>1. \A j \in 1..l : c[j] \in Byte
        <4>1. l <= Len(c) /\ Len(c) \in Nat
          BY <1>6, <2>4, Fields DEF BufferInv
        <4> QED BY <1>7, <2>4, <4>1, ElementOfSeq
      <3> QED BY <2>4, <2>5, <3>1, SubSeqProperties
    <2>11. d \in Seq(Byte)
      BY <2>6, <2>7, Fields
    <2>12. PICK y : y = d \o socket
      OBVIOUS
    <2>13. x \in Seq(Nat) /\ y \in Seq(Nat) /\ x \o y = Run(m, e)
      <3>1. x \in Seq(Nat) /\ d \in Seq(Nat)
        BY <1>4, <2>10, <2>11, SeqMonotonic
      <3>2. y \in Seq(Nat)
        BY <1>7, <2>12, <3>1, ConcatProperties
      <3>3. PICK z : z = socket
        OBVIOUS
      <3>4. x \in Seq(Nat) /\ d \in Seq(Nat) /\ z \in Seq(Nat)
        BY <1>7, <3>1, <3>3
      <3>5. (x \o d) \o z = x \o (d \o z)
        BY <3>4, ConcatAssociative
      <3>6. x \o y = (x \o d) \o socket
        BY <2>12, <3>3, <3>5
      <3> QED BY <1>5, <1>6, <2>7, <3>1, <3>2, <3>6
    <2>14. m + l <= e /\ y = Run(m + l, e)
      <3>1. m \in Nat /\ e \in Nat /\ m <= e
        BY <1>4, <1>5
      <3>2. m + Len(x) <= e /\ y = Run(m + Len(x), e)
        BY <2>13, <3>1, RunSplits
      <3> QED BY <2>10, <3>2
    <2>15. CASE l = 0
      <3>1. decoded' = decoded
        BY <1>4, <2>2, <2>15
      <3>2. m + l = m
        BY <1>4, <2>15
      <3> QED BY <1>2, <1>3, <1>5, <2>3, <2>6, <2>12, <2>14, <3>1, <3>2
    <2>16. CASE l = FrameLen /\ SubSeq(buf.cells, i, i + FrameLen - 1) = Frame(n + 1)
      <3>1. FrameLen * (n + 1) = m + l
        BY <1>3, <1>4, <2>16
      <3>2. PICK f : f = SubSeq(buf.cells, i, i + l - 1)
        OBVIOUS
      <3>3. f \in Seq(Byte) /\ f = Frame(n + 1) /\ decoded' = Append(decoded, f)
        <4>1. l > 0 /\ ~ (l <= LenBytes + 2)
          BY <1>4, <2>16
        <4>2. f \in Seq(Byte)
          BY <2>4, <3>2, <4>1
        <4>3. f = Frame(n + 1)
          BY <2>16, <3>2, Zenon
        <4>4. decoded' = Append(decoded, f)
          BY <2>2, <3>2, <4>1, Zenon
        <4> QED BY <4>2, <4>3, <4>4
      <3>4. PICK ds \in Seq(Seq(Byte)) : ds = decoded
        BY <1>4
      <3>5. /\ Len(Append(ds, f)) = Len(ds) + 1
            /\ \A j \in 1..Len(ds) : Append(ds, f)[j] = ds[j]
            /\ Append(ds, f)[Len(ds) + 1] = f
        BY <3>3, <3>4, AppendProperties
      <3>6. /\ Len(decoded') = n + 1
            /\ \A j \in 1..n : decoded'[j] = decoded[j]
            /\ decoded'[n + 1] = Frame(n + 1)
        BY <1>2, <3>3, <3>4, <3>5
      <3>7. \A j \in 1..(n + 1) : decoded'[j] = Frame(j)
        <4>1. \A j \in 1..(n + 1) : j \in 1..n \/ j = n + 1
          BY <1>4
        <4> QED BY <1>5, <3>6, <4>1
      <3> QED BY <1>5, <2>3, <2>6, <2>12, <2>14, <3>1, <3>6, <3>7
    <2> QED BY <2>9, <2>15, <2>16
  <1>10. CASE ReadNothing \/ ReadEnd
    <2>1. buf' = buf /\ UNCHANGED <<decoded, socket, sent, peer>>
      BY <1>10, BufferFacts DEF ReadNothing, ReadEnd
    <2> QED BY <1>2, <1>3, <1>5, <2>1
  <1>11. CASE SetState \/ Report \/ OnRead \/ DecodeEnd \/ UNCHANGED vars
    <2>1. UNCHANGED <<buf, decoded, socket, sent, peer>>
      BY <1>11 DEF SetState, Report, OnRead, DecodeEnd, vars
    <2> QED BY <1>2, <1>3, <1>5, <2>1
  <1>12. ASSUME NEW k \in 1..MaxBytes, PeerSends(k)
         PROVE  /\ \A i \in 1..Len(decoded') : decoded'[i] = Frame(i)
                /\ \E b \in Nat :
                     /\ FrameLen * Len(decoded') <= b /\ b <= sent'
                     /\ peer' # "reset" => b = sent'
                     /\ Content(buf') \o socket' = Run(FrameLen * Len(decoded'), b)
    <2>1. PICK s : s = [i \in 1..k |-> sent + i]
      OBVIOUS
    <2>2. /\ socket' = socket \o s /\ sent' = sent + k /\ buf' = buf /\ decoded' = decoded
          /\ peer = "open" /\ e = sent
      BY <1>5, <1>12, <2>1 DEF PeerSends
    <2>3. k \in Nat /\ s \in Seq(Nat)
      <3>1. k \in Nat
        OBVIOUS
      <3>2. \A i \in 1..k : sent + i \in Nat
        BY <1>4
      <3> QED BY <2>1, <3>1, <3>2
    <2>4. Run(m, e) \o s = Run(m, e + k)
      <3>1. m \in Nat /\ e \in Nat /\ m <= e /\ Len(s) = k /\ \A i \in 1..k : s[i] = e + i
        BY <1>4, <1>5, <2>1, <2>2, <2>3
      <3> QED BY <2>3, <3>1, RunGrows
    <2>5. c \o (socket \o s) = (c \o socket) \o s
      BY <1>7, <2>3, ConcatAssociative
    <2>6. m <= e + k /\ e + k \in Nat /\ e + k = sent'
      BY <1>4, <1>5, <2>2, <2>3
    <2>7. Content(buf') \o socket' = Run(m, e + k)
      BY <1>5, <1>6, <2>2, <2>4, <2>5
    <2> QED BY <1>2, <1>3, <1>5, <2>2, <2>6, <2>7
  <1>13. CASE PeerCloses
    <2>1. UNCHANGED <<buf, decoded, socket, sent>> /\ peer = "open"
      BY <1>13 DEF PeerCloses
    <2> QED BY <1>2, <1>3, <1>5, <2>1
  <1>14. CASE PeerResets
    <2>1. /\ UNCHANGED <<buf, decoded, sent>> /\ socket' = << >> /\ peer' = "reset"
      BY <1>14 DEF PeerResets
    <2>2. PICK l \in Nat : l = Len(c)
      BY <1>7, LenProperties
    <2>3. m + l <= e /\ \A i \in 1..l : c[i] = m + i
      BY <1>4, <1>5, <1>6, <1>7, <2>2, RunSplits
    <2>4. c = Run(m, m + l)
      <3>1. /\ Run(m, m + l) \in Seq(Nat) /\ Len(Run(m, m + l)) = l
            /\ \A i \in 1..l : Run(m, m + l)[i] = m + i
        <4>1. PICK b \in Nat : b = m + l /\ m <= b /\ b - m = l
          BY <1>4
        <4> QED BY <1>4, <4>1, RunBytes
      <3> QED BY <1>7, <2>2, <2>3, <3>1, SeqEqual
    <2>5. Content(buf') \o socket' = c
      BY <1>6, <1>7, <2>1, ConcatEmptySeq
    <2>6. m + l \in Nat /\ m <= m + l /\ m + l <= sent
      BY <1>4, <1>5, <2>3
    <2> QED BY <1>2, <1>3, <1>5, <2>1, <2>4, <2>5, <2>6
  <1> QED BY <1>8, <1>9, <1>10, <1>11, <1>12, <1>13, <1>14 DEF Next, IoThread, Peer

LEMMA InitStream == Init => StreamInv /\ FramesInv
  <1> SUFFICES ASSUME Init PROVE StreamInv /\ FramesInv
    OBVIOUS
  <1> USE ReadAssumption DEF Init
  <1>1. buf \in Buffer /\ Content(buf) = << >> /\ buf.w = 0 /\ buf.r = 0
    BY NewBufferEmpty DEF NewBuffer
  <1>2. FramesInv
    <2>1. \A i \in (buf.r + 1)..buf.w : FALSE
      BY <1>1
    <2> QED BY <2>1 DEF FramesInv, WholeFrames
  <1>3. StreamInv
    <2>1. Len(decoded) = 0 /\ sent = 0 /\ FrameLen * 0 = 0 /\ socket = << >>
      OBVIOUS
    <2>2. Run(0, 0) = << >>
      <3>1. Run(0, 0) \in Seq(Nat) /\ Len(Run(0, 0)) = 0
        <4>1. PICK a \in Nat, b \in Nat : a = 0 /\ b = 0 /\ a <= b
          OBVIOUS
        <4>2. Run(a, b) \in Seq(Nat) /\ Len(Run(a, b)) = b - a
          BY <4>1, RunBytes
        <4> QED BY <4>1, <4>2
      <3> QED BY <3>1, EmptySeq
    <2>3. << >> \o << >> = << >>
      BY EmptySeq, ConcatEmptySeq
    <2>4. Content(buf) \o socket = Run(0, 0) /\ 0 <= 0 /\ 0 \in Nat
      BY <1>1, <2>1, <2>2, <2>3
    <2> QED BY <2>1, <2>4 DEF StreamInv
  <1> QED BY <1>2, <1>3

LEMMA StreamInductive == Spec => [](TypeOK /\ BufferInv /\ StreamInv /\ FramesInv)
  <1>1. TypeOK /\ BufferInv /\ StreamInv /\ FramesInv /\ [Next]_vars => StreamInv' /\ FramesInv'
    BY StreamStep, FramesStep
  <1> QED BY <1>1, Inductive, InitStream, PTL DEF Spec

(* As long as moveWriteIndex has refused no read, decode hands out the frames
   of the peer, in order and once each, and the rest of its bytes is in the
   buffer and the socket. *)
THEOREM FramesAsSent == Spec => []StreamIntact
  <1>1. StreamInv => StreamIntact
    <2> SUFFICES ASSUME StreamInv, lost = {}, peer # "reset"
                 PROVE  /\ \A i \in 1..Len(decoded) : decoded[i] = Frame(i)
                        /\ Content(buf) \o socket = Run(FrameLen * Len(decoded), sent)
      BY DEF StreamIntact, Run
    <2> QED BY Zenon DEF StreamInv
  <1> QED BY <1>1, StreamInductive, PTL

(* decode's loop takes bytes in every round, or it has found the start of a
   frame whose length is cut right behind a frame that it took, and spins; a
   lost byte apart. *)
THEOREM DecodeEnds == Spec => DecodeConsumes
  <1>1. TypeOK /\ BufferInv /\ StreamInv /\ [Next]_vars =>
          [Decode => \/ ReadAble(buf') < ReadAble(buf)
                     \/ lost # {}
                     \/ CutBehindFrame(buf) /\ pc' = "spins" /\ decoded' = decoded]_vars
    <2> SUFFICES ASSUME TypeOK, BufferInv, StreamInv, Decode, lost = {},
                        ~ (ReadAble(buf') < ReadAble(buf))
                 PROVE  CutBehindFrame(buf) /\ pc' = "spins" /\ decoded' = decoded
      OBVIOUS
    <2>1. PICK o : \E i \in FrameStarts(buf, o) :
            LET l == Length(buf, i, o)
            IN  /\ \A j \in FrameStarts(buf, o) : i <= j
                /\ decoded' = IF l <= LenBytes + 2 THEN decoded
                              ELSE Append(decoded, SubSeq(buf.cells, i, i + l - 1))
                /\ buf' = MoveReadIndex(buf, l)
                /\ pc' = IF l = 0 /\ buf' = buf THEN "spins" ELSE "decode"
      BY DEF Decode
    <2>2. PICK i \in FrameStarts(buf, o), l \in Nat :
            /\ l = Length(buf, i, o)
            /\ \A j \in FrameStarts(buf, o) : i <= j
            /\ decoded' = IF l <= LenBytes + 2 THEN decoded
                          ELSE Append(decoded, SubSeq(buf.cells, i, i + l - 1))
            /\ buf' = MoveReadIndex(buf, l)
            /\ pc' = IF l = 0 /\ buf' = buf THEN "spins" ELSE "decode"
      BY <2>1, Lengths, BufferFacts
    <2>3. l \in Nat /\ l <= ReadAble(buf) /\ ~ MoveReadRefused(buf, l)
      BY <2>2, FrameFits
    <2>4. l = 0
      <3>1. ReadAble(buf') = ReadAble(buf) - l /\ ReadAble(buf) \in Nat
        BY <2>2, <2>3, MoveShrinks, Fields DEF BufferInv
      <3> QED BY <2>3, <3>1
    <2>5. PICK n \in Nat : n = Len(decoded)
      BY LenProperties DEF TypeOK
    <2>6. PICK m \in Nat, e \in Nat :
            m = FrameLen * n /\ m <= e /\ Content(buf) \o socket = Run(m, e)
      <3>1. PICK m \in Nat : m = FrameLen * n
        BY ReadAssumption
      <3>2. m = FrameLen * Len(decoded)
        BY <2>5, <3>1
      <3>3. PICK e \in Nat :
              /\ FrameLen * Len(decoded) <= e
              /\ Content(buf) \o socket = Run(FrameLen * Len(decoded), e)
        BY Zenon DEF StreamInv
      <3>4. m <= e /\ Content(buf) \o socket = Run(m, e)
        BY <3>2, <3>3, Zenon
      <3> QED BY <3>1, <3>4
    <2>7. \A j \in 1..ReadAble(buf) : Content(buf)[j] = m + j
      <3>1. PICK c : c = Content(buf)
        OBVIOUS
      <3>2. c \in Seq(Byte) /\ socket \in Seq(Byte) /\ Len(c) = ReadAble(buf)
        BY <3>1, Fields DEF BufferInv
      <3>3. Byte \subseteq Nat
        BY ReadAssumption DEF MaxBytes
      <3>4. c \in Seq(Nat) /\ socket \in Seq(Nat)
        BY <3>2, <3>3, SeqMonotonic
      <3>5. \A j \in 1..Len(c) : c[j] = m + j
        BY <2>6, <3>1, <3>4, RunSplits
      <3> QED BY <3>1, <3>2, <3>5
    <2>8. CutBehindFrame(buf)
      <3>1. Length(buf, i, o) = 0 /\ FrameLen # 0
        BY <2>2, <2>4, ReadAssumption
      <3> QED BY <2>2, <2>6, <2>7, <3>1, FirstFrame
    <2>9. buf' = buf
      <3>1. /\ buf = [cells |-> buf.cells, r |-> buf.r, w |-> buf.w]
            /\ buf.r \in Nat /\ buf.w \in Nat
        BY Fields DEF BufferInv
      <3>2. At(buf, buf.r + 0, buf.w) = buf
        BY <3>1 DEF At
      <3>3. buf.r < Size(buf) \div 3
        BY <2>8 DEF CutBehindFrame, BufferInv, Adjusted
      <3> QED BY <2>2, <2>3, <2>4, <3>2, <3>3 DEF MoveReadIndex, AdjustBuffer
    <2>10. decoded' = decoded
      BY <2>2, <2>4, ReadAssumption
    <2> QED BY <2>2, <2>4, <2>8, <2>9, <2>10
  <1> QED BY <1>1, StreamInductive, PTL DEF Spec, DecodeConsumes

(* decode's loop leaves no complete frame behind, nor does a read that is
   refused bring one in: nothing waits for an event that does not come. *)
THEOREM NoFrameLeftBehind == Spec => []NoFrameWaits
  <1>1. FramesInv => NoFrameWaits
    BY DEF FramesInv, NoFrameWaits
  <1> QED BY <1>1, StreamInductive, PTL

-----------------------------------------------------------------------------
(***************************************************************************)
(* The sending side.  The out buffer holds the messages 1, 2, 3, ... and   *)
(* the pending ones are a run of numbers: behind the encoded ones before   *)
(* onWrite has encoded them, the last of the encoded ones after that.  The *)
(* callbacks have run for all that came before.                            *)
(***************************************************************************)
Encoded == IF at = "idle" THEN 0 ELSE Len(pending)

Numbered ==
    /\ \A i \in 1..Len(out) : out[i] = i
    /\ \A i \in 1..Len(pending) : pending[i] = Len(out) - Encoded + i
    /\ \A i \in 1..Len(done) : done[i] = i
    /\ IF byClient THEN Len(done) = Len(out) - Encoded ELSE pending = << >> /\ done = << >>
    /\ Handed <= MaxMessages

\* A message is given to the socket only behind those before it.
GivenInOrder == \A m, n \in Message : m < n /\ given[n] > 0 => given[m] > 0

\* onWrite is at work on an open connection that listens, until a write()
\* has taken everything or the connection has been reset.
AllGiven == \A i \in 1..Len(out) : given[i] > 0

Listening ==
    /\ at # "idle" => connection = "Connected"
    /\ at = "write" => listeningOut \/ gone
    /\ at = "done" /\ ~ listeningOut => AllGiven
    /\ at = "idle" /\ connection = "Connected" /\ ~ listeningOut =>
         pending = << >> /\ AllGiven

WriteInv == WriteTypeOK /\ Numbered /\ GivenInOrder /\ Listening

(* What one write() takes. *)
LEMMA Multiples ==
    ASSUME NEW i \in Nat, NEW j \in Nat, i <= j
    PROVE  /\ EncodedLen * i \in Nat /\ EncodedLen * j \in Nat
           /\ EncodedLen * i <= EncodedLen * j
  <1> DEFINE d == j - i
  <1>1. d \in Nat /\ j = i + d
    OBVIOUS
  <1> HIDE DEF d
  <1>2. EncodedLen \in Nat
    BY WriteAssumption
  <1>3. EncodedLen * d \in Nat /\ EncodedLen * i \in Nat
    BY <1>1, <1>2
  <1>4. EncodedLen * j = EncodedLen * i + EncodedLen * d
    BY <1>1, <1>2
  <1> QED BY <1>3, <1>4

LEMMA WrittenFits ==
    ASSUME WriteTypeOK
    PROVE  /\ Total \in Nat /\ Written \in Nat /\ Written <= Total
           /\ queued + Written \in 0..window
  <1>1. Total \in Nat
    BY Multiples DEF Total, WriteTypeOK
  <1>2. window \in Nat /\ queued \in 0..window
    BY WriteAssumption DEF WriteTypeOK
  <1> QED BY <1>1, <1>2 DEF Written, Smaller

(* The messages a write() takes whole, and what it does to their counts. *)
LEMMA Taking ==
    ASSUME WriteTypeOK, Numbered, WriteCall
    PROVE  /\ given' \in [Message -> 0..2]
           /\ \A m \in Message : given[m] > 0 => given'[m] > 0
           /\ \A m \in 1..Len(out) : EncodedLen * m <= Written => given'[m] > 0
           /\ \A m \in Message :
                given'[m] > 0 => \/ given[m] > 0
                                 \/ m <= Len(out) /\ EncodedLen * m <= Written
  <1> DEFINE whole(m) == \E i \in 1..Len(out) : out[i] = m /\ EncodedLen * i <= Written
  <1>1. given' = [m \in Message |-> IF whole(m) THEN Smaller(2, given[m] + 1) ELSE given[m]]
    BY DEF WriteCall
  <1>2. \A m \in Message : whole(m) <=> m <= Len(out) /\ EncodedLen * m <= Written
    BY DEF Numbered, Message
  <1>3. Len(out) \in Nat /\ Len(out) <= MaxMessages /\ 1..Len(out) \subseteq Message
    <2>1. Len(out) \in Nat /\ Len(pending) \in Nat
      BY DEF WriteTypeOK
    <2> QED BY <2>1, WriteAssumption DEF Numbered, Handed, Message
  <1>4. \A m \in Message : given[m] \in 0..2
    BY DEF WriteTypeOK
  <1> HIDE DEF whole
  <1>5. \A m \in Message : Smaller(2, given[m] + 1) \in 1..2
    BY <1>4 DEF Smaller
  <1>6. \A m \in Message : given'[m] = IF whole(m) THEN Smaller(2, given[m] + 1) ELSE given[m]
    BY <1>1
  <1>7. given' \in [Message -> 0..2]
    <2>1. \A m \in Message :
            (IF whole(m) THEN Smaller(2, given[m] + 1) ELSE given[m]) \in 0..2
      BY <1>4, <1>5
    <2> QED BY <1>1, <2>1
  <1>8. \A m \in Message : given[m] > 0 => given'[m] > 0
    BY <1>4, <1>5, <1>6
  <1>9. \A m \in 1..Len(out) : EncodedLen * m <= Written => given'[m] > 0
    BY <1>2, <1>3, <1>5, <1>6
  <1>10. \A m \in Message :
           given'[m] > 0 => \/ given[m] > 0
                            \/ m <= Len(out) /\ EncodedLen * m <= Written
    BY <1>2, <1>6
  <1> QED BY <1>7, <1>8, <1>9, <1>10

LEMMA WriteInvInit == WriteInit => WriteInv
  <1> SUFFICES ASSUME WriteInit PROVE WriteInv
    OBVIOUS
  <1>1. window \in Nat /\ MaxMessages \in Nat
    BY WriteAssumption DEF WriteInit
  <1>2. WriteTypeOK
    <2>1. window \in Windows /\ queued \in 0..window
      BY <1>1 DEF WriteInit
    <2>2. given \in [Message -> 0..2]
      BY DEF WriteInit
    <2>3. pending \in Seq(Message) /\ out \in Seq(Message) /\ done \in Seq(Message)
      BY DEF WriteInit
    <2> QED BY <2>1, <2>2, <2>3 DEF WriteInit, WriteTypeOK
  <1> QED BY <1>1, <1>2 DEF WriteInit, WriteInv, Numbered, Handed, Encoded, GivenInOrder,
            Listening, AllGiven

LEMMA WriteInvStep ==
    ASSUME WriteInv, [WriteNext]_writeVars
    PROVE  WriteInv'
  <1>1. /\ Len(out) \in Nat /\ Len(pending) \in Nat /\ Len(done) \in Nat
        /\ out \in Seq(Message) /\ pending \in Seq(Message) /\ done \in Seq(Message)
        /\ MaxMessages \in Nat /\ window \in Nat /\ queued \in 0..window
    BY WriteAssumption DEF WriteInv, WriteTypeOK
  <1>2. CASE Reply
    <2>1. /\ Handed = Len(out) + Len(pending) /\ Handed + 1 \in Message
          /\ pending = << >> /\ done = << >> /\ ~ byClient
      BY <1>1, <1>2 DEF Reply, Handed, WriteInv, Numbered, Message
    <2>2. PICK n \in Message : n = Handed + 1
      BY <2>1
    <2>3. /\ out' = Append(out, n) /\ n = Len(out) + 1
      BY <1>2, <2>1, <2>2 DEF Reply
    <2>4. /\ out' \in Seq(Message) /\ Len(out') = Len(out) + 1 /\ out'[Len(out) + 1] = n
          /\ \A i \in 1..Len(out) : out'[i] = out[i]
      BY <1>1, <2>2, <2>3, AppendProperties
    <2>5. WriteTypeOK'
      BY <1>2, <2>4 DEF Reply, WriteInv, WriteTypeOK, fixed
    <2>6. Numbered'
      BY <1>1, <1>2, <2>1, <2>2, <2>3, <2>4
         DEF Reply, WriteInv, Numbered, Handed, Encoded, fixed, Message
    <2> QED BY <1>2, <2>5, <2>6 DEF Reply, WriteInv, GivenInOrder, Listening, AllGiven
  <1>3. CASE WriteMessage
    <2>1. /\ Handed = Len(out) + Len(pending) /\ Handed + 1 \in Message /\ byClient
      BY <1>1, <1>3 DEF WriteMessage, Handed, WriteInv, Numbered, Message
    <2>2. PICK n \in Message : n = Handed + 1
      BY <2>1
    <2>3. pending' = Append(pending, n) /\ n = Len(out) + Len(pending) + 1
      BY <1>3, <2>1, <2>2 DEF WriteMessage
    <2>4. /\ pending' \in Seq(Message) /\ Len(pending') = Len(pending) + 1
          /\ pending'[Len(pending) + 1] = n
          /\ \A i \in 1..Len(pending) : pending'[i] = pending[i]
      BY <1>1, <2>2, <2>3, AppendProperties
    <2>5. WriteTypeOK'
      BY <1>3, <2>4 DEF WriteMessage, WriteInv, WriteTypeOK, fixed
    <2>6. Numbered'
      <3>1. /\ Encoded = 0 /\ Encoded' = 0 /\ out' = out /\ done' = done /\ byClient'
            /\ Handed' = Len(out) + Len(pending) + 1
        BY <1>3, <2>1, <2>4 DEF WriteMessage, Handed, Encoded, fixed
      <3>2. \A i \in 1..Len(pending) : pending[i] = Len(out) + i
        <4> TAKE i \in 1..Len(pending)
        <4>1. pending[i] = Len(out) - 0 + i
          BY <3>1 DEF WriteInv, Numbered
        <4> QED BY <1>1, <4>1
      <3>3. \A i \in 1..Len(pending') : pending'[i] = Len(out) + i
        BY <1>1, <2>3, <2>4, <3>2
      <3>4. Handed' <= MaxMessages
        BY <1>1, <2>1, <3>1 DEF Message
      <3> QED BY <1>1, <2>1, <3>1, <3>3, <3>4 DEF WriteInv, Numbered
    <2> QED BY <1>3, <2>5, <2>6 DEF WriteMessage, WriteInv, GivenInOrder, Listening, AllGiven
  <1>4. CASE OnWrite
    <2>1. CASE byClient
      <3>1. out' = out \o pending
        BY <1>4, <2>1 DEF OnWrite
      <3>2. /\ out' \in Seq(Message) /\ Len(out') = Len(out) + Len(pending)
            /\ \A i \in 1..Len(out') :
                 out'[i] = IF i <= Len(out) THEN out[i] ELSE pending[i - Len(out)]
        BY <1>1, <3>1, ConcatProperties
      <3>3. WriteTypeOK'
        BY <1>4, <3>2 DEF OnWrite, WriteInv, WriteTypeOK, fixed
      <3>4. Numbered'
        <4>1. /\ Encoded = 0 /\ Encoded' = Len(pending) /\ pending' = pending
              /\ done' = done /\ byClient' /\ Handed = Len(out) + Len(pending)
              /\ Handed' = Len(out')
          BY <1>4, <2>1 DEF OnWrite, Handed, Encoded, fixed
        <4>2. /\ \A i \in 1..Len(out) : out[i] = i
              /\ \A i \in 1..Len(pending) : pending[i] = Len(out) + i
              /\ Len(done) = Len(out) /\ Handed <= MaxMessages
              /\ \A i \in 1..Len(done) : done[i] = i
          <5>1. \A i \in 1..Len(pending) : pending[i] = Len(out) + i
            <6> TAKE i \in 1..Len(pending)
            <6>1. pending[i] = Len(out) - 0 + i
              BY <4>1 DEF WriteInv, Numbered
            <6> QED BY <1>1, <6>1
          <5>2. Len(done) = Len(out) - 0
            BY <2>1, <4>1 DEF WriteInv, Numbered
          <5> QED BY <1>1, <5>1, <5>2 DEF WriteInv, Numbered
        <4>3. \A i \in 1..Len(out') : out'[i] = i
          <5> TAKE i \in 1..Len(out')
          <5>1. CASE i <= Len(out)
            BY <1>1, <3>2, <4>2, <5>1
          <5>2. CASE i > Len(out)
            <6>1. i - Len(out) \in 1..Len(pending) /\ out'[i] = pending[i - Len(out)]
              BY <1>1, <3>2, <5>2
            <6>2. pending[i - Len(out)] = Len(out) + (i - Len(out))
              BY <4>2, <6>1
            <6> QED BY <1>1, <3>2, <6>1, <6>2
          <5> QED BY <1>1, <3>2, <5>1, <5>2
        <4> QED BY <1>1, <3>2, <4>1, <4>2, <4>3 DEF Numbered
      <3> QED BY <1>4, <3>3, <3>4 DEF OnWrite, WriteInv, GivenInOrder, Listening
    <2>2. CASE ~ byClient
      <3>1. WriteTypeOK' /\ Numbered'
        BY <1>1, <1>4, <2>2
           DEF OnWrite, WriteInv, WriteTypeOK, Numbered, Handed, Encoded, fixed
      <3> QED BY <1>4, <3>1 DEF OnWrite, WriteInv, GivenInOrder, Listening
    <2> QED BY <2>1, <2>2
  <1>5. CASE WriteCall
    <2>1. /\ given' \in [Message -> 0..2]
          /\ \A m \in Message : given[m] > 0 => given'[m] > 0
          /\ \A m \in 1..Len(out) : EncodedLen * m <= Written => given'[m] > 0
          /\ \A m \in Message :
               given'[m] > 0 => \/ given[m] > 0
                                \/ m <= Len(out) /\ EncodedLen * m <= Written
      BY <1>5, Taking DEF WriteInv
    <2>2. queued' \in 0..window /\ Written \in Nat /\ Total \in Nat
      BY <1>5, WrittenFits DEF WriteCall, WriteInv
    <2>3. WriteTypeOK'
      BY <1>1, <1>5, <2>1, <2>2 DEF WriteCall, WriteInv, WriteTypeOK, fixed
    <2>4. Numbered'
      BY <1>1, <1>5 DEF WriteCall, WriteInv, Numbered, Handed, Encoded, fixed
    <2>5. GivenInOrder'
      <3> SUFFICES ASSUME NEW m \in Message, NEW n \in Message, m < n, given'[n] > 0
                   PROVE  given'[m] > 0
        BY DEF GivenInOrder
      <3>1. CASE given[n] > 0
        BY <2>1, <3>1 DEF WriteInv, GivenInOrder
      <3>2. CASE n <= Len(out) /\ EncodedLen * n <= Written
        <4>1. EncodedLen * m \in Nat /\ EncodedLen * n \in Nat /\ EncodedLen * m <= EncodedLen * n
          BY Multiples DEF Message
        <4>2. EncodedLen * m <= Written
          <5>1. PICK x \in Nat, y \in Nat, z \in Nat :
                  x = EncodedLen * m /\ y = EncodedLen * n /\ z = Written
            BY <2>2, <4>1
          <5>2. x <= y /\ y <= z
            BY <3>2, <4>1, <5>1, Zenon
          <5>3. x <= z
            BY <5>2
          <5> QED BY <5>1, <5>3, Zenon
        <4>3. m \in 1..Len(out)
          <5>1. m \in Nat \ {0} /\ n \in Nat /\ Len(out) \in Nat
            BY <1>1 DEF Message
          <5> QED BY <3>2, <5>1
        <4> QED BY <2>1, <4>2, <4>3
      <3> QED BY <2>1, <3>1, <3>2
    <2>6. Written = Total => AllGiven'
      <3> SUFFICES ASSUME Written = Total, NEW i \in 1..Len(out)
                   PROVE  given'[i] > 0
        BY <1>5 DEF AllGiven, WriteCall
      <3>1. EncodedLen * i <= Total
        BY <1>1, Multiples DEF Total
      <3> QED BY <2>1, <3>1
    <2>7. Listening'
      <3>1. connection' = connection /\ at' \in {"write", "done"} /\ gone' = gone
        BY <1>5 DEF WriteCall, WriteInv, Listening
      <3>2. connection = "Connected" /\ (listeningOut \/ gone)
        BY <1>5 DEF WriteCall, WriteInv, Listening
      <3>3. CASE Written = Total
        BY <1>5, <2>2, <2>6, <3>1, <3>2, <3>3 DEF WriteCall, Listening
      <3>4. CASE Written < Total
        <4>1. listeningOut
          BY <1>5, <2>2, <3>2, <3>4 DEF WriteCall
        <4>2. listeningOut' = listeningOut
          BY <1>5, <2>2, <3>4 DEF WriteCall
        <4> QED BY <3>1, <3>2, <4>1, <4>2 DEF Listening
      <3> QED BY <1>5, <2>2, <3>3, <3>4 DEF WriteCall
    <2> QED BY <2>3, <2>4, <2>5, <2>7 DEF WriteInv
  <1>6. CASE RunDones
    <2>1. CASE byClient
      <3>1. done' = done \o pending /\ pending' = << >>
        BY <1>6, <2>1 DEF RunDones
      <3>2. /\ done' \in Seq(Message) /\ Len(done') = Len(done) + Len(pending)
            /\ \A i \in 1..Len(done') :
                 done'[i] = IF i <= Len(done) THEN done[i] ELSE pending[i - Len(done)]
        BY <1>1, <3>1, ConcatProperties
      <3>3. WriteTypeOK'
        BY <1>6, <3>1, <3>2 DEF RunDones, WriteInv, WriteTypeOK, fixed
      <3>4. Numbered'
        <4>1. /\ Encoded = Len(pending) /\ Encoded' = 0 /\ Len(pending') = 0
              /\ out' = out /\ byClient' /\ Handed = Len(out) /\ Handed' = Len(out)
          BY <1>1, <1>6, <2>1, <3>1 DEF RunDones, Handed, Encoded, fixed
        <4>2. /\ \A i \in 1..Len(out) : out[i] = i
              /\ \A i \in 1..Len(pending) : pending[i] = Len(out) - Len(pending) + i
              /\ Len(done) = Len(out) - Len(pending) /\ Handed <= MaxMessages
              /\ \A i \in 1..Len(done) : done[i] = i
          BY <1>1, <2>1, <4>1 DEF WriteInv, Numbered
        <4>3. \A i \in 1..Len(done') : done'[i] = i
          BY <1>1, <3>2, <4>2
        <4> QED BY <1>1, <3>2, <4>1, <4>2, <4>3 DEF Numbered
      <3> QED BY <1>6, <3>1, <3>3, <3>4
              DEF RunDones, WriteInv, GivenInOrder, Listening, AllGiven
    <2>2. CASE ~ byClient
      <3>1. WriteTypeOK' /\ Numbered'
        BY <1>1, <1>6, <2>2
           DEF RunDones, WriteInv, WriteTypeOK, Numbered, Handed, Encoded, fixed
      <3>2. pending' = << >>
        BY <1>6, <2>2 DEF RunDones, WriteInv, Numbered
      <3> QED BY <1>6, <3>1, <3>2
              DEF RunDones, WriteInv, GivenInOrder, Listening, AllGiven
    <2> QED BY <2>1, <2>2
  <1>7. CASE Clear
    BY <1>1, <1>7 DEF Clear, WriteInv, WriteTypeOK, Numbered, Handed, Encoded, GivenInOrder,
       Listening, AllGiven, fixed
  <1>8. ASSUME NEW n \in 1..window, Drain(n)
        PROVE  WriteInv'
    <2>1. queued' \in 0..window
      BY <1>1, <1>8 DEF Drain
    <2> QED BY <1>1, <1>8, <2>1 DEF Drain, WriteInv, WriteTypeOK, Numbered, Handed, Encoded,
               GivenInOrder, Listening, AllGiven, fixed
  <1>9. CASE UNCHANGED writeVars
    BY <1>9 DEF writeVars, WriteInv, WriteTypeOK, Numbered, Handed, Encoded, GivenInOrder,
       Listening, AllGiven, fixed
  <1>10. CASE WriteFails
    <2>1. Numbered'
      <3>1. Encoded' = Encoded /\ Handed' = Handed
        BY <1>10 DEF WriteFails, Encoded, Handed
      <3> QED BY <1>10, <3>1 DEF WriteFails, WriteInv, Numbered, fixed
    <2>2. WriteTypeOK'
      BY <1>10 DEF WriteFails, WriteInv, WriteTypeOK, fixed
    <2>3. GivenInOrder' /\ Listening'
      BY <1>10 DEF WriteFails, WriteInv, GivenInOrder, Listening, AllGiven
    <2> QED BY <2>1, <2>2, <2>3 DEF WriteInv
  <1>11. CASE Reset
    BY <1>11 DEF Reset, WriteInv, WriteTypeOK, Numbered, Handed, Encoded, GivenInOrder,
       Listening, AllGiven, fixed
  <1> QED BY <1>2, <1>3, <1>4, <1>5, <1>6, <1>7, <1>8, <1>9, <1>10, <1>11
         DEF WriteNext, WriteLoop

LEMMA WriteInvariant == WriteSpec => []WriteInv
  BY WriteInvInit, WriteInvStep, PTL DEF WriteSpec

\* Type correctness of the sending side: the byte counts of onWrite's write()
\* never exceed what the socket holds.
THEOREM WriteTyping == WriteSpec => []WriteTypeOK
  <1>1. WriteInv => WriteTypeOK
    BY DEF WriteInv
  <1> QED BY <1>1, WriteInvariant, PTL

\* No message is stranded: while one is not encoded or not given to the socket,
\* EPOLLOUT is registered or onWrite is at work, for every size of the send
\* buffer and of the frames.
THEOREM MessagesNotStranded == WriteSpec => []NothingStranded
  <1>1. WriteInv => NothingStranded
    BY DEF WriteInv, Numbered, Listening, AllGiven, NothingStranded
  <1> QED BY <1>1, WriteInvariant, PTL

\* Messages go to the socket in the order they were handed over, and their done
\* callbacks run once each in that order.
THEOREM MessagesInOrder == WriteSpec => []InOrder
  <1>1. WriteInv => InOrder
    <2> SUFFICES ASSUME WriteInv PROVE InOrder
      OBVIOUS
    <2>1. done \in Seq(Message) /\ \A i \in 1..Len(done) : done[i] = i
      BY DEF WriteInv, WriteTypeOK, Numbered
    <2>2. done = [i \in 1..Len(done) |-> i]
      BY <2>1
    <2> QED BY <2>2 DEF WriteInv, GivenInOrder, InOrder
  <1> QED BY <1>1, WriteInvariant, PTL
=============================================================================
