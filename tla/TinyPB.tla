------------------------------- MODULE TinyPB --------------------------------
(***************************************************************************)
(* net/coder/tinypb_coder.cc at the level of bytes: encodeTinyPB, and the  *)
(* loop of decode on a TcpBuffer.  A string is a sequence of bytes.  Bytes *)
(* are below 128, as text and short lengths are: no length is negative.    *)
(***************************************************************************)
EXTENDS TcpBuffer

\* What encodeTinyPB sends for an empty id: "123456789".
DefaultMsgId == <<49, 50, 51, 52, 53, 54, 55, 56, 57>>

\* htonl, and getInt32FromNetByte of the four cells from 0-based index i on.
Int32ToNet(n) == <<n \div 16777216, (n \div 65536) % 256, (n \div 256) % 256, n % 256>>

Int32FromNet(cells, i) ==
    16777216 * cells[i + 1] + 65536 * cells[i + 2] + 256 * cells[i + 3] + cells[i + 4]

MsgId(m) == IF m.msg_id = << >> THEN DefaultMsgId ELSE m.msg_id

\* encodeTinyPB fills in an empty id in the message itself.
WithId(m) == [m EXCEPT !.msg_id = MsgId(m)]

PkLen(m) ==
    2 + 24 + Len(MsgId(m)) + Len(m.method_name) + Len(m.err_info) + Len(m.pb_data)

encodeTinyPB(m) ==
    <<PB_START>> \o Int32ToNet(PkLen(m))
    \o Int32ToNet(Len(MsgId(m))) \o MsgId(m)
    \o Int32ToNet(Len(m.method_name)) \o m.method_name
    \o Int32ToNet(m.err_code)
    \o Int32ToNet(Len(m.err_info)) \o m.err_info
    \o m.pb_data
    \o Int32ToNet(1)                                \* the check sum
    \o <<PB_END>>

\* The bytes of cells from 0-based index i on, n of them.
Bytes(cells, i, n) == SubSeq(cells, i + 1, i + n)

\* The 0-based indices at which the scan accepts a frame.  The length is read
\* as soon as its first byte has arrived; the other three are then cells of
\* the vector.  Where the last byte would lie before the vector (j = -1) the
\* code reads outside of it, and is taken to find no PB_END there.
AcceptedAt(b) ==
    {i \in b.r .. b.w - 1 :
       /\ b.cells[i + 1] = PB_START
       /\ i + 1 < b.w
       /\ LET j == i + Int32FromNet(b.cells, i + 1) - 1
          IN  j < b.w /\ j >= 0 /\ b.cells[j + 1] = PB_END}

\* What is cut out of a frame that begins at index i and ends at index e.  Each
\* length is trusted once its index is seen to be inside the frame.
FieldsOf(cells, i, pk_len) ==
    LET e           == i + pk_len - 1
        idLenAt     == i + 1 + 4
        idLen       == Int32FromNet(cells, idLenAt)
        methodLenAt == idLenAt + 4 + idLen
        methodLen   == Int32FromNet(cells, methodLenAt)
        codeAt      == methodLenAt + 4 + methodLen
        infoLenAt   == codeAt + 4
        infoLen     == Int32FromNet(cells, infoLenAt)
        infoAt      == infoLenAt + 4
    IN  IF idLenAt >= e \/ methodLenAt >= e \/ codeAt >= e \/ infoLenAt >= e
        THEN << >>
        ELSE << [msg_id      |-> Bytes(cells, idLenAt + 4, idLen),
                 method_name |-> Bytes(cells, methodLenAt + 4, methodLen),
                 err_code    |-> Int32FromNet(cells, codeAt),
                 err_info    |-> Bytes(cells, infoAt, infoLen),
                 pb_data     |-> Bytes(cells, infoAt + infoLen,
                                       pk_len - methodLen - idLen - infoLen - 2 - 24)] >>

\* Mutant of Round: the read index moves past one byte too few.
RoundShort(d) ==
    IF AcceptedAt(d.buf) = {} THEN d
    ELSE LET i      == CHOOSE k \in AcceptedAt(d.buf) : \A l \in AcceptedAt(d.buf) : k <= l
             pk_len == Int32FromNet(d.buf.cells, i + 1)
         IN  [buf |-> IF pk_len = 0 THEN d.buf ELSE At(d.buf, d.buf.r + pk_len - 1, d.buf.w),
              out |-> d.out \o FieldsOf(d.buf.cells, i, pk_len)]

\* One round of decode's loop on a decoder d: the first frame is taken.
Round(d) ==
    IF AcceptedAt(d.buf) = {} THEN d
    ELSE LET i      == CHOOSE k \in AcceptedAt(d.buf) : \A l \in AcceptedAt(d.buf) : k <= l
             pk_len == Int32FromNet(d.buf.cells, i + 1)
         IN  [buf |-> MoveReadIndex(d.buf, pk_len),
              out |-> d.out \o FieldsOf(d.buf.cells, i, pk_len)]

\* decode after n rounds.
decode(b, n) ==
    LET after[k \in 0..n] ==
          IF k = 0 THEN [buf |-> b, out |-> << >>] ELSE Round(after[k - 1])
    IN  after[n]

\* A round that finds a frame and leaves everything as it was: the loop never
\* ends.
Spins(d) == AcceptedAt(d.buf) # {} /\ Round(d) = d
=============================================================================
