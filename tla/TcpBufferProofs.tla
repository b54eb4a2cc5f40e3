--------------------------- MODULE TcpBufferProofs ---------------------------
(***************************************************************************)
(* What the operations of TcpBuffer do, for buffers and inputs of every    *)
(* size; and StreamKept, for every sequence of calls on a TcpBuffer.       *)
(***************************************************************************)
EXTENDS TcpBufferOps, TinyPB, SequenceTheorems, TLAPS

-----------------------------------------------------------------------------
(* The operations. *)

(* The fields of a buffer, and what a record needs to be one. *)
LEMMA Fields ==
    ASSUME NEW b \in Buffer
    PROVE  /\ b = [cells |-> b.cells, r |-> b.r, w |-> b.w]
           /\ b.cells \in Seq(Byte \cup {NoByte})
           /\ Size(b) \in Nat /\ DOMAIN b.cells = 1..Size(b)
           /\ b.r \in Nat /\ b.w \in Nat
           /\ b.r <= b.w /\ b.w <= Size(b)
           /\ ReadAble(b) \in Nat
           /\ Content(b) \in Seq(Byte)
           /\ Len(Content(b)) = ReadAble(b)
           /\ \A i \in 1..ReadAble(b) : Content(b)[i] = b.cells[b.r + i]
  <1>1. b.r \in Nat /\ b.w \in Nat /\ b.r <= b.w /\ b.w <= Size(b)
    BY DEF Buffer
  <1>2. b.cells \in Seq(Byte \cup {NoByte})
    BY DEF Buffer
  <1>3. ReadAble(b) \in Nat
    BY <1>1 DEF ReadAble
  <1>4. Content(b) \in Seq(Byte)
    BY DEF Buffer
  <1>5. Len(Content(b)) = ReadAble(b)
    BY <1>3, <1>4 DEF Content
  <1>6. \A i \in 1..ReadAble(b) : Content(b)[i] = b.cells[b.r + i]
    BY DEF Content
  <1>7. Size(b) \in Nat /\ DOMAIN b.cells = 1..Size(b)
    BY <1>2 DEF Size
  <1>8. b = [cells |-> b.cells, r |-> b.r, w |-> b.w]
    BY DEF Buffer
  <1> QED BY <1>1, <1>2, <1>3, <1>4, <1>5, <1>6, <1>7, <1>8

LEMMA Made ==
    ASSUME NEW b,
           NEW cells \in Seq(Byte \cup {NoByte}), NEW r \in Nat, NEW w \in Nat,
           b = [cells |-> cells, r |-> r, w |-> w],
           r <= w, w <= Len(cells),
           NEW s \in Seq(Byte), Len(s) = w - r,
           \A i \in 1..(w - r) : cells[r + i] = s[i]
    PROVE  b \in Buffer /\ Content(b) = s /\ Size(b) = Len(cells)
  <1>1. b.cells = cells /\ b.r = r /\ b.w = w /\ Size(b) = Len(cells)
    BY DEF Size
  <1>2. Content(b) = [i \in 1..(w - r) |-> cells[r + i]]
    BY <1>1 DEF Content, ReadAble
  <1>3. Content(b) = s
    <2>1. DOMAIN s = 1..(w - r) /\ s = [i \in 1..(w - r) |-> s[i]]
      BY LenProperties
    <2> QED BY <1>2, <2>1
  <1>4. b \in [cells : Seq(Byte \cup {NoByte}), r : Nat, w : Nat]
    OBVIOUS
  <1> QED BY <1>1, <1>3, <1>4 DEF Buffer

(* A new buffer has nothing to read. *)
LEMMA NewBufferEmpty ==
    ASSUME NEW n \in Nat
    PROVE  LET b == NewBuffer(n)
           IN  b \in Buffer /\ Content(b) = << >> /\ Size(b) = n
  <1> DEFINE cs == [i \in 1..n |-> NoByte]
             z == 0
             e == << >>
  <1>1. \A i \in 1..(z - z) : cs[z + i] = e[i]
    OBVIOUS
  <1>2. z \in Nat /\ z <= z /\ z <= Len(cs) /\ Len(cs) = n
    OBVIOUS
  <1>3. e \in Seq(Byte) /\ Len(e) = z - z
    BY EmptySeq
  <1>4. NewBuffer(n) = [cells |-> cs, r |-> z, w |-> z]
    BY DEF NewBuffer
  <1>5. cs \in Seq(Byte \cup {NoByte})
    OBVIOUS
  <1> HIDE DEF cs, z, e
  <1>6. LET b == [cells |-> cs, r |-> z, w |-> z]
        IN  b \in Buffer /\ Content(b) = e /\ Size(b) = Len(cs)
    BY <1>1, <1>2, <1>3, <1>5, Made
  <1> QED BY <1>2, <1>4, <1>6 DEF e

(* resizeBuffer keeps the readable bytes if they fit. *)
LEMMA ResizeKeeps ==
    ASSUME NEW b \in Buffer, NEW n \in Nat, n >= ReadAble(b)
    PROVE  LET c == ResizeBuffer(b, n)
           IN  /\ c \in Buffer /\ Content(c) = Content(b)
               /\ Size(c) = n /\ c.r = 0 /\ c.w = ReadAble(b)
  <1> DEFINE k  == ReadAble(b)
             cs == [i \in 1..n |-> IF i <= k THEN b.cells[b.r + i] ELSE NoByte]
  <1>1. k \in Nat /\ Least(n, k) = k
    BY Fields DEF Least
  <1>2. ResizeBuffer(b, n) = [cells |-> cs, r |-> 0, w |-> k]
    BY <1>1 DEF ResizeBuffer
  <1>3. cs \in Seq(Byte \cup {NoByte}) /\ Len(cs) = n
    <2>1. \A i \in 1..n : cs[i] \in Byte \cup {NoByte}
      <3> SUFFICES ASSUME NEW i \in 1..n, i <= k
                   PROVE  b.cells[b.r + i] \in Byte \cup {NoByte}
        OBVIOUS
      <3>1. b.r + i \in 1..Size(b)
        BY Fields DEF ReadAble
      <3> QED BY <3>1, Fields, ElementOfSeq DEF Size
    <2> QED BY <2>1, IsASeq
  <1>4. \A i \in 1..(k - 0) : cs[0 + i] = Content(b)[i]
    BY <1>1, Fields
  <1>5. Content(b) \in Seq(Byte) /\ Len(Content(b)) = k - 0
    BY <1>1, Fields
  <1> HIDE DEF cs
  <1>6. LET c == [cells |-> cs, r |-> 0, w |-> k]
        IN  c \in Buffer /\ Content(c) = Content(b) /\ Size(c) = n
    BY <1>1, <1>3, <1>4, <1>5, Made
  <1> QED BY <1>2, <1>6

(* adjustBuffer changes neither the readable bytes nor the size, and the      *)
(* write index only moves down.                                             *)
LEMMA AdjustKeeps ==
    ASSUME NEW b \in Buffer
    PROVE  LET c == AdjustBuffer(b)
           IN  /\ c \in Buffer /\ Content(c) = Content(b)
               /\ Size(c) = Size(b) /\ c.w <= b.w
  <1>1. Size(b) \in Nat /\ Size(b) >= ReadAble(b) /\ ReadAble(b) <= b.w /\ b.w <= b.w
    BY Fields DEF ReadAble
  <1>2. LET d == ResizeBuffer(b, Size(b))
        IN  /\ d \in Buffer /\ Content(d) = Content(b)
            /\ Size(d) = Size(b) /\ d.w = ReadAble(b)
    BY <1>1, ResizeKeeps
  <1> QED BY <1>1, <1>2 DEF AdjustBuffer

(* Bytes stored behind the readable ones and then counted are appended. *)
LEMMA StoreAppends ==
    ASSUME NEW b \in Buffer, NEW s \in Seq(Byte), Len(s) <= WriteAble(b)
    PROVE  LET c == At(Store(b, s), b.r, b.w + Len(s))
           IN  c \in Buffer /\ Content(c) = Content(b) \o s /\ Size(c) = Size(b)
  <1> DEFINE n  == Len(s)
             cs == [i \in 1..Size(b) |-> IF i \in (b.w + 1)..(b.w + n)
                                         THEN s[i - b.w] ELSE b.cells[i]]
             t  == Content(b) \o s
  <1>0. /\ Size(b) \in Nat /\ b.r \in Nat /\ b.w \in Nat /\ b.r <= b.w
        /\ ReadAble(b) \in Nat /\ ReadAble(b) = b.w - b.r
    BY Fields DEF ReadAble
  <1>1. n \in Nat /\ b.w + n <= Size(b) /\ b.w + n \in Nat /\ b.r <= b.w + n
    BY Fields DEF WriteAble
  <1>2. At(Store(b, s), b.r, b.w + n) = [cells |-> cs, r |-> b.r, w |-> b.w + n]
    BY DEF Store, At
  <1>3. cs \in Seq(Byte \cup {NoByte}) /\ Len(cs) = Size(b)
    <2>1. \A i \in 1..Size(b) : cs[i] \in Byte \cup {NoByte}
      <3> TAKE i \in 1..Size(b)
      <3>1. CASE i \in (b.w + 1)..(b.w + n)
        <4>1. i - b.w \in 1..n
          BY <3>1, <1>1, Fields
        <4> QED BY <4>1, <3>1, ElementOfSeq
      <3>2. CASE i \notin (b.w + 1)..(b.w + n)
        BY <3>2, Fields, ElementOfSeq DEF Size
      <3> QED BY <3>1, <3>2
    <2>2. cs \in Seq(Byte \cup {NoByte})
      <3> HIDE DEF cs
      <3> QED BY <2>1, <1>0, IsASeq DEF cs
    <2>3. Len(cs) = Size(b)
      BY <1>0
    <2> QED BY <2>2, <2>3
  <1>4. t \in Seq(Byte) /\ Len(t) = (b.w + n) - b.r
    BY <1>1, Fields, ConcatProperties DEF ReadAble
  <1>5. \A i \in 1..((b.w + n) - b.r) : cs[b.r + i] = t[i]
    <2> TAKE i \in 1..((b.w + n) - b.r)
    <2>0. b.r + i \in 1..Size(b)
      BY <1>1, Fields
    <2>1. CASE i <= ReadAble(b)
      <3>1. t[i] = b.cells[b.r + i]
        BY <2>1, Fields, ConcatProperties
      <3>2. b.r + i \notin (b.w + 1)..(b.w + n)
        BY <2>1, Fields DEF ReadAble
      <3> QED BY <2>0, <3>1, <3>2
    <2>2. CASE ~ (i <= ReadAble(b))
      <3>1. t[i] = s[i - ReadAble(b)]
        <4>1. i \in 1..(ReadAble(b) + n)
          BY <1>0, <1>1
        <4> QED BY <2>2, <4>1, Fields, ConcatProperties
      <3>2. b.r + i \in (b.w + 1)..(b.w + n) /\ (b.r + i) - b.w = i - ReadAble(b)
        BY <2>2, <1>0, <1>1
      <3> QED BY <2>0, <3>1, <3>2
    <2> QED BY <2>1, <2>2
  <1> HIDE DEF cs, t, n
  <1>6. LET c == [cells |-> cs, r |-> b.r, w |-> b.w + n]
        IN  c \in Buffer /\ Content(c) = t /\ Size(c) = Len(cs)
    <2> DEFINE r == b.r
               w == b.w + n
    <2>1. /\ r \in Nat /\ w \in Nat /\ r <= w /\ w <= Len(cs)
          /\ Len(t) = w - r /\ t \in Seq(Byte)
          /\ cs \in Seq(Byte \cup {NoByte})
      BY <1>0, <1>1, <1>3, <1>4
    <2>2. \A i \in 1..(w - r) : cs[r + i] = t[i]
      BY <1>5
    <2> HIDE DEF r, w
    <2>3. LET c == [cells |-> cs, r |-> r, w |-> w]
          IN  c \in Buffer /\ Content(c) = t /\ Size(c) = Len(cs)
      BY <2>1, <2>2, Made
    <2> QED BY <2>3 DEF r, w
  <1> QED BY <1>2, <1>3, <1>6 DEF t, n

(* What is left of a sequence of bytes when its first n are cut off. *)
LEMMA TailSeq ==
    ASSUME NEW f \in Seq(Byte), NEW n \in Nat, n <= Len(f)
    PROVE  /\ SubSeq(f, n + 1, Len(f)) \in Seq(Byte)
           /\ Len(SubSeq(f, n + 1, Len(f))) = Len(f) - n
           /\ \A i \in 1..(Len(f) - n) : SubSeq(f, n + 1, Len(f))[i] = f[n + i]
  <1>1. PICK l \in Nat : l = Len(f)
    OBVIOUS
  <1>2. \A i \in (n + 1)..l : f[i] \in Byte
    BY <1>1, ElementOfSeq
  <1>3. /\ SubSeq(f, n + 1, l) \in Seq(Byte) /\ Len(SubSeq(f, n + 1, l)) = l - n
        /\ \A i \in 1..(l - n) : SubSeq(f, n + 1, l)[i] = f[n + i]
    BY <1>1, <1>2, SubSeqProperties
  <1> QED BY <1>1, <1>3

(* Bytes the read index moves over are the first readable ones. *)
LEMMA SkipTakes ==
    ASSUME NEW b \in Buffer, NEW n \in Nat, n <= ReadAble(b)
    PROVE  LET c == At(b, b.r + n, b.w)
           IN  /\ c \in Buffer /\ Size(c) = Size(b)
               /\ SubSeq(Content(b), 1, n) \o Content(c) = Content(b)
  <1> DEFINE k == ReadAble(b)
             t == SubSeq(Content(b), n + 1, k)
  <1>1. k \in Nat /\ k = b.w - b.r /\ b.r + n \in Nat /\ b.r + n <= b.w
    BY Fields DEF ReadAble
  <1>2. At(b, b.r + n, b.w) = [cells |-> b.cells, r |-> b.r + n, w |-> b.w]
    BY DEF At
  <1>3. /\ t \in Seq(Byte) /\ Len(t) = b.w - (b.r + n)
        /\ \A i \in 1..(k - n) : t[i] = Content(b)[n + i]
    <2>1. Content(b) \in Seq(Byte) /\ Len(Content(b)) = k /\ n <= Len(Content(b))
      BY Fields
    <2>2. n \in Nat /\ k - n = b.w - (b.r + n)
      BY <1>1, Fields
    <2> QED BY <2>1, <2>2, TailSeq
  <1>4. \A i \in 1..(b.w - (b.r + n)) : b.cells[(b.r + n) + i] = t[i]
    <2> TAKE i \in 1..(b.w - (b.r + n))
    <2>1. i \in 1..(k - n) /\ n + i \in 1..k /\ b.r + (n + i) = (b.r + n) + i
      BY <1>1, Fields
    <2> QED BY <2>1, <1>3, Fields
  <1> HIDE DEF t
  <1>5. LET c == [cells |-> b.cells, r |-> b.r + n, w |-> b.w]
        IN  c \in Buffer /\ Content(c) = t /\ Size(c) = Len(b.cells)
    <2> DEFINE cs == b.cells
               r  == b.r + n
               w  == b.w
    <2>1. cs \in Seq(Byte \cup {NoByte}) /\ w \in Nat /\ w <= Len(cs)
      BY Fields DEF Size
    <2>2. r \in Nat /\ r <= w /\ Len(t) = w - r /\ t \in Seq(Byte)
      BY <1>1, <1>3
    <2>3. \A i \in 1..(w - r) : cs[r + i] = t[i]
      BY <1>4
    <2> HIDE DEF cs, r, w
    <2>4. LET c == [cells |-> cs, r |-> r, w |-> w]
          IN  c \in Buffer /\ Content(c) = t /\ Size(c) = Len(cs)
      BY <2>1, <2>2, <2>3, Made
    <2> QED BY <2>4 DEF cs, r, w
  <1>6. SubSeq(Content(b), 1, n) \o t = Content(b)
    <2> DEFINE f == Content(b)
    <2>0. f \in Seq(Byte) /\ Len(f) = k
      BY Fields
    <2> HIDE DEF f
    <2>1. /\ SubSeq(f, 1, n) \in Seq(Byte) /\ Len(SubSeq(f, 1, n)) = n
          /\ \A i \in 1..n : SubSeq(f, 1, n)[i] = f[i]
      BY <1>1, <2>0, SubSeqProperties
    <2>2. t \in Seq(Byte) /\ Len(t) = k - n /\ \A i \in 1..(k - n) : t[i] = f[n + i]
      <3>1. b.w - (b.r + n) = k - n
        BY <1>1, Fields
      <3> QED BY <3>1, <1>3 DEF f
    <2> DEFINE g == SubSeq(f, 1, n)
    <2>9. k \in Nat /\ n <= k
      BY <1>1
    <2> HIDE DEF g, k
    <2>3. g \in Seq(Byte) /\ Len(g) = n /\ \A i \in 1..n : g[i] = f[i]
      BY <2>1 DEF g
    <2>4. g \o t \in Seq(Byte) /\ Len(g \o t) = k
      <3>1. Len(g) + Len(t) = k
        BY <2>2, <2>3, <2>9
      <3> QED BY <2>2, <2>3, <3>1, ConcatProperties
    <2>5. ASSUME NEW i \in 1..k PROVE (g \o t)[i] = f[i]
      <3>1. i \in 1..(Len(g) + Len(t))
        BY <2>2, <2>3, <2>9
      <3>2. (g \o t)[i] = IF i <= n THEN g[i] ELSE t[i - n]
        BY <2>2, <2>3, <3>1, ConcatProperties
      <3>3. CASE i <= n
        BY <3>2, <3>3, <2>3
      <3>4. CASE ~ (i <= n)
        <4>1. i - n \in 1..(k - n) /\ n + (i - n) = i
          BY <3>4, <2>9
        <4> QED BY <3>2, <3>4, <4>1, <2>2
      <3> QED BY <3>3, <3>4
    <2>6. g \o t = f
      BY <2>0, <2>4, <2>5, SeqEqual
    <2> QED BY <2>6 DEF f, g
  <1> QED BY <1>2, <1>5, <1>6 DEF Size

(* Bytes stored behind the readable ones and not counted are not there. *)
LEMMA StoreKeeps ==
    ASSUME NEW b \in Buffer, NEW s \in Seq(Byte), Len(s) <= WriteAble(b)
    PROVE  LET c == Store(b, s)
           IN  /\ c \in Buffer /\ Content(c) = Content(b)
               /\ Size(c) = Size(b) /\ c.r = b.r /\ c.w = b.w
  <1> DEFINE d  == At(Store(b, s), b.r, b.w + Len(s))
             cs == Store(b, s).cells
             r  == b.r
             w  == b.w
             t  == Content(b)
  <1>1. Store(b, s) = [cells |-> cs, r |-> r, w |-> w]
    BY DEF Store
  <1>2. cs \in Seq(Byte \cup {NoByte}) /\ Len(cs) = Size(b)
    <2>1. d \in Buffer /\ Size(d) = Size(b)
      BY StoreAppends
    <2>2. d.cells = cs
      BY DEF At
    <2> HIDE DEF d, cs
    <2> QED BY <2>1, <2>2, Fields DEF Size
  <1>3. /\ r \in Nat /\ w \in Nat /\ r <= w /\ w <= Size(b) /\ Size(b) \in Nat
        /\ t \in Seq(Byte) /\ Len(t) = w - r
    BY Fields DEF ReadAble
  <1>4. \A i \in 1..(w - r) : cs[r + i] = t[i]
    <2> TAKE i \in 1..(w - r)
    <2>1. b.r + i \in 1..Size(b) /\ b.r + i \notin (b.w + 1)..(b.w + Len(s))
      BY <1>3
    <2>2. cs[b.r + i] = b.cells[b.r + i]
      BY <2>1 DEF Store
    <2>3. i \in 1..ReadAble(b)
      BY DEF ReadAble
    <2> QED BY <2>2, <2>3, Fields
  <1>5. Store(b, s).r = r /\ Store(b, s).w = w
    BY DEF Store
  <1> HIDE DEF d, cs, r, w, t
  <1>6. LET c == [cells |-> cs, r |-> r, w |-> w]
        IN  c \in Buffer /\ Content(c) = t /\ Size(c) = Len(cs)
    <2>1. cs \in Seq(Byte \cup {NoByte}) /\ w <= Len(cs)
      BY <1>2, <1>3
    <2>2. r \in Nat /\ w \in Nat /\ r <= w /\ t \in Seq(Byte) /\ Len(t) = w - r
      BY <1>3
    <2> QED BY <2>1, <2>2, <1>4, Made
  <1> QED BY <1>1, <1>2, <1>5, <1>6 DEF r, w, t

-----------------------------------------------------------------------------

(* writeToBuffer appends its bytes to what can be read, growing the buffer  *)
(* when they do not fit.                                                    *)
THEOREM WriteAppends ==
    ASSUME NEW b \in Buffer, NEW s \in Seq(Byte)
    PROVE  /\ WriteToBuffer(b, s) \in Buffer
           /\ Content(WriteToBuffer(b, s)) = Content(b) \o s
  <1> DEFINE n == Len(s)
             c == Grow(b, n)
  <1>1. c \in Buffer /\ Content(c) = Content(b) /\ n <= WriteAble(c)
    <2>1. n \in Nat /\ b.r \in Nat /\ b.w \in Nat /\ b.r <= b.w /\ b.w <= Size(b)
      BY Fields
    <2>2. CASE n > WriteAble(b)
      <3> DEFINE m == (3 * (b.w + n)) \div 2
      <3>1. m \in Nat /\ m >= ReadAble(b) + n
        BY <2>1 DEF ReadAble
      <3>2. m >= ReadAble(b)
        BY <2>1, <3>1 DEF ReadAble
      <3> HIDE DEF m
      <3>3. LET d == ResizeBuffer(b, m)
            IN  /\ d \in Buffer /\ Content(d) = Content(b)
                /\ Size(d) = m /\ d.w = ReadAble(b)
        BY <3>1, <3>2, ResizeKeeps
      <3>4. n <= WriteAble(ResizeBuffer(b, m))
        BY <3>1, <3>3, <2>1, Fields DEF WriteAble
      <3>5. c = ResizeBuffer(b, m)
        BY <2>2 DEF Grow, m
      <3> QED BY <3>3, <3>4, <3>5
    <2>3. CASE ~ (n > WriteAble(b))
      <3>1. c = b
        BY <2>3 DEF Grow
      <3>2. n <= WriteAble(b)
        BY <2>1, <2>3, Fields DEF WriteAble
      <3> QED BY <3>1, <3>2
    <2> QED BY <2>2, <2>3
  <1>2. WriteToBuffer(b, s) = At(Store(c, s), c.r, c.w + Len(s))
    BY DEF WriteToBuffer
  <1> HIDE DEF c
  <1> QED BY <1>1, <1>2, StoreAppends

(* readFromBuffer takes the oldest bytes and leaves the others. *)
THEOREM ReadTakesOldest ==
    ASSUME NEW b \in Buffer, NEW n \in Nat
    PROVE  /\ ReadFromBuffer(b, n) \in Buffer
           /\ SubSeq(Content(b), 1, Taken(b, n)) \o Content(ReadFromBuffer(b, n))
                = Content(b)
  <1>1. Taken(b, n) \in Nat /\ Taken(b, n) <= ReadAble(b)
    BY Fields DEF Taken, Least
  <1>2. CASE ReadAble(b) = 0
    <2>1. ReadFromBuffer(b, n) = b /\ Taken(b, n) = 0
      BY <1>1, <1>2, Fields DEF ReadFromBuffer
    <2>2. SubSeq(Content(b), 1, 0) = << >>
      BY SubSeqEmpty
    <2> QED BY <2>1, <2>2, Fields, ConcatEmptySeq
  <1>3. CASE ReadAble(b) # 0
    <2> DEFINE k == Taken(b, n)
               c == At(b, b.r + k, b.w)
    <2>1. c \in Buffer /\ SubSeq(Content(b), 1, k) \o Content(c) = Content(b)
      BY <1>1, SkipTakes
    <2>2. ReadFromBuffer(b, n) = AdjustBuffer(c)
      BY <1>3 DEF ReadFromBuffer
    <2> HIDE DEF c
    <2> QED BY <2>1, <2>2, AdjustKeeps
  <1> QED BY <1>2, <1>3

(* moveReadIndex takes the bytes it skips, if it is not refused. *)
LEMMA MoveReadTakes ==
    ASSUME NEW b \in Buffer, NEW n \in Nat, n <= ReadAble(b)
    PROVE  LET c == MoveReadIndex(b, n)
           IN  /\ c \in Buffer /\ Size(c) = Size(b) /\ c.w <= b.w
               /\ ~ MoveReadRefused(b, n)
                    => SubSeq(Content(b), 1, n) \o Content(c) = Content(b)
  <1> DEFINE d == At(b, b.r + n, b.w)
  <1>1. /\ d \in Buffer /\ Size(d) = Size(b)
        /\ SubSeq(Content(b), 1, n) \o Content(d) = Content(b)
    BY SkipTakes
  <1>2. d.w = b.w /\ b.w <= b.w
    BY Fields DEF At
  <1>3. MoveReadIndex(b, n) = IF MoveReadRefused(b, n) THEN b ELSE AdjustBuffer(d)
    BY DEF MoveReadIndex
  <1> HIDE DEF d
  <1> QED BY <1>1, <1>2, <1>3, AdjustKeeps

(* read() and moveWriteIndex append the bytes read, if it is not refused,    *)
(* and never reach the last cell.                                            *)
LEMMA FillAppends ==
    ASSUME NEW b \in Buffer, NEW s \in Seq(Byte), Len(s) <= WriteAble(b)
    PROVE  LET c == MoveWriteIndex(Store(b, s), Len(s))
           IN  /\ c \in Buffer /\ Size(c) = Size(b)
               /\ b.w < Size(b) => c.w < Size(b)
               /\ ~ MoveWriteRefused(b, Len(s)) => Content(c) = Content(b) \o s
               /\ MoveWriteRefused(b, Len(s)) => Content(c) = Content(b)
  <1> DEFINE c == Store(b, s)
             d == At(c, c.r, c.w + Len(s))
             e == AdjustBuffer(d)
  <1>1. /\ c \in Buffer /\ Content(c) = Content(b)
        /\ Size(c) = Size(b) /\ c.r = b.r /\ c.w = b.w
    BY StoreKeeps
  <1>2. d \in Buffer /\ Content(d) = Content(b) \o s /\ Size(d) = Size(b)
    <2>1. d = At(c, b.r, b.w + Len(s))
      BY <1>1
    <2>2. LET f == At(c, b.r, b.w + Len(s))
          IN  f \in Buffer /\ Content(f) = Content(b) \o s /\ Size(f) = Size(b)
      BY StoreAppends
    <2> QED BY <2>1, <2>2
  <1>3. MoveWriteRefused(c, Len(s)) = MoveWriteRefused(b, Len(s))
    BY <1>1 DEF MoveWriteRefused
  <1>4. MoveWriteIndex(c, Len(s)) = IF MoveWriteRefused(c, Len(s)) THEN c ELSE e
    BY DEF MoveWriteIndex
  <1>5. d.w = b.w + Len(s)
    BY <1>1 DEF At
  <1> HIDE DEF c, d
  <1>6. e \in Buffer /\ Content(e) = Content(d) /\ Size(e) = Size(d) /\ e.w <= d.w
    BY <1>2, AdjustKeeps
  <1>7. CASE MoveWriteRefused(b, Len(s))
    BY <1>1, <1>3, <1>4, <1>7 DEF c
  <1>8. CASE ~ MoveWriteRefused(b, Len(s))
    <2>1. MoveWriteIndex(c, Len(s)) = e
      BY <1>3, <1>4, <1>8
    <2>2. e.w < Size(b)
      <3>1. b.w + Len(s) < Size(b)
        BY <1>8, Fields DEF MoveWriteRefused
      <3>2. e.w \in Nat
        BY <1>6, Fields
      <3> QED BY <3>1, <3>2, <1>5, <1>6, Fields
    <2> HIDE DEF e
    <2> QED BY <1>2, <1>6, <1>8, <2>1, <2>2 DEF c
  <1> QED BY <1>7, <1>8

-----------------------------------------------------------------------------
(* Sequences of calls. *)

\* The bytes 1 to n, in order.
Upto(n) == [i \in 1..n |-> i]

LEMMA UptoExtends ==
    ASSUME NEW n \in Nat, written \in Nat, written + n <= OpsBytes
    PROVE  /\ NextBytes(n) \in Seq(Byte) /\ Len(NextBytes(n)) = n
           /\ Upto(written) \o NextBytes(n) = Upto(written + n)
  <1> USE BufferOpsAssumption
  <1>1. NextBytes(n) \in Seq(Byte) /\ Len(NextBytes(n)) = n
    BY DEF NextBytes
  <1>2. Upto(written) \in Seq(Int) /\ Len(Upto(written)) = written
    BY DEF Upto
  <1>3. NextBytes(n) \in Seq(Int)
    BY DEF NextBytes
  <1>4. Upto(written + n) \in Seq(Int) /\ Len(Upto(written + n)) = written + n
    BY DEF Upto
  <1> DEFINE s == Upto(written) \o NextBytes(n)
  <1>5. s \in Seq(Int) /\ Len(s) = written + n
    BY <1>1, <1>2, <1>3, ConcatProperties
  <1>6. ASSUME NEW i \in 1..(written + n) PROVE s[i] = Upto(written + n)[i]
    <2>1. i \in 1..(Len(Upto(written)) + Len(NextBytes(n)))
      BY <1>1, <1>2
    <2>2. s[i] = IF i <= written THEN Upto(written)[i] ELSE NextBytes(n)[i - written]
      <3>1. PICK u \in Seq(Int), v \in Seq(Int) : u = Upto(written) /\ v = NextBytes(n)
        BY <1>2, <1>3
      <3>2. (u \o v)[i] = IF i <= Len(u) THEN u[i] ELSE v[i - Len(u)]
        BY <2>1, <3>1, ConcatProperties
      <3> QED BY <1>2, <3>1, <3>2 DEF s
    <2>3. Upto(written + n)[i] = i
      BY DEF Upto
    <2>4. CASE i <= written
      <3>1. Upto(written)[i] = i
        BY <2>4 DEF Upto
      <3> QED BY <2>2, <2>3, <2>4, <3>1
    <2>5. CASE ~ (i <= written)
      <3>1. NextBytes(n)[i - written] = i
        BY <2>5 DEF NextBytes
      <3> QED BY <2>2, <2>3, <2>5, <3>1
    <2> QED BY <2>4, <2>5
  <1> HIDE DEF s
  <1>7. s = Upto(written + n)
    BY <1>4, <1>5, <1>6, SeqEqual
  <1> QED BY <1>1, <1>7 DEF s

(* What a call does to the stream: the bytes out, in the buffer and not yet  *)
(* handed over stay one sequence.                                            *)
LEMMA OpsStep ==
    ASSUME OpsTypeOK, StreamKept, [OpsNext]_opsVars
    PROVE  OpsTypeOK' /\ StreamKept'
  <1> USE BufferOpsAssumption
  <1>0. /\ buffer \in Buffer /\ written \in Nat /\ taken \in Seq(Byte)
        /\ refused \in BOOLEAN
    BY DEF OpsTypeOK
  <1> DEFINE c == Content(buffer)
  <1>7. c \in Seq(Byte) /\ taken \in Seq(Byte)
    BY <1>0, Fields
  <1>8. buffer' \in Buffer => Content(buffer') \in Seq(Byte)
    BY Fields
  <1>9. \A s \in Seq(Byte), t \in Seq(Byte) :
            taken \o s \in Seq(Byte) /\ (taken \o s) \o t = taken \o (s \o t)
    <2> TAKE s \in Seq(Byte), t \in Seq(Byte)
    <2>1. taken \o s \in Seq(Byte)
      BY <1>0, ConcatProperties
    <2>2. (taken \o s) \o t = taken \o (s \o t)
      BY <1>0, ConcatAssociative
    <2> QED BY <2>1, <2>2
  <1>1. ASSUME NEW n \in 1..OpsBytes, ~ refused, Write(n)
        PROVE  OpsTypeOK' /\ StreamKept'
    <2> DEFINE s == NextBytes(n)
    <2>1. s \in Seq(Byte) /\ Upto(written) \o s = Upto(written + n)
      BY <1>0, <1>1, UptoExtends DEF Write
    <2>2. buffer' \in Buffer /\ Content(buffer') = Content(buffer) \o s
      BY <1>0, <1>1, <2>1, WriteAppends DEF Write
    <2>3. taken \o Content(buffer) = Upto(written)
      BY <1>1 DEF StreamKept, Upto
    <2> HIDE DEF s
    <2>4. taken \o (Content(buffer) \o s) = Upto(written + n)
      <3>1. (taken \o c) \o s = taken \o (c \o s)
        BY <1>7, <1>9, <2>1
      <3> QED BY <2>1, <2>3, <3>1
    <2>5. written' = written + n /\ written + n \in 0..OpsBytes
      BY <1>0, <1>1 DEF Write
    <2>6. taken' = taken /\ refused' = refused
      BY <1>1 DEF Write
    <2>7. OpsTypeOK'
      BY <1>0, <2>2, <2>5, <2>6 DEF OpsTypeOK
    <2>8. StreamKept'
      BY <2>2, <2>4, <2>5, <2>6 DEF StreamKept, Upto
    <2> QED BY <2>7, <2>8
  <1>2. ASSUME NEW n \in 1..OpsBytes, ~ refused, Fill(n)
        PROVE  OpsTypeOK' /\ StreamKept'
    <2> DEFINE s == NextBytes(n)
    <2>1. s \in Seq(Byte) /\ Len(s) = n /\ Upto(written) \o s = Upto(written + n)
      BY <1>0, <1>2, UptoExtends DEF Fill
    <2>2. /\ buffer' \in Buffer
          /\ ~ refused' => Content(buffer') = Content(buffer) \o s
      BY <1>0, <1>2, <2>1, FillAppends DEF Fill
    <2>3. taken \o Content(buffer) = Upto(written)
      BY <1>2 DEF StreamKept, Upto
    <2> HIDE DEF s
    <2>4. taken \o (Content(buffer) \o s) = Upto(written + n)
      <3>1. (taken \o c) \o s = taken \o (c \o s)
        BY <1>7, <1>9, <2>1
      <3> QED BY <2>1, <2>3, <3>1
    <2>5. written' = written + n /\ written + n \in 0..OpsBytes
      BY <1>0, <1>2 DEF Fill
    <2>6. taken' = taken /\ refused' \in BOOLEAN
      BY <1>2 DEF Fill, MoveWriteRefused
    <2>7. OpsTypeOK'
      BY <1>0, <2>2, <2>5, <2>6 DEF OpsTypeOK
    <2>8. StreamKept'
      BY <2>2, <2>4, <2>5, <2>6 DEF StreamKept, Upto
    <2> QED BY <2>7, <2>8
  <1>3. ASSUME NEW n \in 1..OpsBytes, ~ refused, Read(n)
        PROVE  OpsTypeOK' /\ StreamKept'
    <2> DEFINE k == Taken(buffer, n)
               s == SubSeq(Content(buffer), 1, k)
    <2>1. k \in Nat /\ k <= ReadAble(buffer)
      BY <1>0, Fields DEF Taken, Least
    <2>2. s \in Seq(Byte)
      BY <1>0, <2>1, Fields, SubSeqProperties
    <2>3. buffer' \in Buffer /\ s \o Content(buffer') = Content(buffer)
      <3>1. n \in Nat /\ buffer' = ReadFromBuffer(buffer, n)
        BY <1>3 DEF Read
      <3> QED BY <1>0, <3>1, ReadTakesOldest
    <2>4. taken' = taken \o s /\ written' = written /\ refused' = refused
      BY <1>3 DEF Read
    <2>5. taken \o Content(buffer) = Upto(written)
      BY <1>3 DEF StreamKept, Upto
    <2> HIDE DEF s
    <2>6. taken' \o Content(buffer') = Upto(written) /\ taken' \in Seq(Byte)
      <3> DEFINE d == Content(buffer')
      <3>1. d \in Seq(Byte)
        BY <1>8, <2>3
      <3>2. taken \o s \in Seq(Byte) /\ (taken \o s) \o d = taken \o (s \o d)
        BY <1>9, <2>2, <3>1
      <3> QED BY <2>3, <2>4, <2>5, <3>2
    <2>7. OpsTypeOK'
      BY <2>3, <2>4, <2>6 DEF OpsTypeOK
    <2>8. StreamKept'
      BY <2>4, <2>6 DEF StreamKept, Upto
    <2> QED BY <2>7, <2>8
  <1>4. ASSUME NEW n \in 1..OpsBytes, ~ refused, Skip(n)
        PROVE  OpsTypeOK' /\ StreamKept'
    <2> DEFINE s == SubSeq(Content(buffer), 1, n)
    <2>1. n \in Nat /\ n <= ReadAble(buffer)
      BY <1>4 DEF Skip
    <2>2. s \in Seq(Byte)
      BY <1>0, <2>1, Fields, SubSeqProperties
    <2>3. /\ buffer' \in Buffer
          /\ ~ refused' => s \o Content(buffer') = Content(buffer)
      BY <1>0, <1>4, <2>1, MoveReadTakes DEF Skip
    <2>4. taken' = taken \o s /\ written' = written /\ refused' \in BOOLEAN
      BY <1>4 DEF Skip, MoveReadRefused
    <2>5. taken \o Content(buffer) = Upto(written)
      BY <1>4 DEF StreamKept, Upto
    <2> HIDE DEF s
    <2>6. taken' \in Seq(Byte) /\ (~ refused' => taken' \o Content(buffer') = Upto(written))
      <3> DEFINE d == Content(buffer')
      <3>1. d \in Seq(Byte)
        BY <1>8, <2>3
      <3>2. taken \o s \in Seq(Byte) /\ (taken \o s) \o d = taken \o (s \o d)
        BY <1>9, <2>2, <3>1
      <3> QED BY <2>3, <2>4, <2>5, <3>2
    <2>7. OpsTypeOK'
      BY <2>3, <2>4, <2>6 DEF OpsTypeOK
    <2>8. StreamKept'
      BY <2>4, <2>6 DEF StreamKept, Upto
    <2> QED BY <2>7, <2>8
  <1>5. CASE ~ refused /\ Double
    <2>1. 2 * Size(buffer) \in Nat /\ 2 * Size(buffer) >= ReadAble(buffer)
      BY <1>0, Fields DEF ReadAble
    <2> DEFINE m == 2 * Size(buffer)
    <2> HIDE DEF m
    <2>2. buffer' \in Buffer /\ Content(buffer') = Content(buffer)
      BY <1>0, <1>5, <2>1, ResizeKeeps DEF Double, m
    <2>3. UNCHANGED <<written, taken, refused>>
      BY <1>5 DEF Double
    <2> QED BY <2>2, <2>3 DEF OpsTypeOK, StreamKept
  <1>6. CASE UNCHANGED opsVars
    BY <1>6 DEF opsVars, OpsTypeOK, StreamKept
  <1> QED BY <1>1, <1>2, <1>3, <1>4, <1>5, <1>6 DEF OpsNext

(* The buffer's bytes come out as they went in, in order and without a gap,  *)
(* for every sequence of the calls the program makes, until one is refused.  *)
THEOREM BytesInOrder == OpsSpec => [](OpsTypeOK /\ StreamKept)
  <1>1. OpsInit => OpsTypeOK /\ StreamKept
    <2> SUFFICES ASSUME OpsInit PROVE OpsTypeOK /\ StreamKept
      OBVIOUS
    <2> USE BufferOpsAssumption
    <2>3. << >> \in Seq(Byte) /\ Len(<< >>) = 0
      BY EmptySeq
    <2>4. buffer \in Buffer /\ Content(buffer) = << >>
      BY NewBufferEmpty DEF OpsInit
    <2>5. OpsTypeOK
      <3>1. written = 0 /\ taken = << >> /\ refused = FALSE /\ 0 \in 0..OpsBytes
        BY DEF OpsInit
      <3> QED BY <2>3, <2>4, <3>1 DEF OpsTypeOK
    <2>6. taken \o Content(buffer) = << >>
      BY <2>3, <2>4, ConcatEmptySeq DEF OpsInit
    <2>7. [i \in 1..written |-> i] = << >>
      BY DEF OpsInit
    <2> QED BY <2>5, <2>6, <2>7 DEF StreamKept
  <1>2. OpsTypeOK /\ StreamKept /\ [OpsNext]_opsVars => OpsTypeOK' /\ StreamKept'
    BY OpsStep
  <1> QED BY <1>1, <1>2, PTL DEF OpsSpec
-----------------------------------------------------------------------------
(* Frames. *)

\* What an int32 that is not negative can be.
Int32 == {n \in Nat : n <= 2147483647}

\* A message as the program can hold one.
TinyPBProtocol ==
    [msg_id : Seq(0..255), method_name : Seq(0..255), err_info : Seq(0..255),
     pb_data : Seq(0..255), err_code : Int32]

\* The cells from 0-based index i on begin with x.
HasAt(cells, i, x) == \A k \in 1..Len(x) : cells[i + k] = x[k]

LEMMA HasJoined ==
    ASSUME NEW cells, NEW i \in Nat, NEW x \in Seq(Int), NEW y \in Seq(Int),
           NEW z, z = x \o y
    PROVE  /\ z \in Seq(Int) /\ Len(z) = Len(x) + Len(y)
           /\ HasAt(cells, i, z) => HasAt(cells, i, x) /\ HasAt(cells, i + Len(x), y)
  <1> DEFINE n == Len(x)
             k == Len(y)
  <1>0. n \in Nat /\ k \in Nat
    OBVIOUS
  <1>1. /\ z \in Seq(Int) /\ Len(z) = n + k
        /\ \A j \in 1..(n + k) : z[j] = IF j <= n THEN x[j] ELSE y[j - n]
    BY ConcatProperties
  <1> HIDE DEF n, k
  <1>2. ASSUME \A j \in 1..Len(z) : cells[i + j] = z[j]
        PROVE  /\ \A j \in 1..n : cells[i + j] = x[j]
               /\ \A j \in 1..k : cells[(i + n) + j] = y[j]
    <2>1. ASSUME NEW j \in 1..n PROVE cells[i + j] = x[j]
      <3>1. j \in 1..(n + k) /\ j <= n
        BY <1>0
      <3> QED BY <3>1, <1>1, <1>2
    <2>2. ASSUME NEW j \in 1..k PROVE cells[(i + n) + j] = y[j]
      <3>1. /\ n + j \in 1..(n + k) /\ ~ (n + j <= n) /\ (n + j) - n = j
            /\ i + (n + j) = (i + n) + j
        BY <1>0
      <3>2. z[n + j] = y[j]
        BY <3>1, <1>1
      <3>3. cells[i + (n + j)] = z[n + j]
        BY <3>1, <1>1, <1>2
      <3> QED BY <3>1, <3>2, <3>3
    <2> QED BY <2>1, <2>2
  <1>3. HasAt(cells, i, z) => HasAt(cells, i, x) /\ HasAt(cells, i + n, y)
    BY <1>1, <1>2 DEF HasAt, n, k
  <1> QED BY <1>1, <1>3 DEF n, k

(* Four bytes in network order are the number they were made of. *)
LEMMA Int32Back ==
    ASSUME NEW n \in Int32
    PROVE  /\ Int32ToNet(n) \in Seq(Int) /\ Len(Int32ToNet(n)) = 4
           /\ \A cells, i : HasAt(cells, i, Int32ToNet(n)) => Int32FromNet(cells, i) = n
  <1> DEFINE a == n \div 16777216
             b == (n \div 65536) % 256
             c == (n \div 256) % 256
             d == n % 256
  <1>1. /\ a \in Int /\ b \in Int /\ c \in Int /\ d \in Int
        /\ 16777216 * a + 65536 * b + 256 * c + d = n
    <2>1. n \in Nat
      BY SMT DEF Int32
    <2> DEFINE p == n \div 256
               q == n \div 65536
    <2>2. p \in Nat /\ n = 256 * p + d /\ d \in Int
      BY <2>1, SMT
    <2>3. q = p \div 256 /\ a = q \div 256
      BY <2>1, SMT
    <2>4. c = p % 256 /\ b = q % 256
      OBVIOUS
    <2> HIDE DEF a, b, c, d, p, q
    <2>5. q \in Nat /\ p = 256 * q + c /\ c \in Int
      BY <2>2, <2>3, <2>4, SMT
    <2>6. a \in Nat /\ q = 256 * a + b /\ b \in Int
      BY <2>3, <2>4, <2>5, SMT
    <2> QED BY <2>2, <2>5, <2>6, SMT
  <1>2. Int32ToNet(n) = <<a, b, c, d>>
    BY SMT DEF Int32ToNet
  <1> HIDE DEF a, b, c, d
  <1>3. <<a, b, c, d>> \in Seq(Int) /\ Len(<<a, b, c, d>>) = 4
    BY <1>1
  <1>4. ASSUME NEW cells, NEW i, HasAt(cells, i, <<a, b, c, d>>)
        PROVE  Int32FromNet(cells, i) = n
    <2>1. \A k \in 1..4 : cells[i + k] = <<a, b, c, d>>[k]
      BY <1>3, <1>4 DEF HasAt
    <2>2. cells[i + 1] = a /\ cells[i + 2] = b /\ cells[i + 3] = c /\ cells[i + 4] = d
      BY <2>1
    <2> QED BY <1>1, <2>2, SMT DEF Int32FromNet
  <1> QED BY <1>2, <1>3, <1>4

(* The strings of a message that fits into a frame, and their lengths. *)
LEMMA MessageFields ==
    ASSUME NEW m \in TinyPBProtocol, PkLen(m) \in Int32
    PROVE  /\ MsgId(m) \in Seq(Int) /\ m.method_name \in Seq(Int)
           /\ m.err_info \in Seq(Int) /\ m.pb_data \in Seq(Int)
           /\ Len(MsgId(m)) \in Int32 /\ Len(m.method_name) \in Int32
           /\ Len(m.err_info) \in Int32 /\ Len(m.pb_data) \in Int32
           /\ m.err_code \in Int32
           /\ PkLen(m) = 26 + Len(MsgId(m)) + Len(m.method_name)
                            + Len(m.err_info) + Len(m.pb_data)
  <1>1. /\ m.msg_id \in Seq(Int) /\ m.method_name \in Seq(Int)
        /\ m.err_info \in Seq(Int) /\ m.pb_data \in Seq(Int)
        /\ m.err_code \in Int32
    <2>1. ASSUME NEW s \in Seq(0..255) PROVE s \in Seq(Int)
      <3>1. Len(s) \in Nat /\ s = [j \in 1..Len(s) |-> s[j]]
        BY LenProperties
      <3>2. \A j \in 1..Len(s) : s[j] \in Int
        <4> TAKE j \in 1..Len(s)
        <4> DEFINE c == s[j]
        <4>1. c \in 0..255
          BY ElementOfSeq
        <4> HIDE DEF c
        <4>2. c \in Int
          BY <4>1
        <4> QED BY <4>2 DEF c
      <3> DEFINE n == Len(s)
      <3> HIDE DEF n
      <3>3. [j \in 1..n |-> s[j]] \in Seq(Int)
        BY <3>1, <3>2, IsASeq DEF n
      <3> QED BY <3>1, <3>3 DEF n
    <2> QED BY <2>1 DEF TinyPBProtocol
  <1>2. MsgId(m) \in Seq(Int)
    BY <1>1 DEF MsgId, DefaultMsgId
  <1> DEFINE i == Len(MsgId(m))
             k == Len(m.method_name)
             l == Len(m.err_info)
             d == Len(m.pb_data)
  <1>3. i \in Nat /\ k \in Nat /\ l \in Nat /\ d \in Nat
    BY <1>1, <1>2
  <1>4. PkLen(m) = 26 + i + k + l + d
    BY <1>3 DEF PkLen
  <1> HIDE DEF i, k, l, d
  <1>5. i \in Int32 /\ k \in Int32 /\ l \in Int32 /\ d \in Int32
    BY <1>3, <1>4, SMT DEF Int32
  <1> QED BY <1>1, <1>2, <1>4, <1>5 DEF i, k, l, d

(* Where encodeTinyPB puts what, from 0-based index i on. *)
LEMMA EncodedAt ==
    ASSUME NEW m \in TinyPBProtocol, PkLen(m) \in Int32, NEW cells, NEW i \in Nat,
           HasAt(cells, i, encodeTinyPB(m))
    PROVE  LET n == Len(MsgId(m))
               k == Len(m.method_name)
               l == Len(m.err_info)
           IN  /\ Len(encodeTinyPB(m)) = PkLen(m)
               /\ cells[i + 1] = PB_START
               /\ cells[i + PkLen(m)] = PB_END
               /\ HasAt(cells, i + 1, Int32ToNet(PkLen(m)))
               /\ HasAt(cells, i + 5, Int32ToNet(n))
               /\ HasAt(cells, i + 9, MsgId(m))
               /\ HasAt(cells, i + 9 + n, Int32ToNet(k))
               /\ HasAt(cells, i + 13 + n, m.method_name)
               /\ HasAt(cells, i + 13 + n + k, Int32ToNet(m.err_code))
               /\ HasAt(cells, i + 17 + n + k, Int32ToNet(l))
               /\ HasAt(cells, i + 21 + n + k, m.err_info)
               /\ HasAt(cells, i + 21 + n + k + l, m.pb_data)
  <1> DEFINE n   == Len(MsgId(m))
             k   == Len(m.method_name)
             l   == Len(m.err_info)
             d   == Len(m.pb_data)
             x1  == <<PB_START>>
             y2  == Int32ToNet(PkLen(m))
             y3  == Int32ToNet(n)
             y4  == MsgId(m)
             y5  == Int32ToNet(k)
             y6  == m.method_name
             y7  == Int32ToNet(m.err_code)
             y8  == Int32ToNet(l)
             y9  == m.err_info
             y10 == m.pb_data
             y11 == Int32ToNet(1)
             y12 == <<PB_END>>
             x2  == x1 \o y2
             x3  == x2 \o y3
             x4  == x3 \o y4
             x5  == x4 \o y5
             x6  == x5 \o y6
             x7  == x6 \o y7
             x8  == x7 \o y8
             x9  == x8 \o y9
             x10 == x9 \o y10
             x11 == x10 \o y11
             x12 == x11 \o y12
  <1>1. encodeTinyPB(m) = x12
    BY DEF encodeTinyPB
  <1>2. /\ n \in Nat /\ k \in Nat /\ l \in Nat /\ d \in Nat
        /\ PkLen(m) = 26 + n + k + l + d
    <2>1. /\ n \in Int32 /\ k \in Int32 /\ l \in Int32 /\ d \in Int32
          /\ PkLen(m) = 26 + n + k + l + d
      BY MessageFields
    <2> HIDE DEF n, k, l, d
    <2> QED BY <2>1, SMT DEF Int32
  <1>3. /\ x1 \in Seq(Int) /\ Len(x1) = 1 /\ x1[1] = PB_START
        /\ y12 \in Seq(Int) /\ Len(y12) = 1 /\ y12[1] = PB_END
    BY DEF PB_START, PB_END
  <1>4. /\ y4 \in Seq(Int) /\ Len(y4) = n /\ y6 \in Seq(Int) /\ Len(y6) = k
        /\ y9 \in Seq(Int) /\ Len(y9) = l /\ y10 \in Seq(Int) /\ Len(y10) = d
    BY MessageFields
  <1>5. /\ y2 \in Seq(Int) /\ Len(y2) = 4 /\ y3 \in Seq(Int) /\ Len(y3) = 4
        /\ y5 \in Seq(Int) /\ Len(y5) = 4 /\ y7 \in Seq(Int) /\ Len(y7) = 4
        /\ y8 \in Seq(Int) /\ Len(y8) = 4 /\ y11 \in Seq(Int) /\ Len(y11) = 4
    <2>1. /\ PkLen(m) \in Int32 /\ n \in Int32 /\ k \in Int32
          /\ m.err_code \in Int32 /\ l \in Int32
      BY MessageFields
    <2>2. 1 \in Int32
      BY SMT DEF Int32
    <2> QED BY <2>1, <2>2, Int32Back
  <1> HIDE DEF n, k, l, d, x1, y2, y3, y4, y5, y6, y7, y8, y9, y10, y11, y12
  <1>6. /\ x2 = x1 \o y2 /\ x3 = x2 \o y3 /\ x4 = x3 \o y4
        /\ x5 = x4 \o y5 /\ x6 = x5 \o y6 /\ x7 = x6 \o y7
        /\ x8 = x7 \o y8 /\ x9 = x8 \o y9 /\ x10 = x9 \o y10
        /\ x11 = x10 \o y11 /\ x12 = x11 \o y12
    OBVIOUS
  <1> HIDE DEF x2, x3, x4, x5, x6, x7, x8, x9, x10, x11, x12
  <1>7. \A x \in Seq(Int), y \in Seq(Int) : \A z : (z = x \o y) =>
            /\ z \in Seq(Int) /\ Len(z) = Len(x) + Len(y)
            /\ HasAt(cells, i, z) => HasAt(cells, i, x) /\ HasAt(cells, i + Len(x), y)
    BY HasJoined
  <1>8. /\ x2 \in Seq(Int) /\ Len(x2) = 5
        /\ HasAt(cells, i, x2) => HasAt(cells, i, x1) /\ HasAt(cells, i + 1, y2)
    <2>1. x1 \in Seq(Int) /\ y2 \in Seq(Int) /\ x2 = x1 \o y2
      BY <1>6, <1>3, <1>5
    <2>2. /\ x2 \in Seq(Int) /\ Len(x2) = Len(x1) + Len(y2)
          /\ HasAt(cells, i, x2)
               => HasAt(cells, i, x1) /\ HasAt(cells, i + Len(x1), y2)
      BY <1>7, <2>1, Zenon
    <2>3. 1 + 4 = 5
      BY <1>2
    <2> QED BY <2>2, <2>3, <1>3, <1>5
  <1>9. /\ x3 \in Seq(Int) /\ Len(x3) = 9
        /\ HasAt(cells, i, x3) => HasAt(cells, i, x2) /\ HasAt(cells, i + 5, y3)
    <2>1. x2 \in Seq(Int) /\ y3 \in Seq(Int) /\ x3 = x2 \o y3
      BY <1>6, <1>5, <1>8
    <2>2. /\ x3 \in Seq(Int) /\ Len(x3) = Len(x2) + Len(y3)
          /\ HasAt(cells, i, x3)
               => HasAt(cells, i, x2) /\ HasAt(cells, i + Len(x2), y3)
      BY <1>7, <2>1, Zenon
    <2>3. 5 + 4 = 9
      BY <1>2
    <2> QED BY <2>2, <2>3, <1>5, <1>8
  <1>10. /\ x4 \in Seq(Int) /\ Len(x4) = 9 + n
         /\ HasAt(cells, i, x4) => HasAt(cells, i, x3) /\ HasAt(cells, i + 9, y4)
    <2>1. x3 \in Seq(Int) /\ y4 \in Seq(Int) /\ x4 = x3 \o y4
      BY <1>6, <1>4, <1>9
    <2>2. /\ x4 \in Seq(Int) /\ Len(x4) = Len(x3) + Len(y4)
          /\ HasAt(cells, i, x4)
               => HasAt(cells, i, x3) /\ HasAt(cells, i + Len(x3), y4)
      BY <1>7, <2>1, Zenon
    <2>3. 9 + n = 9 + n
      BY <1>2
    <2> QED BY <2>2, <2>3, <1>4, <1>9
  <1>11. /\ x5 \in Seq(Int) /\ Len(x5) = 13 + n
         /\ HasAt(cells, i, x5) => HasAt(cells, i, x4) /\ HasAt(cells, i + (9 + n), y5)
    <2>1. x4 \in Seq(Int) /\ y5 \in Seq(Int) /\ x5 = x4 \o y5
      BY <1>6, <1>5, <1>10
    <2>2. /\ x5 \in Seq(Int) /\ Len(x5) = Len(x4) + Len(y5)
          /\ HasAt(cells, i, x5)
               => HasAt(cells, i, x4) /\ HasAt(cells, i + Len(x4), y5)
      BY <1>7, <2>1, Zenon
    <2>3. (9 + n) + 4 = 13 + n
      BY <1>2
    <2> QED BY <2>2, <2>3, <1>5, <1>10
  <1>12. /\ x6 \in Seq(Int) /\ Len(x6) = 13 + n + k
         /\ HasAt(cells, i, x6) => HasAt(cells, i, x5) /\ HasAt(cells, i + (13 + n), y6)
    <2>1. x5 \in Seq(Int) /\ y6 \in Seq(Int) /\ x6 = x5 \o y6
      BY <1>6, <1>4, <1>11
    <2>2. /\ x6 \in Seq(Int) /\ Len(x6) = Len(x5) + Len(y6)
          /\ HasAt(cells, i, x6)
               => HasAt(cells, i, x5) /\ HasAt(cells, i + Len(x5), y6)
      BY <1>7, <2>1, Zenon
    <2>3. (13 + n) + k = 13 + n + k
      BY <1>2
    <2> QED BY <2>2, <2>3, <1>4, <1>11
  <1>13. /\ x7 \in Seq(Int) /\ Len(x7) = 17 + n + k
         /\ HasAt(cells, i, x7) => HasAt(cells, i, x6) /\ HasAt(cells, i + (13 + n + k), y7)
    <2>1. x6 \in Seq(Int) /\ y7 \in Seq(Int) /\ x7 = x6 \o y7
      BY <1>6, <1>5, <1>12
    <2>2. /\ x7 \in Seq(Int) /\ Len(x7) = Len(x6) + Len(y7)
          /\ HasAt(cells, i, x7)
               => HasAt(cells, i, x6) /\ HasAt(cells, i + Len(x6), y7)
      BY <1>7, <2>1, Zenon
    <2>3. (13 + n + k) + 4 = 17 + n + k
      BY <1>2
    <2> QED BY <2>2, <2>3, <1>5, <1>12
  <1>14. /\ x8 \in Seq(Int) /\ Len(x8) = 21 + n + k
         /\ HasAt(cells, i, x8) => HasAt(cells, i, x7) /\ HasAt(cells, i + (17 + n + k), y8)
    <2>1. x7 \in Seq(Int) /\ y8 \in Seq(Int) /\ x8 = x7 \o y8
      BY <1>6, <1>5, <1>13
    <2>2. /\ x8 \in Seq(Int) /\ Len(x8) = Len(x7) + Len(y8)
          /\ HasAt(cells, i, x8)
               => HasAt(cells, i, x7) /\ HasAt(cells, i + Len(x7), y8)
      BY <1>7, <2>1, Zenon
    <2>3. (17 + n + k) + 4 = 21 + n + k
      BY <1>2
    <2> QED BY <2>2, <2>3, <1>5, <1>13
  <1>15. /\ x9 \in Seq(Int) /\ Len(x9) = 21 + n + k + l
         /\ HasAt(cells, i, x9) => HasAt(cells, i, x8) /\ HasAt(cells, i + (21 + n + k), y9)
    <2>1. x8 \in Seq(Int) /\ y9 \in Seq(Int) /\ x9 = x8 \o y9
      BY <1>6, <1>4, <1>14
    <2>2. /\ x9 \in Seq(Int) /\ Len(x9) = Len(x8) + Len(y9)
          /\ HasAt(cells, i, x9)
               => HasAt(cells, i, x8) /\ HasAt(cells, i + Len(x8), y9)
      BY <1>7, <2>1, Zenon
    <2>3. (21 + n + k) + l = 21 + n + k + l
      BY <1>2
    <2> QED BY <2>2, <2>3, <1>4, <1>14
  <1>16. /\ x10 \in Seq(Int) /\ Len(x10) = 21 + n + k + l + d
         /\ HasAt(cells, i, x10) => HasAt(cells, i, x9) /\ HasAt(cells, i + (21 + n + k + l), y10)
    <2>1. x9 \in Seq(Int) /\ y10 \in Seq(Int) /\ x10 = x9 \o y10
      BY <1>6, <1>4, <1>15
    <2>2. /\ x10 \in Seq(Int) /\ Len(x10) = Len(x9) + Len(y10)
          /\ HasAt(cells, i, x10)
               => HasAt(cells, i, x9) /\ HasAt(cells, i + Len(x9), y10)
      BY <1>7, <2>1, Zenon
    <2>3. (21 + n + k + l) + d = 21 + n + k + l + d
      BY <1>2
    <2> QED BY <2>2, <2>3, <1>4, <1>15
  <1>17. /\ x11 \in Seq(Int) /\ Len(x11) = 25 + n + k + l + d
         /\ HasAt(cells, i, x11) => HasAt(cells, i, x10) /\ HasAt(cells, i + (21 + n + k + l + d), y11)
    <2>1. x10 \in Seq(Int) /\ y11 \in Seq(Int) /\ x11 = x10 \o y11
      BY <1>6, <1>5, <1>16
    <2>2. /\ x11 \in Seq(Int) /\ Len(x11) = Len(x10) + Len(y11)
          /\ HasAt(cells, i, x11)
               => HasAt(cells, i, x10) /\ HasAt(cells, i + Len(x10), y11)
      BY <1>7, <2>1, Zenon
    <2>3. (21 + n + k + l + d) + 4 = 25 + n + k + l + d
      BY <1>2
    <2> QED BY <2>2, <2>3, <1>5, <1>16
  <1>18. /\ x12 \in Seq(Int) /\ Len(x12) = 26 + n + k + l + d
         /\ HasAt(cells, i, x12) => HasAt(cells, i, x11) /\ HasAt(cells, i + (25 + n + k + l + d), y12)
    <2>1. x11 \in Seq(Int) /\ y12 \in Seq(Int) /\ x12 = x11 \o y12
      BY <1>6, <1>3, <1>17
    <2>2. /\ x12 \in Seq(Int) /\ Len(x12) = Len(x11) + Len(y12)
          /\ HasAt(cells, i, x12)
               => HasAt(cells, i, x11) /\ HasAt(cells, i + Len(x11), y12)
      BY <1>7, <2>1, Zenon
    <2>3. (25 + n + k + l + d) + 1 = 26 + n + k + l + d
      BY <1>2
    <2> QED BY <2>2, <2>3, <1>3, <1>17
  <1>19. HasAt(cells, i, x12)
    BY <1>1
  <1>20. /\ HasAt(cells, i, x1) /\ HasAt(cells, i + 1, y2) /\ HasAt(cells, i + 5, y3)
         /\ HasAt(cells, i + 9, y4) /\ HasAt(cells, i + (9 + n), y5)
         /\ HasAt(cells, i + (13 + n), y6) /\ HasAt(cells, i + (13 + n + k), y7)
         /\ HasAt(cells, i + (17 + n + k), y8) /\ HasAt(cells, i + (21 + n + k), y9)
         /\ HasAt(cells, i + (21 + n + k + l), y10)
         /\ HasAt(cells, i + (25 + n + k + l + d), y12)
    BY <1>8, <1>9, <1>10, <1>11, <1>12, <1>13, <1>14, <1>15, <1>16, <1>17, <1>18, <1>19
  <1>21. cells[i + 1] = PB_START
    BY <1>3, <1>20 DEF HasAt
  <1>22. cells[i + PkLen(m)] = PB_END
    <2>1. cells[(i + (25 + n + k + l + d)) + 1] = PB_END
      BY <1>3, <1>20 DEF HasAt
    <2>2. (i + (25 + n + k + l + d)) + 1 = i + PkLen(m)
      BY <1>2
    <2> QED BY <2>1, <2>2
  <1>23. /\ i + (9 + n) = i + 9 + n /\ i + (13 + n) = i + 13 + n
         /\ i + (13 + n + k) = i + 13 + n + k /\ i + (17 + n + k) = i + 17 + n + k
         /\ i + (21 + n + k) = i + 21 + n + k
         /\ i + (21 + n + k + l) = i + 21 + n + k + l
    BY <1>2
  <1>24. Len(encodeTinyPB(m)) = PkLen(m)
    BY <1>1, <1>2, <1>18
  <1> QED BY <1>20, <1>21, <1>22, <1>23, <1>24
          DEF n, k, l, y2, y3, y4, y5, y6, y7, y8, y9, y10

LEMMA EncodedLength ==
    ASSUME NEW m \in TinyPBProtocol, PkLen(m) \in Int32
    PROVE  Len(encodeTinyPB(m)) = PkLen(m)
  <1> DEFINE e == encodeTinyPB(m)
  <1>1. HasAt(e, 0, e)
    <2> HIDE DEF e
    <2> QED BY DEF HasAt
  <1> QED BY <1>1, EncodedAt

(* Bytes that begin with x give x. *)
LEMMA BytesBack ==
    ASSUME NEW cells, NEW i \in Nat, NEW x \in Seq(Int), HasAt(cells, i, x)
    PROVE  Bytes(cells, i, Len(x)) = x
  <1> DEFINE n == Len(x)
             y == SubSeq(cells, i + 1, i + n)
  <1>1. n \in Nat /\ i + 1 \in Int /\ i + n \in Int
    OBVIOUS
  <1>2. \A j \in 1..n : cells[i + j] = x[j] /\ x[j] \in Int
    BY ElementOfSeq DEF HasAt
  <1> HIDE DEF n
  <1>3. \A j \in (i + 1)..(i + n) : cells[j] \in Int
    <2> TAKE j \in (i + 1)..(i + n)
    <2>1. j - i \in 1..n /\ i + (j - i) = j
      BY <1>1
    <2> QED BY <2>1, <1>2
  <1>4. /\ y \in Seq(Int)
        /\ Len(y) = IF i + 1 <= i + n THEN (i + n) - (i + 1) + 1 ELSE 0
        /\ \A j \in 1..((i + n) - (i + 1) + 1) : y[j] = cells[(i + 1) + j - 1]
    BY <1>1, <1>3, SubSeqProperties
  <1> HIDE DEF y
  <1>5. Len(y) = n
    BY <1>1, <1>4
  <1>6. ASSUME NEW j \in 1..n PROVE y[j] = x[j]
    <2>1. j \in 1..((i + n) - (i + 1) + 1) /\ (i + 1) + j - 1 = i + j
      BY <1>1
    <2> QED BY <2>1, <1>2, <1>4
  <1>7. y = x
    BY <1>1, <1>4, <1>5, <1>6, SeqEqual DEF n
  <1> QED BY <1>7 DEF Bytes, n, y

(* decode cuts a frame into the fields encodeTinyPB made it of. *)
LEMMA FieldsBack ==
    ASSUME NEW m \in TinyPBProtocol, PkLen(m) \in Int32, NEW cells, NEW i \in Nat,
           HasAt(cells, i, encodeTinyPB(m))
    PROVE  FieldsOf(cells, i, PkLen(m)) = <<WithId(m)>>
  <1> DEFINE n == Len(MsgId(m))
             k == Len(m.method_name)
             l == Len(m.err_info)
             d == Len(m.pb_data)
  <1>1. /\ n \in Nat /\ k \in Nat /\ l \in Nat /\ d \in Nat
        /\ PkLen(m) = 26 + n + k + l + d
    <2>1. /\ n \in Int32 /\ k \in Int32 /\ l \in Int32 /\ d \in Int32
          /\ PkLen(m) = 26 + n + k + l + d
      BY MessageFields
    <2> HIDE DEF n, k, l, d
    <2> QED BY <2>1, SMT DEF Int32
  <1>2. /\ Int32FromNet(cells, i + 5) = n
        /\ Int32FromNet(cells, i + 9 + n) = k
        /\ Int32FromNet(cells, i + 13 + n + k) = m.err_code
        /\ Int32FromNet(cells, i + 17 + n + k) = l
    <2>1. n \in Int32 /\ k \in Int32 /\ m.err_code \in Int32 /\ l \in Int32
      BY MessageFields
    <2>2. /\ HasAt(cells, i + 5, Int32ToNet(n))
          /\ HasAt(cells, i + 9 + n, Int32ToNet(k))
          /\ HasAt(cells, i + 13 + n + k, Int32ToNet(m.err_code))
          /\ HasAt(cells, i + 17 + n + k, Int32ToNet(l))
      BY EncodedAt
    <2> HIDE DEF n, k, l
    <2> QED BY <2>1, <2>2, Int32Back
  <1>3. /\ Bytes(cells, i + 9, n) = MsgId(m)
        /\ Bytes(cells, i + 13 + n, k) = m.method_name
        /\ Bytes(cells, i + 21 + n + k, l) = m.err_info
        /\ Bytes(cells, i + 21 + n + k + l, d) = m.pb_data
    <2>1. /\ MsgId(m) \in Seq(Int) /\ m.method_name \in Seq(Int)
          /\ m.err_info \in Seq(Int) /\ m.pb_data \in Seq(Int)
      BY MessageFields
    <2>2. /\ HasAt(cells, i + 9, MsgId(m))
          /\ HasAt(cells, i + 13 + n, m.method_name)
          /\ HasAt(cells, i + 21 + n + k, m.err_info)
          /\ HasAt(cells, i + 21 + n + k + l, m.pb_data)
      BY EncodedAt
    <2>3. /\ i + 9 \in Nat /\ i + 13 + n \in Nat
          /\ i + 21 + n + k \in Nat /\ i + 21 + n + k + l \in Nat
      <3> HIDE DEF n, k, l, d
      <3> QED BY <1>1
    <2>4. Bytes(cells, i + 9, n) = MsgId(m)
      BY <2>1, <2>2, <2>3, BytesBack
    <2>5. Bytes(cells, i + 13 + n, k) = m.method_name
      BY <2>1, <2>2, <2>3, BytesBack
    <2>6. Bytes(cells, i + 21 + n + k, l) = m.err_info
      BY <2>1, <2>2, <2>3, BytesBack
    <2>7. Bytes(cells, i + 21 + n + k + l, d) = m.pb_data
      BY <2>1, <2>2, <2>3, BytesBack
    <2> QED BY <2>4, <2>5, <2>6, <2>7
  <1> HIDE DEF n, k, l, d
  <1> DEFINE p == PkLen(m)
  <1>4. /\ i + 1 + 4 = i + 5 /\ i + 5 + 4 = i + 9
        /\ i + 9 + n + 4 = i + 13 + n
        /\ i + 13 + n + k + 4 = i + 17 + n + k
        /\ i + 17 + n + k + 4 = i + 21 + n + k
        /\ p - k - n - l - 2 - 24 = d
        /\ ~ (i + 5 >= i + p - 1) /\ ~ (i + 9 + n >= i + p - 1)
        /\ ~ (i + 13 + n + k >= i + p - 1) /\ ~ (i + 17 + n + k >= i + p - 1)
    BY <1>1
  <1> HIDE DEF p
  <1>5. FieldsOf(cells, i, p)
          = << [msg_id      |-> MsgId(m),
                method_name |-> m.method_name,
                err_code    |-> m.err_code,
                err_info    |-> m.err_info,
                pb_data     |-> m.pb_data] >>
    BY <1>2, <1>3, <1>4, Zenon DEF FieldsOf
  <1>6. WithId(m) = [msg_id      |-> MsgId(m),
                     method_name |-> m.method_name,
                     err_code    |-> m.err_code,
                     err_info    |-> m.err_info,
                     pb_data     |-> m.pb_data]
    <2>1. m = [msg_id      |-> m.msg_id,
               method_name |-> m.method_name,
               err_code    |-> m.err_code,
               err_info    |-> m.err_info,
               pb_data     |-> m.pb_data]
      BY DEF TinyPBProtocol
    <2> QED BY <2>1 DEF WithId
  <1> QED BY <1>5, <1>6 DEF p

(* What is behind the first n elements is what n elements were put before. *)
LEMMA RestBack ==
    ASSUME NEW S, NEW s \in Seq(S), NEW t \in Seq(S), NEW u \in Seq(S),
           SubSeq(s \o t, 1, Len(s)) \o u = s \o t
    PROVE  u = t
  <1> DEFINE n == Len(s)
             f == s \o t
             g == SubSeq(f, 1, n)
  <1>1. /\ n \in Nat /\ f \in Seq(S) /\ Len(f) = n + Len(t)
        /\ \A j \in 1..(n + Len(t)) : f[j] = IF j <= n THEN s[j] ELSE t[j - n]
    BY ConcatProperties
  <1>2. Len(t) \in Nat /\ Len(u) \in Nat
    OBVIOUS
  <1> HIDE DEF n, f
  <1>3. /\ g \in Seq(S) /\ Len(g) = n
    <2>1. \A j \in 1..n : f[j] \in S
      BY <1>1, <1>2, ElementOfSeq
    <2>2. g \in Seq(S) /\ Len(g) = IF 1 <= n THEN n - 1 + 1 ELSE 0
      BY <1>1, <2>1, SubSeqProperties
    <2> QED BY <1>1, <2>2
  <1> HIDE DEF g
  <1>4. g \o u = f
    BY DEF f, g, n
  <1>5. /\ Len(g \o u) = n + Len(u)
        /\ \A j \in 1..(n + Len(u)) : (g \o u)[j] = IF j <= n THEN g[j] ELSE u[j - n]
    BY <1>3, ConcatProperties
  <1>6. Len(u) = Len(t)
    BY <1>1, <1>2, <1>4, <1>5
  <1>7. ASSUME NEW j \in 1..Len(t) PROVE u[j] = t[j]
    <2>1. n + j \in 1..(n + Len(t)) /\ ~ (n + j <= n) /\ (n + j) - n = j
      BY <1>1, <1>2
    <2>2. (g \o u)[n + j] = u[j]
      BY <2>1, <1>5, <1>6
    <2>3. f[n + j] = t[j]
      BY <2>1, <1>1
    <2> QED BY <2>2, <2>3, <1>4
  <1> QED BY <1>6, <1>7, SeqEqual

(* A round of decode on a buffer whose bytes begin with what encodeTinyPB    *)
(* made of a message hands out this message, with the id that was filled in  *)
(* for an empty one, and leaves exactly the bytes behind it, unless the      *)
(* frame ends where the vector does: then the read index stays where it is.  *)
(* Nothing else of the buffer is asked for, and the message is any one whose *)
(* frame is not too long for its length to be an int32.                      *)
THEOREM RoundTakesMessage ==
    ASSUME NEW m \in TinyPBProtocol, PkLen(m) \in Int32, encodeTinyPB(m) \in Seq(Byte),
           NEW rest \in Seq(Byte),
           NEW b \in Buffer, Content(b) = encodeTinyPB(m) \o rest,
           NEW out
    PROVE  LET d == Round([buf |-> b, out |-> out])
           IN  /\ d.out = out \o <<WithId(m)>>
               /\ d.buf \in Buffer /\ Size(d.buf) = Size(b)
               /\ ~ MoveReadRefused(b, PkLen(m)) => Content(d.buf) = rest
  <1> DEFINE e == encodeTinyPB(m)
             p == PkLen(m)
  <1>1. p \in Nat /\ p >= 26
    <2> DEFINE n == Len(MsgId(m))
               k == Len(m.method_name)
               l == Len(m.err_info)
               h == Len(m.pb_data)
    <2>1. /\ n \in Int32 /\ k \in Int32 /\ l \in Int32 /\ h \in Int32
          /\ p = 26 + n + k + l + h
      BY MessageFields
    <2> HIDE DEF p, n, k, l, h
    <2>2. n \in Nat /\ k \in Nat /\ l \in Nat /\ h \in Nat
      BY <2>1, SMT DEF Int32
    <2> QED BY <2>1, <2>2
  <1>2. Len(e) = p
    BY EncodedLength
  <1>3. /\ b.r \in Nat /\ b.w \in Nat /\ b.r <= b.w /\ ReadAble(b) = b.w - b.r
        /\ ReadAble(b) \in Nat /\ Content(b) \in Seq(Byte)
        /\ Len(Content(b)) = ReadAble(b)
        /\ \A j \in 1..ReadAble(b) : Content(b)[j] = b.cells[b.r + j]
    BY Fields DEF ReadAble
  <1>4. e \in Seq(Byte) /\ Len(rest) \in Nat /\ Content(b) = e \o rest
    OBVIOUS
  <1> HIDE DEF e, p
  <1>5. /\ Len(e \o rest) = p + Len(rest)
        /\ \A j \in 1..(p + Len(rest)) :
             (e \o rest)[j] = IF j <= p THEN e[j] ELSE rest[j - p]
    BY <1>2, <1>4, ConcatProperties
  <1>6. p <= ReadAble(b) /\ b.r + p <= b.w
    BY <1>1, <1>3, <1>4, <1>5
  <1>7. HasAt(b.cells, b.r, e)
    <2> SUFFICES ASSUME NEW j \in 1..p PROVE b.cells[b.r + j] = e[j]
      BY <1>2 DEF HasAt
    <2>1. j \in 1..(p + Len(rest)) /\ j <= p /\ j \in 1..ReadAble(b)
      <3>1. p \in Nat /\ Len(rest) \in Nat /\ ReadAble(b) \in Nat /\ p <= ReadAble(b)
        BY <1>1, <1>3, <1>4, <1>6
      <3> QED BY <3>1
    <2> QED BY <2>1, <1>3, <1>4, <1>5
  <1>8. /\ b.cells[b.r + 1] = PB_START /\ b.cells[b.r + p] = PB_END
        /\ Int32FromNet(b.cells, b.r + 1) = p
        /\ FieldsOf(b.cells, b.r, p) = <<WithId(m)>>
    <2>1. /\ b.cells[b.r + 1] = PB_START /\ b.cells[b.r + p] = PB_END
          /\ HasAt(b.cells, b.r + 1, Int32ToNet(p))
      <3>1. b.r \in Nat
        BY <1>3
      <3>2. HasAt(b.cells, b.r, encodeTinyPB(m))
        BY <1>7 DEF e
      <3>3. /\ b.cells[b.r + 1] = PB_START /\ b.cells[b.r + PkLen(m)] = PB_END
            /\ HasAt(b.cells, b.r + 1, Int32ToNet(PkLen(m)))
        BY <3>1, <3>2, EncodedAt
      <3> QED BY <3>3 DEF p
    <2>2. p \in Int32
      BY DEF p
    <2>3. Int32FromNet(b.cells, b.r + 1) = p
      BY <2>1, <2>2, Int32Back
    <2>4. FieldsOf(b.cells, b.r, p) = <<WithId(m)>>
      BY <1>3, <1>7, FieldsBack DEF e, p
    <2> QED BY <2>1, <2>3, <2>4
  <1> DEFINE starts == AcceptedAt(b)
  <1>9. b.r \in starts
    <2>1. /\ b.r \in b.r .. b.w - 1 /\ b.r + 1 < b.w
          /\ b.r + p - 1 < b.w /\ b.r + p - 1 >= 0 /\ (b.r + p - 1) + 1 = b.r + p
      BY <1>1, <1>3, <1>6
    <2> QED BY <2>1, <1>8 DEF AcceptedAt
  <1>10. \A j \in starts : j \in Int /\ b.r <= j
    BY <1>3 DEF AcceptedAt
  <1> HIDE DEF starts
  <1>11. (CHOOSE j \in starts : \A h \in starts : j <= h) = b.r
    <2>1. \A j \in starts : (\A h \in starts : j <= h) => j = b.r
      BY <1>3, <1>9, <1>10
    <2>2. \A h \in starts : b.r <= h
      BY <1>10
    <2> QED BY <1>9, <2>1, <2>2
  <1> DEFINE d == Round([buf |-> b, out |-> out])
             c == MoveReadIndex(b, p)
  <1>12. d = [buf |-> c, out |-> out \o <<WithId(m)>>]
    <2>1. starts # {}
      BY <1>9
    <2>2. d = LET j  == CHOOSE j \in starts : \A h \in starts : j <= h
                  pk == Int32FromNet(b.cells, j + 1)
              IN  [buf |-> MoveReadIndex(b, pk), out |-> out \o FieldsOf(b.cells, j, pk)]
      BY <2>1 DEF Round, starts
    <2> QED BY <2>2, <1>8, <1>11
  <1>13. /\ c \in Buffer /\ Size(c) = Size(b)
         /\ ~ MoveReadRefused(b, p) => SubSeq(Content(b), 1, p) \o Content(c) = Content(b)
    BY <1>1, <1>6, MoveReadTakes
  <1> HIDE DEF c, d
  <1>14. ASSUME ~ MoveReadRefused(b, p) PROVE Content(c) = rest
    <2>1. Content(c) \in Seq(Byte)
      BY <1>13, Fields
    <2>2. SubSeq(e \o rest, 1, Len(e)) \o Content(c) = e \o rest
      BY <1>2, <1>4, <1>13, <1>14
    <2> QED BY <2>1, <2>2, <1>4, RestBack
  <1>15. d.buf = c /\ d.out = out \o <<WithId(m)>>
    BY <1>12
  <1> QED BY <1>13, <1>14, <1>15 DEF d, p
=============================================================================
