----------------------------- MODULE LoggerProofs -----------------------------
(***************************************************************************)
(* Proofs about Logger, for any producers, levels, interrupted threads and *)
(* bounds.                                                                 *)
(***************************************************************************)
EXTENDS Logger, SequenceTheorems, WellFoundedInduction, TLAPS

-----------------------------------------------------------------------------
(* Sequences of sequences, laid end to end. *)

(* Induction over the numbers 1 to n, for the members of a set. *)
LEMMA UpTo ==
    ASSUME NEW n \in Nat, NEW P,
           \A i \in 1..n : (i = 1 \/ i - 1 \in P) => i \in P
    PROVE  \A i \in 1..n : i \in P
  <1> DEFINE T == {i \in 1..n : i \notin P}
  <1> SUFFICES ASSUME T # {} PROVE FALSE
    OBVIOUS
  <1>1. T \subseteq Nat
    OBVIOUS
  <1>2. PICK i \in T : \A j \in T : ~ (<<j, i>> \in OpToRel(<, Nat))
    BY <1>1, NatLessThanWellFounded, WFMin, Zenon
  <1>3. \A j \in T : ~ (j < i)
    BY <1>1, <1>2 DEF OpToRel
  <1>4. i \in 1..n /\ i # 1 /\ i - 1 \notin P
    OBVIOUS
  <1>5. i - 1 \in T /\ i - 1 < i
    BY <1>4
  <1> QED BY <1>3, <1>5

\* f[i] is the first i of the sequences in q, laid end to end.
Joins(f, q) ==
    /\ DOMAIN f = 1..Len(q)
    /\ \A i \in 1..Len(q) : f[i] = IF i = 1 THEN q[i] ELSE f[i - 1] \o q[i]

LEMMA JoinsTyped ==
    ASSUME NEW S, NEW q \in Seq(Seq(S)), NEW f, Joins(f, q)
    PROVE  \A i \in 1..Len(q) : f[i] \in Seq(S)
  <1> DEFINE P == {i \in 1..Len(q) : f[i] \in Seq(S)}
  <1>1. Len(q) \in Nat /\ \A i \in 1..Len(q) : q[i] \in Seq(S)
    BY LenProperties, ElementOfSeq
  <1>2. ASSUME NEW i \in 1..Len(q), i = 1 \/ i - 1 \in P
        PROVE  i \in P
    <2>1. CASE i = 1
      BY <1>1, <2>1 DEF Joins
    <2>2. CASE i # 1
      <3>1. f[i] = f[i - 1] \o q[i] /\ f[i - 1] \in Seq(S)
        BY <1>2, <2>2 DEF Joins
      <3> QED BY <1>1, <3>1, ConcatProperties
    <2> QED BY <2>1, <2>2
  <1> HIDE DEF P
  <1>3. \A i \in 1..Len(q) : i \in P
    BY <1>1, <1>2, UpTo
  <1> QED BY <1>3 DEF P

LEMMA JoinsExists ==
    ASSUME NEW S, NEW q \in Seq(Seq(S))
    PROVE  \E f : Joins(f, q)
  <1> DEFINE Good(f, n) == \A i \in 1..n : f[i] = IF i = 1 THEN q[i] ELSE f[i - 1] \o q[i]
             P == {n \in 1..Len(q) : \E f : DOMAIN f = 1..n /\ Good(f, n)}
  <1>1. Len(q) \in Nat
    BY LenProperties
  <1>2. ASSUME NEW n \in 1..Len(q), n = 1 \/ n - 1 \in P
        PROVE  n \in P
    <2>1. CASE n = 1
      <3> DEFINE f == [i \in 1..1 |-> q[1]]
      <3>1. DOMAIN f = 1..1 /\ Good(f, 1)
        OBVIOUS
      <3> QED BY <2>1, <3>1
    <2>2. CASE n # 1
      <3>1. PICK f : DOMAIN f = 1..(n - 1) /\ Good(f, n - 1)
        BY <1>2, <2>2
      <3> DEFINE h == [i \in 1..n |-> IF i = n THEN f[n - 1] \o q[n] ELSE f[i]]
      <3>2. DOMAIN h = 1..n /\ Good(h, n)
        <4>1. SUFFICES ASSUME NEW i \in 1..n
                       PROVE  h[i] = IF i = 1 THEN q[i] ELSE h[i - 1] \o q[i]
          OBVIOUS
        <4>2. CASE i = n
          <5>1. n \in 1..n /\ n - 1 \in 1..n /\ n - 1 # n
            BY <1>1, <2>2
          <5>2. h[n] = f[n - 1] \o q[n] /\ h[n - 1] = f[n - 1]
            BY <5>1
          <5> HIDE DEF h
          <5> QED BY <2>2, <4>2, <5>2
        <4>3. CASE i # n
          <5>1. i \in 1..(n - 1) /\ h[i] = f[i] /\ (i # 1 => h[i - 1] = f[i - 1])
            BY <4>3
          <5> QED BY <3>1, <5>1
        <4> QED BY <4>2, <4>3
      <3> HIDE DEF h
      <3> QED BY <3>2
    <2> QED BY <2>1, <2>2
  <1>3. \A n \in 1..Len(q) : n \in P
    <2> HIDE DEF P
    <2> QED BY <1>1, <1>2, UpTo
  <1>4. CASE Len(q) = 0
    <2> DEFINE f == [i \in 1..0 |-> i]
    <2>1. Joins(f, q)
      BY <1>4 DEF Joins
    <2> QED BY <2>1
  <1>5. CASE Len(q) # 0
    <2>1. Len(q) \in 1..Len(q)
      BY <1>1, <1>5
    <2>2. \E f : DOMAIN f = 1..Len(q) /\ Good(f, Len(q))
      BY <1>3, <2>1
    <2> QED BY <2>2 DEF Joins
  <1> QED BY <1>4, <1>5

(* FlattenSeq is the last of them. *)
LEMMA Flattened ==
    ASSUME NEW S, NEW q \in Seq(Seq(S))
    PROVE  /\ q = << >> => FlattenSeq(q) = << >>
           /\ q # << >> => \E f : Joins(f, q) /\ FlattenSeq(q) = f[Len(q)]
           /\ FlattenSeq(q) \in Seq(S)
  <1> DEFINE Eq(f) == f = [i \in 1..Len(q) |-> IF i = 1 THEN q[i] ELSE f[i - 1] \o q[i]]
             c == CHOOSE f : Eq(f)
  <1>1. Len(q) \in Nat /\ (q # << >> => Len(q) \in 1..Len(q)) /\ (q = << >> => Len(q) = 0)
    BY EmptySeq
  <1>2. \E f : Eq(f)
    <2>1. PICK f : Joins(f, q)
      BY JoinsExists
    <2> DEFINE h == [i \in 1..Len(q) |-> IF i = 1 THEN q[i] ELSE f[i - 1] \o q[i]]
    <2>2. \A i \in 1..Len(q) : h[i] = f[i]
      BY <2>1 DEF Joins
    <2>3. Eq(h)
      <3>1. \A i \in 1..Len(q) : i # 1 => i - 1 \in 1..Len(q)
        BY <1>1
      <3> QED BY <2>2, <3>1
    <2> HIDE DEF h
    <2> QED BY <2>3
  <1>3. Eq(c)
    <2> HIDE DEF Eq
    <2> QED BY <1>2
  <1>4. FlattenSeq(q) = IF Len(q) = 0 THEN q ELSE c[Len(q)]
    BY DEF FlattenSeq
  <1> HIDE DEF c
  <1>5. Joins(c, q)
    BY <1>3 DEF Joins
  <1>6. CASE q = << >>
    BY <1>1, <1>4, <1>6, EmptySeq
  <1>7. CASE q # << >>
    <2>1. FlattenSeq(q) = c[Len(q)]
      BY <1>1, <1>4, <1>7
    <2>2. c[Len(q)] \in Seq(S)
      BY <1>1, <1>5, <1>7, JoinsTyped
    <2> QED BY <1>5, <1>7, <2>1, <2>2
  <1> QED BY <1>6, <1>7

(* A batch that is queued comes behind the others, *)
LEMMA FlattenAppend ==
    ASSUME NEW S, NEW q \in Seq(Seq(S)), NEW s \in Seq(S)
    PROVE  FlattenSeq(Append(q, s)) = FlattenSeq(q) \o s
  <1> DEFINE n == Len(q)
             a == Append(q, s)
  <1>1. /\ a \in Seq(Seq(S)) /\ a # << >> /\ Len(a) = n + 1 /\ n \in Nat
        /\ \A i \in 1..n : a[i] = q[i]
        /\ a[n + 1] = s
    BY AppendProperties, LenProperties
  <1> HIDE DEF a
  <1>2. PICK h : Joins(h, a) /\ FlattenSeq(a) = h[n + 1]
    BY <1>1, Flattened
  <1>3. CASE q = << >>
    <2>1. n = 0 /\ FlattenSeq(q) = << >>
      BY <1>3, EmptySeq, Flattened
    <2>2. h[1] = s
      BY <1>1, <1>2, <2>1 DEF Joins
    <2> QED BY <1>1, <1>2, <2>1, <2>2, ConcatEmptySeq DEF a
  <1>4. CASE q # << >>
    <2>1. PICK f : Joins(f, q) /\ FlattenSeq(q) = f[n]
      BY <1>4, Flattened
    <2>2. n \in 1..n
      BY <1>1, <1>4, EmptySeq
    <2> HIDE DEF n
    <2> DEFINE P == {i \in 1..n : h[i] = f[i]}
    <2>3. ASSUME NEW i \in 1..n, i = 1 \/ i - 1 \in P
          PROVE  i \in P
      <3>1. f[i] = IF i = 1 THEN q[i] ELSE f[i - 1] \o q[i]
        BY <2>1 DEF Joins, n
      <3>2. i \in 1..Len(a)
        BY <1>1
      <3>3. h[i] = IF i = 1 THEN a[i] ELSE h[i - 1] \o a[i]
        BY <1>2, <3>2 DEF Joins
      <3> QED BY <1>1, <2>3, <3>1, <3>3
    <2>4. \A i \in 1..n : i \in P
      <3> HIDE DEF P
      <3> QED BY <1>1, <2>3, UpTo
    <2>5. h[n] = f[n]
      BY <2>2, <2>4
    <2>6. n + 1 \in 1..Len(a) /\ n + 1 # 1 /\ (n + 1) - 1 = n
      BY <1>1, <2>2
    <2>7. h[n + 1] = h[n] \o s
      BY <1>1, <1>2, <2>6 DEF Joins
    <2> QED BY <1>2, <2>1, <2>5, <2>7 DEF a
  <1> QED BY <1>3, <1>4

(* and the one that is taken came before them. *)
LEMMA FlattenTail ==
    ASSUME NEW S, NEW q \in Seq(Seq(S)), q # << >>
    PROVE  /\ Head(q) \in Seq(S) /\ Tail(q) \in Seq(Seq(S))
           /\ FlattenSeq(q) = Head(q) \o FlattenSeq(Tail(q))
  <1> DEFINE n == Len(q)
             b == Tail(q)
             x == Head(q)
  <1>1. /\ x \in Seq(S) /\ b \in Seq(Seq(S)) /\ Len(b) = n - 1 /\ n \in Nat \ {0}
        /\ \A i \in 1..(n - 1) : b[i] = q[i + 1]
        /\ \A i \in 1..n : q[i] \in Seq(S)
    BY HeadTailProperties, EmptySeq, ElementOfSeq
  <1>2. PICK f : Joins(f, q) /\ FlattenSeq(q) = f[n]
    BY Flattened
  <1>3. x = q[1] /\ f[1] = x
    BY <1>1, <1>2 DEF Joins
  <1> HIDE DEF b, x
  <1>4. CASE b = << >>
    <2>1. b \in Seq(Seq(S)) /\ FlattenSeq(b) = << >>
      BY <1>1, <1>4, Flattened
    <2>2. Len(b) = 0
      BY <1>4, EmptySeq
    <2>3. n = 1
      BY <1>1, <2>2
    <2> QED BY <1>1, <1>2, <1>3, <2>1, <2>3, ConcatEmptySeq DEF b, x
  <1>5. CASE b # << >>
    <2>1. PICK h : Joins(h, b) /\ FlattenSeq(b) = h[n - 1]
      BY <1>1, <1>5, Flattened
    <2>2. n - 1 \in 1..(n - 1)
      BY <1>1, <1>5, EmptySeq
    <2>3. \A i \in 1..n : f[i] = IF i = 1 THEN q[i] ELSE f[i - 1] \o q[i]
      BY <1>2 DEF Joins
    <2>4. \A i \in 1..(n - 1) : h[i] = IF i = 1 THEN b[i] ELSE h[i - 1] \o b[i]
      BY <1>1, <2>1 DEF Joins
    <2>5. \A i \in 1..(n - 1) : h[i] \in Seq(S)
      BY <1>1, <2>1, JoinsTyped
    <2> HIDE DEF n
    <2> DEFINE P == {i \in 1..(n - 1) : f[i + 1] = x \o h[i]}
    <2>6. ASSUME NEW i \in 1..(n - 1), i = 1 \/ i - 1 \in P
          PROVE  i \in P
      <3>1. i + 1 \in 1..n /\ i + 1 # 1 /\ (i + 1) - 1 = i
        BY <1>1
      <3>2. f[i + 1] = f[i] \o b[i] /\ b[i] \in Seq(S)
        BY <1>1, <2>3, <3>1
      <3>3. CASE i = 1
        BY <1>3, <2>4, <3>2, <3>3
      <3>4. CASE i # 1
        <4>1. i - 1 \in 1..(n - 1) /\ (i - 1) + 1 = i
          BY <1>1, <3>4
        <4>2. f[i] = x \o h[i - 1] /\ h[i - 1] \in Seq(S)
          BY <2>5, <2>6, <3>4, <4>1
        <4>3. h[i] = h[i - 1] \o b[i]
          BY <2>4, <3>4
        <4>4. (x \o h[i - 1]) \o b[i] = x \o (h[i - 1] \o b[i])
          <5>1. x \in Seq(S) /\ h[i - 1] \in Seq(S) /\ b[i] \in Seq(S)
            BY <1>1, <3>2, <4>2
          <5>2. \A r, s, t \in Seq(S) : (r \o s) \o t = r \o (s \o t)
            BY ConcatAssociative
          <5> QED BY <5>1, <5>2, Zenon
        <4> QED BY <3>2, <4>2, <4>3, <4>4
      <3> QED BY <3>3, <3>4
    <2>7. \A i \in 1..(n - 1) : i \in P
      <3> HIDE DEF P
      <3>1. n - 1 \in Nat
        BY <1>1
      <3> QED BY <2>6, <3>1, UpTo
    <2>8. f[(n - 1) + 1] = x \o h[n - 1] /\ (n - 1) + 1 = n
      <3>1. f[(n - 1) + 1] = x \o h[n - 1]
        BY <2>2, <2>7
      <3> QED BY <1>1, <3>1
    <2> QED BY <1>1, <1>2, <2>1, <2>8 DEF b, x
  <1> QED BY <1>4, <1>5

-----------------------------------------------------------------------------
(* The invariant. *)

Once(s) == \A i, j \in DOMAIN s : i < j => s[i] # s[j]

\* Of n lines, those written, in the batch, in the queue, held by the timer and
\* by the handler, and in the buffer: none is in two places, or twice in one.
Apart(w, b, q, s, h, f, n) ==
    /\ Once(w) /\ Once(b) /\ Once(q) /\ Once(s) /\ Once(h) /\ Once(f)
    /\ Range(b) \cap Range(w) = {}
    /\ Range(q) \cap (Range(w) \cup Range(b)) = {}
    /\ Range(s) \cap (Range(w) \cup Range(b) \cup Range(q)) = {}
    /\ Range(h) \cap (Range(w) \cup Range(b) \cup Range(q) \cup Range(s)) = {}
    /\ Range(f) \cap (Range(w) \cup Range(b) \cup Range(q) \cup Range(s) \cup Range(h)) = {}
    /\ Range(w) \cup Range(b) \cup Range(q) \cup Range(s) \cup Range(h) \cup Range(f)
         \subseteq 1..n

\* Laid end to end they are lines 1 to n.
Ordered(w, b, q, s, f, n) == w \o (b \o q \o s \o f) = [i \in 1..n |-> i]

\* A line is in one place; and, until a signal comes, behind those before it.
LineInv(g) ==
    /\ Apart(written[g], batch[g], FlattenSeq(queue[g]), Held(Sync, g), Held(Handler, g),
             buffer[g], pushed[g])
    /\ signal = None =>
         Ordered(written[g], batch[g], FlattenSeq(queue[g]), Held(Sync, g), buffer[g],
                 pushed[g])

\* Producers only log, the timer only syncs, and the handler comes with a signal.
RoleInv ==
    /\ \A t \in Producer : pc[t][1] \in {"idle", "push", "pushed"}
    /\ pc[Sync][1] \in {"idle", "sync", "swap", "hand", "queue", "queued", "synced"}
    /\ signal = None => pc[Handler] = <<"idle", "rpc">>

BatchInv == \A g \in Log : loop[g] # "write" => batch[g] = << >>

\* A file is closed, file 0 that was opened for its day, file 0 opened once more
\* though it was over its size, or one behind that, which has no. open + 1 next.
FileOK(f) ==
    \/ f.open = -1 /\ f.no = 0 /\ f.over = 0
    \/ f.open = 0 /\ f.no = 0 /\ f.over = 0
    \/ f.open = 0 /\ f.no = 1 /\ f.over = 1 /\ f.lines > MaxSize
    \/ f.open > 0 /\ f.no = f.open + 1 /\ f.over = 0

LoggerInv ==
    /\ TypeOK
    /\ RoleInv
    /\ BatchInv
    /\ \A g \in Log : FileOK(file[g])
    /\ \A g \in Log : LineInv(g)

-----------------------------------------------------------------------------
(* Types and roles. *)

LEMMA LoggerInitTypes == Init => TypeOK
  <1> SUFFICES ASSUME Init PROVE TypeOK
    OBVIOUS
  <1> USE DEF Init
  <1>1. <<"idle", "rpc">> \in Stage \X Log
    BY DEF Stage, Log
  <1>2. << >> \in Seq(Line) /\ << >> \in Seq(Seq(Line))
    BY EmptySeq
  <1>3. NewFile \in FileRecord
    BY DEF NewFile, FileRecord
  <1>4. "lock" \in {"lock", "check", "waiting", "write", "ended"} /\ 0 \in Nat
    OBVIOUS
  <1> QED BY <1>1, <1>2, <1>3, <1>4 DEF TypeOK

(* Where a thread goes is a stage. *)
LEMMA Gone ==
    ASSUME TypeOK, NEW t \in Thread, NEW s \in Stage, NEW g \in Log, Go(t, s, g)
    PROVE  /\ pc' \in [Thread -> Stage \X Log]
           /\ pc'[t] = <<s, g>> /\ pc'[t][1] = s
           /\ \A u \in Thread : u # t => pc'[u] = pc[u]
  BY DEF TypeOK, Go

LEMMA GoneOn ==
    ASSUME TypeOK, NEW t \in Thread, NEW g \in Log, Then(t, g)
    PROVE  /\ pc' \in [Thread -> Stage \X Log]
           /\ pc'[t] \in {<<"sync", "app">>, <<"synced", "app">>}
           /\ pc'[t][1] \in {"sync", "synced"}
           /\ \A u \in Thread : u # t => pc'[u] = pc[u]
  <1>1. "sync" \in Stage /\ "synced" \in Stage /\ "app" \in Log
    BY DEF Stage, Log
  <1> QED BY <1>1, Gone DEF Then

LEMMA OpenedFile ==
    ASSUME NEW f \in FileRecord, NEW n \in Nat
    PROVE  /\ f.open = n => Opened(f, n) = f
           /\ f.open # n => Opened(f, n) =
                [date |-> f.date, no |-> f.no, open |-> n, lines |-> 0, over |-> 0]
  BY DEF Opened, FileRecord

(* The file of a batch. *)
LEMMA FileKept ==
    ASSUME NEW f \in FileRecord, FileOK(f), NEW date \in Nat, NEW n \in Nat
    PROVE  WithBatch(f, date, n) \in FileRecord /\ FileOK(WithBatch(f, date, n))
  <1> DEFINE f1 == IF f.date # date THEN [NewFile EXCEPT !.date = date] ELSE f
             f2 == IF f1.open = -1 THEN Opened(f1, f1.no) ELSE f1
             f3 == Roll(f2)
             f4 == [f3 EXCEPT !.over = IF f3.lines > MaxSize THEN @ + 1 ELSE @]
             x == [f4 EXCEPT !.lines = @ + n]
  <1> USE DEF FileRecord, FileOK
  <1>0. MaxSize \in Nat
    BY LoggerAssumption
  <1>1. f1 \in FileRecord /\ FileOK(f1)
    BY DEF NewFile
  <1> HIDE DEF f1
  <1>2. f2 \in FileRecord /\ FileOK(f2) /\ f2.open # -1
    <2>1. CASE f1.open = -1
      <3>1. f2 = [date |-> f1.date, no |-> 0, open |-> 0, lines |-> 0, over |-> 0]
        BY <1>1, <2>1, OpenedFile
      <3> QED BY <1>1, <3>1
    <2>2. CASE f1.open # -1
      BY <1>1, <2>2
    <2> QED BY <2>1, <2>2
  <1> HIDE DEF f2
  <1>3. /\ f3 \in FileRecord
        /\ \/ f3.open = 0 /\ f3.no = 0 /\ f3.over = 0 /\ ~ (f3.lines > MaxSize)
           \/ f3.open = 0 /\ f3.no = 1 /\ f3.over = 0 /\ f3.lines > MaxSize
           \/ f3.open > 0 /\ f3.no = f3.open + 1 /\ f3.over = 0 /\ ~ (f3.lines > MaxSize)
    <2>1. CASE ~ (f2.lines > MaxSize)
      BY <1>0, <1>2, <2>1 DEF Roll
    <2>2. CASE f2.lines > MaxSize /\ f2.no = f2.open
      BY <1>0, <1>2, <2>2 DEF Roll, Opened
    <2>3. CASE f2.lines > MaxSize /\ f2.no # f2.open
      <3>1. f2.no \in Nat /\ f2.no = f2.open + 1 /\ f2.open >= 0
        BY <1>2, <2>3
      <3>2. Opened(f2, f2.no) =
              [date |-> f2.date, no |-> f2.no, open |-> f2.no, lines |-> 0, over |-> 0]
        BY <1>2, <2>3, <3>1, OpenedFile
      <3>3. f3 = [date |-> f2.date, no |-> f2.no + 1, open |-> f2.no, lines |-> 0, over |-> 0]
        BY <2>3, <3>2 DEF Roll
      <3> QED BY <1>0, <1>2, <3>1, <3>3
    <2> QED BY <2>1, <2>2, <2>3
  <1> HIDE DEF f3
  <1>4. /\ f4 \in FileRecord
        /\ \/ f4.open = 0 /\ f4.no = 0 /\ f4.over = 0
           \/ f4.open = 0 /\ f4.no = 1 /\ f4.over = 1 /\ f4.lines > MaxSize
           \/ f4.open > 0 /\ f4.no = f4.open + 1 /\ f4.over = 0
    BY <1>0, <1>3
  <1>5. f4 = FileFor(f, date)
    BY DEF FileFor, f3, f2, f1
  <1> HIDE DEF f4
  <1>6. x \in FileRecord /\ FileOK(x)
    BY <1>0, <1>4
  <1> QED BY <1>5, <1>6 DEF WithBatch

\* LoggerInv but for the lines.
Basic ==
    /\ TypeOK
    /\ RoleInv
    /\ BatchInv
    /\ \A g \in Log : FileOK(file[g])

(* A step of one thread, of another than the loops. *)
LEMMA ThreadKeeps ==
    ASSUME Basic, NEW t \in Thread, pc' \in [Thread -> Stage \X Log],
           \A u \in Thread : u # t => pc'[u] = pc[u],
           t \in Producer => pc'[t][1] \in {"idle", "push", "pushed"},
           t = Sync =>
             pc'[t][1] \in {"idle", "sync", "swap", "hand", "queue", "queued", "synced"},
           t = Handler => signal # None,
           tmp' \in [Thread -> Seq(Line)], buffer' \in [Log -> Seq(Line)],
           mutex' \in [Log -> BOOLEAN], qmutex' \in [Log -> BOOLEAN],
           pushed' \in [Log -> Nat], queue' \in [Log -> Seq(Seq(Line))],
           stop' \in [Log -> BOOLEAN],
           UNCHANGED <<batch, file, written, signal>>,
           loop' = loop \/ \E g \in Log : loop' = [loop EXCEPT ![g] = IF @ = "waiting" THEN "lock" ELSE @]
    PROVE  Basic'
  <1>1. loop' \in [Log -> {"lock", "check", "waiting", "write", "ended"}]
    BY ZenonT(40) DEF Basic, TypeOK
  <1>2. TypeOK'
    BY <1>1 DEF Basic, TypeOK
  <1>3. RoleInv'
    <2>1. Sync \in Thread /\ Handler \in Thread /\ Producer \subseteq Thread
          /\ Sync \notin Producer /\ Handler \notin Producer /\ Handler # Sync
      BY LoggerAssumption DEF Thread
    <2>2. \A u \in Producer : pc'[u][1] \in {"idle", "push", "pushed"}
      BY <2>1 DEF Basic, RoleInv
    <2>3. pc'[Sync][1] \in {"idle", "sync", "swap", "hand", "queue", "queued", "synced"}
      BY <2>1 DEF Basic, RoleInv
    <2>4. signal' = None => pc'[Handler] = <<"idle", "rpc">>
      BY <2>1 DEF Basic, RoleInv
    <2> QED BY <2>2, <2>3, <2>4 DEF RoleInv
  <1>4. BatchInv'
    <2>1. \A g \in Log : loop'[g] # "write" => loop[g] # "write"
      BY DEF Basic, TypeOK
    <2> QED BY <2>1 DEF Basic, BatchInv
  <1> QED BY <1>2, <1>3, <1>4 DEF Basic

(* Who can be where. *)
LEMMA Whereabouts ==
    ASSUME Basic, NEW t \in Thread
    PROVE  /\ pc[t][1] \in {"swap", "hand", "queue", "queued", "synced", "sync"} =>
                t \in {Sync, Handler} /\ t \notin Producer
           /\ pc[t][1] = "log" => t = Handler
           /\ pc[t][1] \in {"push", "pushed"} => t \in Producer \cup {Handler} /\ t # Sync
           /\ pc[t] # <<"idle", "rpc">> /\ t = Handler => signal # None
           /\ pc[t][1] # "idle" /\ t = Handler => signal # None
  BY LoggerAssumption DEF Basic, RoleInv, Thread

LEMMA LogKeeps ==
    ASSUME Basic, NEW t \in Thread, NEW g \in Log,
           LogLine(t, g) \/ Push(t, g) \/ Pushed(t, g)
    PROVE  Basic'
  <1> USE DEF At, Lock, Unlock, async
  <1>0. TypeOK
    BY DEF Basic
  <1>1. CASE LogLine(t, g)
    <2>1. "push" \in Stage /\ Go(t, "push", g)
      BY <1>1 DEF LogLine, Stage
    <2>2. (t \in Producer /\ t # Handler /\ t # Sync) \/ pc[t][1] = "log"
      BY <1>1, LoggerAssumption DEF LogLine
    <2>3. t # Sync /\ (t = Handler => signal # None)
      BY <2>2, Whereabouts, LoggerAssumption
    <2> QED BY <1>0, <1>1, <2>1, <2>3, Gone, ThreadKeeps DEF LogLine, TypeOK
  <1>2. CASE Push(t, g)
    <2>1. "pushed" \in Stage /\ Go(t, "pushed", g) /\ pc[t][1] = "push"
      BY <1>2 DEF Push, Stage
    <2>2. t # Sync /\ (t = Handler => signal # None)
      BY <2>1, Whereabouts
    <2>3. pushed[g] + 1 \in Line /\ pushed[g] + 1 \in Nat /\ buffer[g] \in Seq(Line)
      BY <1>0 DEF TypeOK, Line
    <2>4. Append(buffer[g], pushed[g] + 1) \in Seq(Line)
      BY <2>3, AppendProperties
    <2>5. buffer' \in [Log -> Seq(Line)] /\ pushed' \in [Log -> Nat]
      BY <1>0, <1>2, <2>3, <2>4 DEF Push, TypeOK
    <2> QED BY <1>0, <1>2, <2>1, <2>2, <2>5, Gone, ThreadKeeps DEF Push, TypeOK
  <1>3. CASE Pushed(t, g)
    <2>1. "sync" \in Stage /\ "idle" \in Stage /\ "rpc" \in Log /\ pc[t][1] = "pushed"
      BY <1>3 DEF Pushed, Stage, Log
    <2>2. t # Sync /\ (t = Handler => signal # None /\ t \notin Producer)
      BY <2>1, Whereabouts, LoggerAssumption
    <2>3. CASE t = Handler
      BY <1>0, <1>3, <2>1, <2>2, <2>3, Gone, ThreadKeeps DEF Pushed, TypeOK
    <2>4. CASE t # Handler
      BY <1>0, <1>3, <2>1, <2>2, <2>4, Gone, ThreadKeeps DEF Pushed, TypeOK
    <2> QED BY <2>3, <2>4
  <1> QED BY <1>1, <1>2, <1>3

LEMMA SyncKeeps ==
    ASSUME Basic, NEW t \in Thread, NEW g \in Log,
           SyncLoop(t, g) \/ Swap(t, g) \/ Hand(t, g) \/ Queue(t, g) \/ Queued(t, g) \/ Synced(t)
    PROVE  Basic'
  <1> USE DEF At, Lock, Unlock, async
  <1>0. TypeOK /\ "rpc" \in Log /\ "app" \in Log /\ << >> \in Seq(Line)
    BY EmptySeq DEF Basic, Log
  <1>1. /\ (t = Sync \/ t = Handler) /\ t \notin Producer
        /\ t = Handler => signal # None
    <2>1. (t = Sync /\ pc[t][1] = "idle")
          \/ pc[t][1] \in {"swap", "hand", "queue", "queued", "synced", "sync"}
      BY DEF SyncLoop, Swap, Hand, Queue, Queued, Synced
    <2> QED BY <2>1, Whereabouts, LoggerAssumption
  <1>2. ASSUME Then(t, g)
        PROVE  /\ pc' \in [Thread -> Stage \X Log]
               /\ pc'[t][1] \in {"sync", "synced"}
               /\ \A u \in Thread : u # t => pc'[u] = pc[u]
    BY <1>0, <1>2, GoneOn
  <1>3. ASSUME NEW s \in Stage, NEW k \in Log, Go(t, s, k)
        PROVE  /\ pc' \in [Thread -> Stage \X Log]
               /\ pc'[t][1] = s
               /\ \A u \in Thread : u # t => pc'[u] = pc[u]
    BY <1>0, <1>3, Gone
  <1>4. {"swap", "hand", "queue", "queued", "stop", "idle"} \subseteq Stage
    BY DEF Stage
  <1>5. CASE SyncLoop(t, g)
    <2>1. Go(t, "swap", g)
      BY <1>5 DEF SyncLoop
    <2>2. /\ pc' \in [Thread -> Stage \X Log] /\ pc'[t][1] = "swap"
          /\ \A u \in Thread : u # t => pc'[u] = pc[u]
      BY <1>3, <1>4, <2>1
    <2> QED BY <1>0, <1>1, <1>5, <2>2, ThreadKeeps DEF SyncLoop, TypeOK
  <1>6. CASE Swap(t, g)
    <2>1. /\ pc' \in [Thread -> Stage \X Log] /\ pc'[t][1] \in {"hand", "sync", "synced"}
          /\ \A u \in Thread : u # t => pc'[u] = pc[u]
      <3>1. CASE buffer[g] # << >>
        BY <1>3, <1>4, <1>6, <3>1 DEF Swap
      <3>2. CASE buffer[g] = << >>
        BY <1>2, <1>6, <3>2 DEF Swap
      <3> QED BY <3>1, <3>2
    <2>2. t = Handler => signal # None /\ t # Sync
      BY <1>1, LoggerAssumption
    <2>3. /\ tmp' \in [Thread -> Seq(Line)] /\ buffer' \in [Log -> Seq(Line)]
          /\ mutex' \in [Log -> BOOLEAN]
      BY <1>0, <1>6 DEF Swap, TypeOK
    <2> QED BY <1>0, <1>1, <1>6, <2>1, <2>2, <2>3, ThreadKeeps DEF Swap, TypeOK
  <1>7. CASE Hand(t, g)
    <2>1. /\ pc' \in [Thread -> Stage \X Log] /\ pc'[t][1] = "queue"
          /\ \A u \in Thread : u # t => pc'[u] = pc[u]
      BY <1>3, <1>4, <1>7 DEF Hand
    <2> QED BY <1>0, <1>1, <1>7, <2>1, ThreadKeeps DEF Hand, TypeOK
  <1>8. CASE Queue(t, g)
    <2>1. /\ pc' \in [Thread -> Stage \X Log] /\ pc'[t][1] = "queued"
          /\ \A u \in Thread : u # t => pc'[u] = pc[u]
      BY <1>3, <1>4, <1>8 DEF Queue
    <2>2. Append(queue[g], tmp[t]) \in Seq(Seq(Line))
      <3>1. queue[g] \in Seq(Seq(Line)) /\ tmp[t] \in Seq(Line)
        BY <1>0 DEF TypeOK
      <3> QED BY <3>1, AppendProperties
    <2>3. /\ tmp' \in [Thread -> Seq(Line)] /\ queue' \in [Log -> Seq(Seq(Line))]
          /\ qmutex' \in [Log -> BOOLEAN]
      BY <1>0, <1>8, <2>2 DEF Queue, TypeOK
    <2>4. \E k \in Log : loop' = [loop EXCEPT ![k] = IF @ = "waiting" THEN "lock" ELSE @]
      BY <1>8 DEF Queue
    <2> QED BY <1>0, <1>1, <1>8, <2>1, <2>3, <2>4, ThreadKeeps DEF Queue, TypeOK
  <1>9. CASE Queued(t, g)
    <2>1. /\ pc' \in [Thread -> Stage \X Log] /\ pc'[t][1] \in {"sync", "synced"}
          /\ \A u \in Thread : u # t => pc'[u] = pc[u]
      BY <1>2, <1>9 DEF Queued
    <2> QED BY <1>0, <1>1, <1>9, <2>1, ThreadKeeps DEF Queued, TypeOK
  <1>10. CASE Synced(t)
    <2>1. /\ pc' \in [Thread -> Stage \X Log]
          /\ t # Handler => pc'[t][1] = "idle"
          /\ \A u \in Thread : u # t => pc'[u] = pc[u]
      <3>1. CASE t = Handler
        BY <1>0, <1>3, <1>4, <1>10, <3>1 DEF Synced
      <3>2. CASE t # Handler
        BY <1>0, <1>3, <1>4, <1>10, <3>2 DEF Synced
      <3> QED BY <3>1, <3>2
    <2>2. t = Sync => t # Handler
      BY LoggerAssumption
    <2> QED BY <1>0, <1>1, <1>10, <2>1, <2>2, ThreadKeeps DEF Synced, TypeOK
  <1> QED BY <1>5, <1>6, <1>7, <1>8, <1>9, <1>10

LEMMA HandlerKeeps ==
    ASSUME Basic,
           \/ Stop
           \/ \E g \in Log : Join(g)
           \/ \E t \in Interrupted : Interrupt(t)
    PROVE  Basic'
  <1> USE DEF At, async
  <1>0. /\ TypeOK /\ "rpc" \in Log /\ "app" \in Log /\ Handler \in Thread
        /\ Handler # Sync /\ Handler \notin Producer
        /\ {"join", "dead", "log"} \subseteq Stage
    BY LoggerAssumption DEF Basic, Log, Thread, Stage
  <1>1. ASSUME NEW s \in Stage, NEW k \in Log, Go(Handler, s, k)
        PROVE  /\ pc' \in [Thread -> Stage \X Log]
               /\ \A u \in Thread : u # Handler => pc'[u] = pc[u]
    BY <1>0, <1>1, Gone
  <1>2. CASE Stop
    <2>1. /\ pc' \in [Thread -> Stage \X Log]
          /\ \A u \in Thread : u # Handler => pc'[u] = pc[u]
      BY <1>0, <1>1, <1>2 DEF Stop
    <2>2. signal # None
      BY <1>0, <1>2, Whereabouts DEF Stop
    <2> QED BY <1>0, <1>2, <2>1, <2>2, ThreadKeeps DEF Stop, TypeOK
  <1>3. ASSUME NEW g \in Log, Join(g)
        PROVE  Basic'
    <2>1. /\ pc' \in [Thread -> Stage \X Log]
          /\ \A u \in Thread : u # Handler => pc'[u] = pc[u]
      <3>1. CASE g = "rpc"
        BY <1>0, <1>1, <1>3, <3>1 DEF Join
      <3>2. CASE g # "rpc"
        BY <1>0, <1>1, <1>3, <3>2 DEF Join
      <3> QED BY <3>1, <3>2
    <2>2. signal # None
      <3>1. pc[Handler][1] = "join"
        BY <1>3 DEF Join
      <3> QED BY <1>0, <3>1, Whereabouts
    <2> QED BY <1>0, <1>3, <2>1, <2>2, ThreadKeeps DEF Join, TypeOK
  <1>4. ASSUME NEW t \in Interrupted, Interrupt(t)
        PROVE  Basic'
    <2>1. /\ pc' \in [Thread -> Stage \X Log]
          /\ \A u \in Thread : u # Handler => pc'[u] = pc[u]
      BY <1>0, <1>1, <1>4 DEF Interrupt
    <2>2. signal' = t /\ t # None
      BY <1>4, LoggerAssumption DEF Interrupt
    <2>3. TypeOK'
      BY <1>0, <1>4, <2>1 DEF Interrupt, TypeOK
    <2>4. RoleInv'
      BY <1>0, <2>1, <2>2 DEF Basic, RoleInv, Thread
    <2> QED BY <1>4, <2>3, <2>4 DEF Basic, BatchInv, Interrupt
  <1> QED BY <1>2, <1>3, <1>4

LEMMA LoopKeeps ==
    ASSUME Basic, NEW g \in Log, Loop(g)
    PROVE  Basic'
  <1> USE DEF logger
  <1>0. TypeOK /\ << >> \in Seq(Line)
    BY EmptySeq DEF Basic
  <1>1. CASE LoopLock(g) \/ LoopWait(g)
    <2>1. TypeOK'
      BY <1>0, <1>1 DEF LoopLock, LoopWait, TypeOK
    <2>2. RoleInv' /\ BatchInv'
      BY <1>0, <1>1 DEF LoopLock, LoopWait, Basic, RoleInv, BatchInv, TypeOK
    <2> QED BY <1>1, <2>1, <2>2 DEF Basic, LoopLock, LoopWait
  <1>2. CASE LoopTake(g)
    <2>1. /\ Head(queue[g]) \in Seq(Line) /\ Tail(queue[g]) \in Seq(Seq(Line))
      <3>1. queue[g] \in Seq(Seq(Line)) /\ queue[g] # << >>
        BY <1>0, <1>2 DEF LoopTake, TypeOK
      <3> QED BY <3>1, HeadTailProperties
    <2>2. TypeOK'
      BY <1>0, <1>2, <2>1 DEF LoopTake, TypeOK
    <2>3. RoleInv' /\ BatchInv'
      BY <1>0, <1>2 DEF LoopTake, Basic, RoleInv, BatchInv, TypeOK
    <2> QED BY <1>2, <2>2, <2>3 DEF Basic, LoopTake
  <1>3. CASE LoopWrite(g)
    <2>1. written[g] \o batch[g] \in Seq(Line) /\ Len(batch[g]) \in Nat
      <3>1. written[g] \in Seq(Line) /\ batch[g] \in Seq(Line)
        BY <1>0 DEF TypeOK
      <3> QED BY <3>1, ConcatProperties, LenProperties
    <2>2. PICK date \in 1..MaxDays :
            file' = [file EXCEPT ![g] = WithBatch(@, date, Len(batch[g]))]
      BY <1>3 DEF LoopWrite
    <2> DEFINE x == WithBatch(file[g], date, Len(batch[g]))
    <2>3. x \in FileRecord /\ FileOK(x)
      <3>1. file[g] \in FileRecord /\ FileOK(file[g]) /\ date \in Nat
        BY LoggerAssumption DEF Basic, TypeOK
      <3> QED BY <2>1, <3>1, FileKept
    <2> HIDE DEF x
    <2>4. file' = [file EXCEPT ![g] = x]
      BY <2>2 DEF x
    <2>5. file' \in [Log -> FileRecord] /\ \A k \in Log : FileOK(file'[k])
      <3>1. \A k \in Log : file'[k] = IF k = g THEN x ELSE file[k]
        BY <1>0, <2>4 DEF TypeOK
      <3>2. \A k \in Log : FileOK(file'[k])
        BY <2>3, <3>1 DEF Basic
      <3> QED BY <1>0, <2>3, <2>4, <3>2 DEF TypeOK
    <2>6. TypeOK'
      BY <1>0, <1>3, <2>1, <2>5 DEF LoopWrite, TypeOK
    <2>7. RoleInv' /\ BatchInv'
      BY <1>0, <1>3 DEF LoopWrite, Basic, RoleInv, BatchInv, TypeOK
    <2> QED BY <2>5, <2>6, <2>7 DEF Basic
  <1> QED BY <1>1, <1>2, <1>3 DEF Loop

LEMMA BasicInvariant == Spec => []Basic
  <1>1. Init => Basic
    <2> SUFFICES ASSUME Init PROVE Basic
      OBVIOUS
    <2>1. TypeOK
      BY LoggerInitTypes
    <2>2. RoleInv /\ BatchInv
      BY LoggerAssumption DEF Init, RoleInv, BatchInv, Thread
    <2>3. \A g \in Log : FileOK(file[g])
      BY DEF Init, FileOK, NewFile
    <2> QED BY <2>1, <2>2, <2>3 DEF Basic
  <1>2. Basic /\ [Next]_vars => Basic'
    <2> SUFFICES ASSUME Basic, [Next]_vars PROVE Basic'
      OBVIOUS
    <2>1. ASSUME NEW t \in Thread, Step(t) PROVE Basic'
      BY <2>1, LogKeeps, SyncKeeps, HandlerKeeps DEF Step, Log
    <2>2. ASSUME NEW t \in Thread, NEW g \in Log, LogLine(t, g) PROVE Basic'
      BY <2>2, LogKeeps
    <2>3. ASSUME NEW t \in Interrupted, Interrupt(t) PROVE Basic'
      BY <2>3, HandlerKeeps
    <2>4. ASSUME NEW g \in Log, Loop(g) PROVE Basic'
      BY <2>4, LoopKeeps
    <2>5. CASE UNCHANGED vars
      BY <2>5 DEF vars, Basic, TypeOK, RoleInv, BatchInv
    <2> QED BY <2>1, <2>2, <2>3, <2>4, <2>5 DEF Next
  <1> QED BY <1>1, <1>2, PTL DEF Spec

(* The logger's types. *)
THEOREM LoggerTyping == Spec => []TypeOK
  <1>1. Basic => TypeOK
    BY DEF Basic
  <1> QED BY <1>1, BasicInvariant, PTL

(* No batch is begun in a file that is over its size, apart from one in file *)
(* 0, however many days, files and batches there are (log.cc, Loop).         *)
THEOREM FilesRollOver == Spec => []FilesRoll
  <1>1. Basic => FilesRoll
    <2> SUFFICES ASSUME Basic, NEW g \in Log
                 PROVE  file[g].over <= IF file[g].open = 0 THEN 1 ELSE 0
      BY DEF FilesRoll
    <2>1. FileOK(file[g])
      BY DEF Basic
    <2> QED BY <2>1 DEF FileOK
  <1> QED BY <1>1, BasicInvariant, PTL

-----------------------------------------------------------------------------
(* Where the lines are, and in which order. *)

(* The lines of two sequences, one behind the other. *)
LEMMA Laid ==
    ASSUME NEW S, NEW x \in Seq(S), NEW y \in Seq(S)
    PROVE  /\ x \o y \in Seq(S)
           /\ Range(x \o y) = Range(x) \cup Range(y)
           /\ Once(x) /\ Once(y) /\ Range(x) \cap Range(y) = {} => Once(x \o y)
           /\ Once(x \o y) => Once(x) /\ Once(y) /\ Range(x) \cap Range(y) = {}
  <1> DEFINE n == Len(x)
             m == Len(y)
             z == x \o y
  <1>1. /\ n \in Nat /\ m \in Nat /\ DOMAIN x = 1..n /\ DOMAIN y = 1..m
        /\ z \in Seq(S) /\ DOMAIN z = 1..(n + m)
        /\ \A i \in 1..(n + m) : z[i] = IF i <= n THEN x[i] ELSE y[i - n]
    BY ConcatProperties, LenProperties
  <1> HIDE DEF n, m, z
  <1>2. /\ \A i \in 1..n : i \in 1..(n + m) /\ z[i] = x[i]
        /\ \A i \in 1..m : n + i \in 1..(n + m) /\ z[n + i] = y[i]
    BY <1>1
  <1>r. /\ \A l : l \in Range(x) <=> \E i \in 1..n : x[i] = l
        /\ \A l : l \in Range(y) <=> \E i \in 1..m : y[i] = l
        /\ \A l : l \in Range(z) <=> \E i \in 1..(n + m) : z[i] = l
    <2>1. Range(x) = {x[i] : i \in 1..n} /\ Range(y) = {y[i] : i \in 1..m}
          /\ Range(z) = {z[i] : i \in 1..(n + m)}
      BY <1>1 DEF Range
    <2> QED BY <2>1
  <1>o. /\ Once(x) <=> \A i, j \in 1..n : i < j => x[i] # x[j]
        /\ Once(y) <=> \A i, j \in 1..m : i < j => y[i] # y[j]
        /\ Once(z) <=> \A i, j \in 1..(n + m) : i < j => z[i] # z[j]
    BY <1>1 DEF Once
  <1>3. Range(z) = Range(x) \cup Range(y)
    <2>1. ASSUME NEW i \in 1..(n + m) PROVE z[i] \in Range(x) \cup Range(y)
      <3>1. CASE i <= n
        <4>1. i \in 1..n /\ z[i] = x[i]
          BY <1>1, <3>1
        <4> QED BY <1>r, <4>1
      <3>2. CASE i > n
        <4>1. i - n \in 1..m /\ z[i] = y[i - n]
          BY <1>1, <3>2
        <4> QED BY <1>r, <4>1
      <3> QED BY <1>1, <3>1, <3>2
    <2>2. Range(z) \subseteq Range(x) \cup Range(y)
      BY <1>r, <2>1
    <2>3. Range(x) \subseteq Range(z) /\ Range(y) \subseteq Range(z)
      BY <1>r, <1>2
    <2> QED BY <2>2, <2>3
  <1>4. ASSUME Once(x), Once(y), Range(x) \cap Range(y) = {} PROVE Once(z)
    <2> SUFFICES ASSUME NEW i \in 1..(n + m), NEW j \in 1..(n + m), i < j PROVE z[i] # z[j]
      BY <1>o
    <2>1. CASE j <= n
      <3>1. i \in 1..n /\ j \in 1..n
        BY <1>1, <2>1
      <3> QED BY <1>2, <1>4, <1>o, <3>1
    <2>2. CASE i > n
      <3>1. i - n \in 1..m /\ j - n \in 1..m /\ i - n < j - n
        BY <1>1, <2>2
      <3>2. z[i] = y[i - n] /\ z[j] = y[j - n]
        BY <1>1, <2>2
      <3> QED BY <1>4, <1>o, <3>1, <3>2
    <2>3. CASE i <= n /\ j > n
      <3>1. i \in 1..n /\ j - n \in 1..m
        BY <1>1, <2>3
      <3>2. z[i] \in Range(x) /\ z[j] \in Range(y)
        <4>1. z[i] = x[i] /\ z[j] = y[j - n]
          BY <1>1, <2>3
        <4> QED BY <1>r, <3>1, <4>1
      <3> QED BY <1>4, <3>2
    <2> QED BY <1>1, <2>1, <2>2, <2>3
  <1>5. ASSUME Once(z) PROVE Once(x) /\ Once(y) /\ Range(x) \cap Range(y) = {}
    <2>1. Once(x)
      BY <1>2, <1>5, <1>o
    <2>2. Once(y)
      <3> SUFFICES ASSUME NEW i \in 1..m, NEW j \in 1..m, i < j PROVE y[i] # y[j]
        BY <1>o
      <3>1. n + i < n + j
        BY <1>1
      <3> QED BY <1>2, <1>5, <1>o, <3>1
    <2>3. ASSUME NEW i \in 1..n, NEW j \in 1..m PROVE x[i] # y[j]
      <3>1. i < n + j
        BY <1>1
      <3> QED BY <1>2, <1>5, <1>o, <3>1
    <2>4. Range(x) \cap Range(y) = {}
      BY <1>r, <2>3
    <2> QED BY <2>1, <2>2, <2>4
  <1> QED BY <1>1, <1>3, <1>4, <1>5 DEF z

LEMMA Nowhere == Once(<< >>) /\ Range(<< >>) = {}
  BY DEF Once, Range

LEMMA ConcatAssociates ==
    ASSUME NEW S
    PROVE  /\ \A x, y, z \in Seq(S) : (x \o y) \o z = x \o (y \o z)
           /\ \A x, y \in Seq(S) : x \o y \in Seq(S)
           /\ \A x \in Seq(S) : << >> \o x = x /\ x \o << >> = x
           /\ << >> \in Seq(S)
  <1>1. \A x, y, z \in Seq(S) : (x \o y) \o z = x \o (y \o z)
    BY ConcatAssociative
  <1> QED BY <1>1, ConcatProperties, ConcatEmptySeq, EmptySeq

LEMMA OneMore ==
    ASSUME NEW S, NEW x \in Seq(S), NEW e \in S
    PROVE  <<e>> \in Seq(S) /\ Append(x, e) = x \o <<e>> /\ Once(<<e>>) /\ Range(<<e>>) = {e}
  <1>1. Append(x, e) = x \o <<e>>
    BY AppendIsConcat
  <1>2. Once(<<e>>) /\ Range(<<e>>) = {e}
    BY DEF Once, Range
  <1> QED BY <1>1, <1>2

(* A line that is pushed is a new one, and the last. *)
LEMMA PushedApart ==
    ASSUME NEW w \in Seq(Line), NEW b \in Seq(Line), NEW q \in Seq(Line), NEW s \in Seq(Line),
           NEW h \in Seq(Line), NEW f \in Seq(Line), NEW n \in Nat, Apart(w, b, q, s, h, f, n)
    PROVE  Apart(w, b, q, s, h, Append(f, n + 1), n + 1)
  <1> DEFINE l == <<n + 1>>
  <1>0. n + 1 \in Line
    BY DEF Line
  <1>1. l \in Seq(Line) /\ Append(f, n + 1) = f \o l
    BY <1>0, OneMore
  <1>2. Once(l) /\ Range(l) = {n + 1}
    BY <1>0, OneMore
  <1>3. n + 1 \notin 1..n /\ 1..n \subseteq 1..(n + 1) /\ n + 1 \in 1..(n + 1)
    OBVIOUS
  <1> HIDE DEF l
  <1>4. n + 1 \notin Range(f)
    BY <1>3 DEF Apart
  <1>5. Range(f \o l) = Range(f) \cup {n + 1} /\ Once(f \o l)
    <2>1. Once(f) /\ Range(f) \cap Range(l) = {}
      BY <1>2, <1>4 DEF Apart
    <2> QED BY <1>1, <1>2, <2>1, Laid
  <1> DEFINE y == Append(f, n + 1)
  <1>6. Once(y) /\ Range(y) = Range(f) \cup {n + 1}
    BY <1>1, <1>5
  <1> HIDE DEF y
  <1>7. Apart(w, b, q, s, h, y, n + 1)
    <2> DEFINE R == Range(w) \cup Range(b) \cup Range(q) \cup Range(s) \cup Range(h)
    <2>1. R \subseteq 1..n /\ Range(f) \subseteq 1..n /\ Range(f) \cap R = {}
      BY Zenon DEF Apart
    <2>2. Range(y) \cap R = {} /\ R \cup Range(y) \subseteq 1..(n + 1)
      BY <1>3, <1>6, <2>1
    <2> QED BY <1>6, <2>2, Zenon DEF Apart
  <1> QED BY <1>7 DEF y

(* Lines that are moved on stay apart: into a hand that is empty, *)
LEMMA SwappedApart ==
    ASSUME NEW w \in Seq(Line), NEW b \in Seq(Line), NEW q \in Seq(Line), NEW s \in Seq(Line),
           NEW h \in Seq(Line), NEW f \in Seq(Line), NEW n \in Nat, Apart(w, b, q, s, h, f, n)
    PROVE  /\ s = << >> => Apart(w, b, q, f, h, << >>, n)
           /\ h = << >> => Apart(w, b, q, s, f, << >>, n)
  BY Nowhere DEF Apart

(* from it to the end of the queue, *)
LEMMA QueuedApart ==
    ASSUME NEW w \in Seq(Line), NEW b \in Seq(Line), NEW q \in Seq(Line), NEW s \in Seq(Line),
           NEW h \in Seq(Line), NEW f \in Seq(Line), NEW n \in Nat, Apart(w, b, q, s, h, f, n)
    PROVE  /\ Apart(w, b, q \o s, << >>, h, f, n)
           /\ Apart(w, b, q \o h, s, << >>, f, n)
  <1>1. /\ Range(q \o s) = Range(q) \cup Range(s) /\ Range(q \o h) = Range(q) \cup Range(h)
        /\ Once(q \o s) /\ Once(q \o h)
    <2>1. Once(q) /\ Once(s) /\ Once(h) /\ Range(q) \cap Range(s) = {} /\ Range(q) \cap Range(h) = {}
      BY DEF Apart
    <2> QED BY <2>1, Laid
  <1> QED BY <1>1, Nowhere DEF Apart

(* from its beginning into the batch, and from there to the files. *)
LEMMA TakenApart ==
    ASSUME NEW w \in Seq(Line), NEW x \in Seq(Line), NEW q \in Seq(Line), NEW s \in Seq(Line),
           NEW h \in Seq(Line), NEW f \in Seq(Line), NEW n \in Nat,
           Apart(w, << >>, x \o q, s, h, f, n)
    PROVE  Apart(w, x, q, s, h, f, n)
  <1>1. /\ Range(x \o q) = Range(x) \cup Range(q)
        /\ Once(x) /\ Once(q) /\ Range(x) \cap Range(q) = {}
    <2>1. Once(x \o q)
      BY DEF Apart
    <2> QED BY <2>1, Laid
  <1> QED BY <1>1 DEF Apart

LEMMA WrittenApart ==
    ASSUME NEW w \in Seq(Line), NEW b \in Seq(Line), NEW q \in Seq(Line), NEW s \in Seq(Line),
           NEW h \in Seq(Line), NEW f \in Seq(Line), NEW n \in Nat, Apart(w, b, q, s, h, f, n)
    PROVE  Apart(w \o b, << >>, q, s, h, f, n)
  <1>1. Range(w \o b) = Range(w) \cup Range(b) /\ Once(w \o b)
    <2>1. Once(w) /\ Once(b) /\ Range(w) \cap Range(b) = {}
      BY DEF Apart
    <2> QED BY <2>1, Laid
  <1> QED BY <1>1, Nowhere DEF Apart

(* None of these moves changes the order of the lines. *)
LEMMA OrderKept ==
    ASSUME NEW w \in Seq(Line), NEW b \in Seq(Line), NEW q \in Seq(Line), NEW s \in Seq(Line),
           NEW f \in Seq(Line), NEW x \in Seq(Line), NEW n \in Nat
    PROVE  /\ Ordered(w, b, q, << >>, f, n) => Ordered(w, b, q, f, << >>, n)
           /\ Ordered(w, b, q, s, f, n) => Ordered(w, b, q \o s, << >>, f, n)
           /\ Ordered(w, << >>, x \o q, s, f, n) => Ordered(w, x, q, s, f, n)
           /\ Ordered(w, b, q, s, f, n) => Ordered(w \o b, << >>, q, s, f, n)
           /\ Ordered(w, b, q, s, f, n) => Ordered(w, b, q, s, Append(f, n + 1), n + 1)
  <1>a. \A r, u, v \in Seq(Line) : (r \o u) \o v = r \o (u \o v)
    BY ConcatAssociates
  <1>1. /\ \A r, u \in Seq(Line) : r \o u \in Seq(Line)
        /\ \A r \in Seq(Line) : << >> \o r = r /\ r \o << >> = r
        /\ << >> \in Seq(Line)
    BY ConcatAssociates
  <1>2. /\ b \o q \in Seq(Line) /\ q \o s \in Seq(Line) /\ b \o q \o f \in Seq(Line)
        /\ x \o q \in Seq(Line)
    BY <1>1, Zenon
  <1>3. b \o q \o s \in Seq(Line) /\ q \o s \o f \in Seq(Line)
    BY <1>1, <1>2, Zenon
  <1>4. b \o q \o << >> \o f = b \o q \o f \o << >>
    <2>1. b \o q \o << >> = b \o q
      BY <1>1, <1>2, Zenon
    <2>2. b \o q \o f \o << >> = b \o q \o f
      BY <1>1, <1>2, Zenon
    <2> QED BY <2>1, <2>2, Zenon
  <1>5. b \o q \o s \o f = b \o (q \o s) \o << >> \o f
    <2>1. (b \o q) \o s = b \o (q \o s)
      BY <1>a, ZenonT(40)
    <2>2. (b \o q \o s) \o << >> = b \o q \o s
      BY <1>1, <1>3, Zenon
    <2> QED BY <2>1, <2>2, Zenon
  <1>6. << >> \o (x \o q) \o s \o f = x \o q \o s \o f
    <2>1. << >> \o (x \o q) = x \o q
      BY <1>1, <1>2, Zenon
    <2> QED BY <2>1, Zenon
  <1>7. w \o (b \o q \o s \o f) = (w \o b) \o (<< >> \o q \o s \o f)
    <2>1. b \o q \o s \o f = b \o (q \o s \o f)
      <3>1. (b \o q) \o s = b \o (q \o s)
        BY <1>a, ZenonT(40)
      <3>2. (b \o (q \o s)) \o f = b \o ((q \o s) \o f)
        <4>1. \A u, v \in Seq(Line) : (b \o u) \o v = b \o (u \o v)
          BY <1>a, Zenon
        <4>2. \A v \in Seq(Line) : (b \o (q \o s)) \o v = b \o ((q \o s) \o v)
          BY <1>2, <4>1, Zenon
        <4> QED BY <4>2, Zenon
      <3> QED BY <3>1, <3>2, Zenon
    <2>2. << >> \o q = q
      BY <1>1, Zenon
    <2>3. (w \o b) \o (q \o s \o f) = w \o (b \o (q \o s \o f))
      <3>1. \A v \in Seq(Line) : (w \o b) \o v = w \o (b \o v)
        BY <1>a, Zenon
      <3> QED BY <1>3, <3>1, Zenon
    <2> QED BY <2>1, <2>2, <2>3, Zenon
  <1>8. ASSUME Ordered(w, b, q, s, f, n) PROVE Ordered(w, b, q, s, Append(f, n + 1), n + 1)
    <2> DEFINE l == <<n + 1>>
               d == b \o q \o s
               z == w \o (d \o f)
    <2>0. n + 1 \in Line
      BY DEF Line
    <2>1. l \in Seq(Line) /\ Append(f, n + 1) = f \o l
      BY <2>0, OneMore
    <2>2. d \in Seq(Line) /\ d \o f \in Seq(Line) /\ z \in Seq(Line)
      <3>1. d \in Seq(Line) /\ d \o f \in Seq(Line)
        BY <1>1, <1>3, Zenon
      <3> QED BY <1>1, <3>1, Zenon
    <2>3. z = [i \in 1..n |-> i]
      BY <1>8 DEF Ordered
    <2> HIDE DEF l, d, z
    <2>4. w \o (d \o (f \o l)) = z \o l
      <3>1. \A u, v \in Seq(Line) : (u \o f) \o v = u \o (f \o v)
        BY <1>a, Zenon
      <3>2. d \o (f \o l) = (d \o f) \o l
        BY <2>1, <2>2, <3>1, Zenon
      <3>3. \A u, v \in Seq(Line) : (w \o u) \o v = w \o (u \o v)
        BY <1>a, Zenon
      <3>4. w \o ((d \o f) \o l) = (w \o (d \o f)) \o l
        BY <2>1, <2>2, <3>3, Zenon
      <3> QED BY <3>2, <3>4, Zenon DEF z
    <2>5. z \o l = Append(z, n + 1)
      BY <2>0, <2>2, OneMore DEF l
    <2>6. Append(z, n + 1) = [i \in 1..(n + 1) |-> i]
      <3>1. Len(z) = n
        BY <2>3
      <3>2. Append(z, n + 1) = [i \in 1..(n + 1) |-> IF i = n + 1 THEN n + 1 ELSE z[i]]
        BY <2>2, <3>1
      <3>3. \A i \in 1..(n + 1) : i # n + 1 => i \in 1..n
        OBVIOUS
      <3> QED BY <2>3, <3>2, <3>3
    <2> QED BY <2>1, <2>4, <2>5, <2>6 DEF Ordered, d
  <1> QED BY <1>4, <1>5, <1>6, <1>7, <1>8, Zenon DEF Ordered

-----------------------------------------------------------------------------
(* The lines, step by step. *)

LEMMA LineTypes ==
    ASSUME TypeOK, NEW g \in Log
    PROVE  /\ written[g] \in Seq(Line) /\ batch[g] \in Seq(Line) /\ buffer[g] \in Seq(Line)
           /\ queue[g] \in Seq(Seq(Line)) /\ FlattenSeq(queue[g]) \in Seq(Line)
           /\ \A t \in Thread : Held(t, g) \in Seq(Line)
           /\ pushed[g] \in Nat
  <1>1. /\ written[g] \in Seq(Line) /\ batch[g] \in Seq(Line) /\ buffer[g] \in Seq(Line)
        /\ queue[g] \in Seq(Seq(Line)) /\ pushed[g] \in Nat
        /\ \A t \in Thread : tmp[t] \in Seq(Line)
    BY DEF TypeOK
  <1>2. << >> \in Seq(Line)
    BY EmptySeq
  <1>3. FlattenSeq(queue[g]) \in Seq(Line)
    BY <1>1, Flattened
  <1> QED BY <1>1, <1>2, <1>3 DEF Held

LEMMA HeldSame ==
    ASSUME NEW t \in Thread, NEW g \in Log, pc'[t] = pc[t], tmp'[t] = tmp[t]
    PROVE  Held(t, g)' = Held(t, g)
  BY DEF Held, At

LEMMA LineSame ==
    ASSUME NEW g \in Log, LineInv(g), signal' = None => signal = None,
           written'[g] = written[g], batch'[g] = batch[g], queue'[g] = queue[g],
           buffer'[g] = buffer[g], pushed'[g] = pushed[g],
           Held(Sync, g)' = Held(Sync, g), Held(Handler, g)' = Held(Handler, g)
    PROVE  LineInv(g)'
  BY DEF LineInv

(* The steps that move no line. *)
LEMMA StillKeeps ==
    ASSUME Basic, NEW t \in Thread, NEW g \in Log, NEW k \in Log, LineInv(k),
           \/ LogLine(t, g) \/ Pushed(t, g) \/ SyncLoop(t, g) \/ Hand(t, g)
           \/ Queued(t, g) \/ Synced(t)
           \/ t = Handler /\ (Stop \/ Join(g))
           \/ t = Handler /\ \E u \in Interrupted : Interrupt(u)
    PROVE  LineInv(k)'
  <1> USE DEF At, async
  <1>0. Sync \in Thread /\ Handler \in Thread /\ TypeOK
    BY DEF Thread, Basic
  <1>1. /\ UNCHANGED <<tmp, buffer, pushed, queue, batch, written>>
        /\ signal' = None => signal = None
    BY LoggerAssumption DEF LogLine, Pushed, SyncLoop, Hand, Queued, Synced, Stop, Join, Interrupt
  <1> DEFINE Empty == {"idle", "log", "pushed", "sync", "queued", "synced", "stop", "join"}
             Ahead == {"push", "sync", "idle", "swap", "synced", "stop", "join", "dead", "log"}
             Elsewhere == pc[t][1] \in Empty /\ \E x \in Ahead : \E l \in Log : Go(t, x, l)
  <1>2. Elsewhere \/ (pc[t] = <<"hand", g>> /\ Go(t, "queue", g))
    <2>0. "rpc" \in Log /\ "app" \in Log
      BY DEF Log
    <2>1. ASSUME pc[t][1] \in Empty, NEW x \in Ahead, NEW l \in Log, Go(t, x, l)
          PROVE  Elsewhere
      BY <2>1
    <2>2. ASSUME pc[t][1] \in Empty, NEW l \in Log, Then(t, l)
          PROVE  Elsewhere
      <3>1. "sync" \in Ahead /\ "synced" \in Ahead
        OBVIOUS
      <3> HIDE DEF Empty, Ahead
      <3> QED BY <2>0, <2>2, <3>1 DEF Then
    <2>3. CASE LogLine(t, g)
      <3>1. pc[t][1] \in Empty /\ Go(t, "push", g) /\ "push" \in Ahead
        BY <2>3 DEF LogLine
      <3> QED BY <2>1, <3>1
    <2>4. CASE Pushed(t, g)
      <3>1. pc[t][1] \in Empty /\ "sync" \in Ahead /\ "idle" \in Ahead
        BY <2>4 DEF Pushed
      <3>2. Go(t, "sync", "rpc") \/ Go(t, "idle", g)
        BY <2>4 DEF Pushed
      <3> HIDE DEF Elsewhere, Empty, Ahead
      <3> QED BY <2>0, <2>1, <3>1, <3>2
    <2>5. CASE SyncLoop(t, g)
      <3>1. pc[t][1] \in Empty /\ Go(t, "swap", g) /\ "swap" \in Ahead
        BY <2>5 DEF SyncLoop
      <3> HIDE DEF Elsewhere, Empty, Ahead
      <3> QED BY <2>1, <3>1
    <2>6. CASE Hand(t, g)
      BY <2>6 DEF Hand
    <2>7. CASE Queued(t, g)
      <3>1. pc[t][1] \in Empty /\ Then(t, g)
        BY <2>7 DEF Queued
      <3> HIDE DEF Elsewhere, Empty, Ahead
      <3> QED BY <2>2, <3>1
    <2>8. CASE Synced(t)
      <3>1. pc[t][1] \in Empty /\ "stop" \in Ahead /\ "idle" \in Ahead
        BY <2>8 DEF Synced
      <3>2. Go(t, "stop", "rpc") \/ Go(t, "idle", "rpc")
        BY <2>8 DEF Synced
      <3> HIDE DEF Elsewhere, Empty, Ahead
      <3> QED BY <2>0, <2>1, <3>1, <3>2
    <2>9. CASE t = Handler /\ (Stop \/ Join(g))
      <3>1. pc[t][1] \in Empty /\ "join" \in Ahead /\ "dead" \in Ahead
        BY <2>9 DEF Stop, Join
      <3>2. Go(t, "join", "rpc") \/ Go(t, "join", "app") \/ Go(t, "dead", "app")
        BY <2>9 DEF Stop, Join
      <3> HIDE DEF Elsewhere, Empty, Ahead
      <3> QED BY <2>0, <2>1, <3>1, <3>2
    <2>10. CASE t = Handler /\ \E u \in Interrupted : Interrupt(u)
      <3>1. signal = None /\ Go(t, "log", "rpc")
        BY <2>10 DEF Interrupt
      <3>2. pc[t] = <<"idle", "rpc">>
        BY <2>10, <3>1 DEF Basic, RoleInv
      <3>3. pc[t][1] \in Empty /\ "log" \in Ahead
        BY <3>2
      <3> HIDE DEF Elsewhere, Empty, Ahead
      <3> QED BY <2>0, <2>1, <3>1, <3>3
    <2> QED BY <2>3, <2>4, <2>5, <2>6, <2>7, <2>8, <2>9, <2>10
  <1>5. pc \in [Thread -> Stage \X Log] /\ \A u \in Thread : u # t => pc'[u] = pc[u]
    BY <1>0, <1>2 DEF TypeOK, Go
  <1>3. Held(t, k)' = Held(t, k)
    <2>1. CASE pc[t] = <<"hand", g>> /\ Go(t, "queue", g)
      BY <1>1, <1>5, <2>1 DEF Held, Go
    <2>2. CASE Elsewhere
      <3>1. PICK x \in Ahead : \E l \in Log : Go(t, x, l)
        BY <2>2
      <3>2. PICK l \in Log : Go(t, x, l)
        BY <3>1
      <3>3. pc'[t] = <<x, l>>
        BY <1>5, <3>2 DEF Go
      <3>4. pc'[t] # <<"hand", k>> /\ pc'[t] # <<"queue", k>>
        BY <3>3
      <3>5. pc[t] # <<"hand", k>> /\ pc[t] # <<"queue", k>>
        BY <2>2
      <3> QED BY <3>4, <3>5 DEF Held
    <2> QED BY <1>2, <2>1, <2>2
  <1>4. \A u \in Thread : Held(u, k)' = Held(u, k)
    <2> SUFFICES ASSUME NEW u \in Thread, u # t PROVE Held(u, k)' = Held(u, k)
      BY <1>3
    <2>1. pc'[u] = pc[u]
      BY <1>5
    <2> QED BY <1>1, <2>1, HeldSame
  <1> QED BY <1>0, <1>1, <1>4, LineSame

LEMMA PushKeeps ==
    ASSUME Basic, NEW t \in Thread, NEW g \in Log, NEW k \in Log, LineInv(k), Push(t, g)
    PROVE  LineInv(k)'
  <1> USE DEF At
  <1>0. Sync \in Thread /\ Handler \in Thread /\ TypeOK /\ pc \in [Thread -> Stage \X Log]
    BY DEF Thread, Basic, TypeOK
  <1>1. /\ UNCHANGED <<tmp, queue, batch, written, signal>>
        /\ pc[t] = <<"push", g>> /\ pc' = [pc EXCEPT ![t] = <<"pushed", g>>]
    BY DEF Push, async, Go
  <1>2. /\ pushed'[k] = IF k = g THEN pushed[k] + 1 ELSE pushed[k]
        /\ buffer'[k] = IF k = g THEN Append(buffer[k], pushed[k] + 1) ELSE buffer[k]
    BY <1>0 DEF Push, TypeOK
  <1>3. ASSUME NEW u \in Thread PROVE Held(u, k)' = Held(u, k)
    <2>1. CASE u = t
      <3>1. pc'[u] = <<"pushed", g>>
        BY <1>0, <1>1, <2>1
      <3> QED BY <1>1, <2>1, <3>1 DEF Held
    <2>2. CASE u # t
      BY <1>0, <1>1, <2>2, HeldSame
    <2> QED BY <2>1, <2>2
  <1>4. CASE k # g
    BY <1>0, <1>1, <1>2, <1>3, <1>4, LineSame
  <1>5. CASE k = g
    <2> DEFINE w == written[k]
               b == batch[k]
               q == FlattenSeq(queue[k])
               s == Held(Sync, k)
               h == Held(Handler, k)
               f == buffer[k]
               n == pushed[k]
    <2>1. /\ w \in Seq(Line) /\ b \in Seq(Line) /\ q \in Seq(Line) /\ s \in Seq(Line)
          /\ h \in Seq(Line) /\ f \in Seq(Line) /\ n \in Nat
      BY <1>0, LineTypes
    <2>2. Apart(w, b, q, s, h, f, n) /\ (signal = None => Ordered(w, b, q, s, f, n))
      BY DEF LineInv
    <2>3. /\ written'[k] = w /\ batch'[k] = b /\ FlattenSeq(queue'[k]) = q
          /\ Held(Sync, k)' = s /\ Held(Handler, k)' = h
          /\ buffer'[k] = Append(f, n + 1) /\ pushed'[k] = n + 1 /\ signal' = signal
      BY <1>0, <1>1, <1>2, <1>3, <1>5
    <2> HIDE DEF w, b, q, s, h, f, n
    <2>4. Apart(w, b, q, s, h, Append(f, n + 1), n + 1)
      BY <2>1, <2>2, PushedApart
    <2>5. signal = None => Ordered(w, b, q, s, Append(f, n + 1), n + 1)
      BY <2>1, <2>2, OrderKept
    <2> QED BY <2>3, <2>4, <2>5 DEF LineInv
  <1> QED BY <1>4, <1>5

LEMMA SwapKeeps ==
    ASSUME Basic, NEW t \in Thread, NEW g \in Log, NEW k \in Log, LineInv(k), Swap(t, g)
    PROVE  LineInv(k)'
  <1> USE DEF At
  <1>0. Sync \in Thread /\ Handler \in Thread /\ TypeOK /\ pc \in [Thread -> Stage \X Log]
        /\ Handler # Sync
    BY LoggerAssumption DEF Thread, Basic, TypeOK
  <1>1. /\ UNCHANGED <<queue, pushed, batch, written, signal>>
        /\ pc[t] = <<"swap", g>>
        /\ tmp' = [tmp EXCEPT ![t] = buffer[g]]
    BY DEF Swap, async
  <1>2. buffer'[k] = IF k = g THEN << >> ELSE buffer[k]
    BY <1>0 DEF Swap, TypeOK
  <1>3. t \in {Sync, Handler} /\ (t = Handler => signal # None)
    <2>1. pc[t][1] = "swap"
      BY <1>1
    <2> QED BY <2>1, Whereabouts
  <1>4. ASSUME NEW u \in Thread, u # t PROVE Held(u, k)' = Held(u, k)
    <2>1. pc'[u] = pc[u] /\ tmp'[u] = tmp[u]
      BY <1>0, <1>1, <1>4 DEF Swap, Then, Go, TypeOK
    <2> QED BY <2>1, HeldSame
  <1>5. Held(t, k) = << >> /\ Held(t, k)' = IF k = g THEN buffer[g] ELSE << >>
    <2>1. tmp'[t] = buffer[g]
      BY <1>0, <1>1 DEF TypeOK
    <2>2. CASE buffer[g] # << >>
      <3>1. pc'[t] = <<"hand", g>>
        BY <1>0, <2>2 DEF Swap, Go
      <3> QED BY <1>1, <2>1, <3>1 DEF Held
    <2>3. CASE buffer[g] = << >>
      <3>1. pc'[t] = <<"sync", "app">> \/ pc'[t] = <<"synced", "app">>
        BY <1>0, <2>3 DEF Swap, Then, Go
      <3> QED BY <1>1, <2>3, <3>1 DEF Held
    <2> QED BY <2>2, <2>3
  <1>6. CASE k # g
    BY <1>0, <1>1, <1>2, <1>4, <1>5, <1>6, LineSame
  <1>7. CASE k = g
    <2> DEFINE w == written[k]
               b == batch[k]
               q == FlattenSeq(queue[k])
               s == Held(Sync, k)
               h == Held(Handler, k)
               f == buffer[k]
               n == pushed[k]
    <2>1. /\ w \in Seq(Line) /\ b \in Seq(Line) /\ q \in Seq(Line) /\ s \in Seq(Line)
          /\ h \in Seq(Line) /\ f \in Seq(Line) /\ n \in Nat
      BY <1>0, LineTypes
    <2>2. Apart(w, b, q, s, h, f, n) /\ (signal = None => Ordered(w, b, q, s, f, n))
      BY DEF LineInv
    <2>3. /\ written'[k] = w /\ batch'[k] = b /\ FlattenSeq(queue'[k]) = q
          /\ buffer'[k] = << >> /\ pushed'[k] = n /\ signal' = signal
          /\ t = Sync => s = << >> /\ Held(Sync, k)' = f /\ Held(Handler, k)' = h
          /\ t = Handler => h = << >> /\ Held(Sync, k)' = s /\ Held(Handler, k)' = f
      BY <1>0, <1>1, <1>2, <1>4, <1>5, <1>7
    <2> HIDE DEF w, b, q, s, h, f, n
    <2>4. CASE t = Sync
      <3>1. Apart(w, b, q, f, h, << >>, n)
        BY <2>1, <2>2, <2>3, <2>4, SwappedApart
      <3>2. signal = None => Ordered(w, b, q, f, << >>, n)
        BY <2>1, <2>2, <2>3, <2>4, OrderKept
      <3> QED BY <2>3, <2>4, <3>1, <3>2 DEF LineInv
    <2>5. CASE t = Handler
      <3>1. Apart(w, b, q, s, f, << >>, n)
        BY <2>1, <2>2, <2>3, <2>5, SwappedApart
      <3> QED BY <1>3, <2>3, <2>5, <3>1 DEF LineInv
    <2> QED BY <1>3, <2>4, <2>5
  <1> QED BY <1>6, <1>7

LEMMA QueueKeeps ==
    ASSUME Basic, NEW t \in Thread, NEW g \in Log, NEW k \in Log, LineInv(k), Queue(t, g)
    PROVE  LineInv(k)'
  <1> USE DEF At
  <1>0. Sync \in Thread /\ Handler \in Thread /\ TypeOK /\ pc \in [Thread -> Stage \X Log]
        /\ Handler # Sync
    BY LoggerAssumption DEF Thread, Basic, TypeOK
  <1>1. /\ UNCHANGED <<buffer, pushed, batch, written, signal>>
        /\ pc[t] = <<"queue", g>> /\ pc' = [pc EXCEPT ![t] = <<"queued", g>>]
        /\ tmp' = [tmp EXCEPT ![t] = << >>]
    BY DEF Queue, Go
  <1>2. queue'[k] = IF k = g THEN Append(queue[k], tmp[t]) ELSE queue[k]
    BY <1>0 DEF Queue, TypeOK
  <1>3. t \in {Sync, Handler} /\ (t = Handler => signal # None)
    <2>1. pc[t][1] = "queue"
      BY <1>1
    <2> QED BY <2>1, Whereabouts
  <1>4. ASSUME NEW u \in Thread, u # t PROVE Held(u, k)' = Held(u, k)
    <2>1. pc'[u] = pc[u] /\ tmp'[u] = tmp[u]
      BY <1>0, <1>1, <1>4 DEF TypeOK
    <2> QED BY <2>1, HeldSame
  <1>5. Held(t, k)' = << >> /\ Held(t, k) = IF k = g THEN tmp[t] ELSE << >>
    <2>1. pc'[t] = <<"queued", g>>
      BY <1>0, <1>1
    <2> QED BY <1>1, <2>1 DEF Held
  <1>6. CASE k # g
    BY <1>0, <1>1, <1>2, <1>4, <1>5, <1>6, LineSame
  <1>7. CASE k = g
    <2> DEFINE w == written[k]
               b == batch[k]
               q == FlattenSeq(queue[k])
               s == Held(Sync, k)
               h == Held(Handler, k)
               f == buffer[k]
               n == pushed[k]
    <2>1. /\ w \in Seq(Line) /\ b \in Seq(Line) /\ q \in Seq(Line) /\ s \in Seq(Line)
          /\ h \in Seq(Line) /\ f \in Seq(Line) /\ n \in Nat
      BY <1>0, LineTypes
    <2>2. Apart(w, b, q, s, h, f, n) /\ (signal = None => Ordered(w, b, q, s, f, n))
      BY DEF LineInv
    <2>3. FlattenSeq(queue'[k]) = q \o tmp[t]
      <3>1. queue[k] \in Seq(Seq(Line)) /\ tmp[t] \in Seq(Line)
        BY <1>0 DEF TypeOK
      <3> QED BY <1>2, <1>7, <3>1, FlattenAppend
    <2>4. /\ written'[k] = w /\ batch'[k] = b /\ buffer'[k] = f /\ pushed'[k] = n
          /\ signal' = signal
          /\ t = Sync => /\ FlattenSeq(queue'[k]) = q \o s
                         /\ Held(Sync, k)' = << >> /\ Held(Handler, k)' = h
          /\ t = Handler => /\ FlattenSeq(queue'[k]) = q \o h
                            /\ Held(Sync, k)' = s /\ Held(Handler, k)' = << >>
      BY <1>0, <1>1, <1>4, <1>5, <1>7, <2>3
    <2> HIDE DEF w, b, q, s, h, f, n
    <2>5. CASE t = Sync
      <3>1. Apart(w, b, q \o s, << >>, h, f, n)
        BY <2>1, <2>2, QueuedApart
      <3>2. signal = None => Ordered(w, b, q \o s, << >>, f, n)
        BY <2>1, <2>2, OrderKept
      <3> QED BY <2>4, <2>5, <3>1, <3>2 DEF LineInv
    <2>6. CASE t = Handler
      <3>1. Apart(w, b, q \o h, s, << >>, f, n)
        BY <2>1, <2>2, QueuedApart
      <3> QED BY <1>3, <2>4, <2>6, <3>1 DEF LineInv
    <2> QED BY <1>3, <2>5, <2>6
  <1> QED BY <1>6, <1>7

LEMMA TakeKeeps ==
    ASSUME Basic, NEW g \in Log, NEW k \in Log, LineInv(k), LoopLock(g) \/ LoopWait(g) \/ LoopTake(g)
    PROVE  LineInv(k)'
  <1>0. Sync \in Thread /\ Handler \in Thread /\ TypeOK
    BY DEF Thread, Basic
  <1>1. UNCHANGED <<pc, tmp, buffer, pushed, written, signal>>
    BY DEF LoopLock, LoopWait, LoopTake, logger
  <1>2. Held(Sync, k)' = Held(Sync, k) /\ Held(Handler, k)' = Held(Handler, k)
    BY <1>0, <1>1, HeldSame
  <1>3. CASE LoopLock(g) \/ LoopWait(g) \/ k # g
    <2>1. queue'[k] = queue[k] /\ batch'[k] = batch[k]
      BY <1>0, <1>3 DEF LoopLock, LoopWait, LoopTake, TypeOK
    <2> QED BY <1>1, <1>2, <2>1, LineSame
  <1>4. CASE LoopTake(g) /\ k = g
    <2> DEFINE w == written[k]
               q == FlattenSeq(queue[k])
               s == Held(Sync, k)
               h == Held(Handler, k)
               f == buffer[k]
               n == pushed[k]
               x == Head(queue[k])
               r == FlattenSeq(Tail(queue[k]))
    <2>1. /\ w \in Seq(Line) /\ s \in Seq(Line) /\ h \in Seq(Line) /\ f \in Seq(Line)
          /\ n \in Nat /\ queue[k] \in Seq(Seq(Line)) /\ queue[k] # << >>
      BY <1>0, <1>4, LineTypes DEF LoopTake
    <2>2. x \in Seq(Line) /\ r \in Seq(Line) /\ q = x \o r
      <3>1. x \in Seq(Line) /\ Tail(queue[k]) \in Seq(Seq(Line)) /\ q = x \o r
        BY <2>1, FlattenTail
      <3>2. r \in Seq(Line)
        BY <3>1, Flattened
      <3> QED BY <3>1, <3>2
    <2>3. batch[k] = << >>
      BY <1>4 DEF LoopTake, Basic, BatchInv
    <2>4. /\ Apart(w, << >>, x \o r, s, h, f, n)
          /\ signal = None => Ordered(w, << >>, x \o r, s, f, n)
      BY <2>2, <2>3 DEF LineInv
    <2>5. /\ written'[k] = w /\ batch'[k] = x /\ FlattenSeq(queue'[k]) = r /\ buffer'[k] = f
          /\ pushed'[k] = n /\ signal' = signal
      BY <1>0, <1>1, <1>4 DEF LoopTake, TypeOK
    <2> HIDE DEF w, q, s, h, f, n, x, r
    <2>6. Apart(w, x, r, s, h, f, n)
      BY <2>1, <2>2, <2>4, TakenApart
    <2>7. signal = None => Ordered(w, x, r, s, f, n)
      BY <2>1, <2>2, <2>4, OrderKept
    <2> QED BY <1>2, <2>5, <2>6, <2>7 DEF LineInv, s, h
  <1> QED BY <1>3, <1>4

LEMMA WriteKeeps ==
    ASSUME Basic, NEW g \in Log, NEW k \in Log, LineInv(k), LoopWrite(g)
    PROVE  LineInv(k)'
  <1>0. Sync \in Thread /\ Handler \in Thread /\ TypeOK
    BY DEF Thread, Basic
  <1>1. UNCHANGED <<pc, tmp, buffer, pushed, queue, signal>>
    BY DEF LoopWrite, logger
  <1>2. Held(Sync, k)' = Held(Sync, k) /\ Held(Handler, k)' = Held(Handler, k)
    BY <1>0, <1>1, HeldSame
  <1>3. /\ written'[k] = IF k = g THEN written[k] \o batch[k] ELSE written[k]
        /\ batch'[k] = IF k = g THEN << >> ELSE batch[k]
    BY <1>0 DEF LoopWrite, TypeOK
  <1>4. CASE k # g
    BY <1>1, <1>2, <1>3, <1>4, LineSame
  <1>5. CASE k = g
    <2> DEFINE w == written[k]
               b == batch[k]
               q == FlattenSeq(queue[k])
               s == Held(Sync, k)
               h == Held(Handler, k)
               f == buffer[k]
               n == pushed[k]
    <2>1. /\ w \in Seq(Line) /\ b \in Seq(Line) /\ q \in Seq(Line) /\ s \in Seq(Line)
          /\ h \in Seq(Line) /\ f \in Seq(Line) /\ n \in Nat
      BY <1>0, LineTypes
    <2>2. Apart(w, b, q, s, h, f, n) /\ (signal = None => Ordered(w, b, q, s, f, n))
      BY DEF LineInv
    <2>3. /\ written'[k] = w \o b /\ batch'[k] = << >> /\ FlattenSeq(queue'[k]) = q
          /\ Held(Sync, k)' = s /\ Held(Handler, k)' = h
          /\ buffer'[k] = f /\ pushed'[k] = n /\ signal' = signal
      BY <1>1, <1>2, <1>3, <1>5
    <2> HIDE DEF w, b, q, s, h, f, n
    <2>4. Apart(w \o b, << >>, q, s, h, f, n)
      BY <2>1, <2>2, WrittenApart
    <2>5. signal = None => Ordered(w \o b, << >>, q, s, f, n)
      BY <2>1, <2>2, OrderKept
    <2> QED BY <2>3, <2>4, <2>5 DEF LineInv
  <1> QED BY <1>4, <1>5

LEMMA LineInvInit == Init => \A g \in Log : LineInv(g)
  <1> SUFFICES ASSUME Init, NEW g \in Log PROVE LineInv(g)
    OBVIOUS
  <1>1. /\ written[g] = << >> /\ batch[g] = << >> /\ queue[g] = << >> /\ buffer[g] = << >>
        /\ pushed[g] = 0 /\ Held(Sync, g) = << >> /\ Held(Handler, g) = << >>
    BY DEF Init, Held, At, Thread
  <1>2. FlattenSeq(<< >>) = << >>
    <2>1. << >> \in Seq(Seq(Line))
      BY EmptySeq
    <2> QED BY <2>1, Flattened
  <1>3. Apart(<< >>, << >>, << >>, << >>, << >>, << >>, 0)
    BY Nowhere DEF Apart
  <1>4. Ordered(<< >>, << >>, << >>, << >>, << >>, 0)
    <2>1. << >> \o << >> = << >>
      BY ConcatEmptySeq, EmptySeq
    <2>2. << >> = [i \in 1..0 |-> i]
      OBVIOUS
    <2> QED BY <2>1, <2>2 DEF Ordered
  <1> QED BY <1>1, <1>2, <1>3, <1>4 DEF LineInv

LEMMA LineInvStep ==
    ASSUME Basic, NEW k \in Log, LineInv(k), [Next]_vars
    PROVE  LineInv(k)'
  <1>0. "rpc" \in Log /\ Handler \in Thread
    BY DEF Log, Thread
  <1>1. ASSUME NEW t \in Thread, Step(t) PROVE LineInv(k)'
    <2>1. CASE \E g \in Log : \/ Push(t, g) \/ Pushed(t, g) \/ SyncLoop(t, g) \/ Swap(t, g)
                              \/ Hand(t, g) \/ Queue(t, g) \/ Queued(t, g)
      BY <2>1, PushKeeps, SwapKeeps, QueueKeeps, StillKeeps
    <2>2. CASE Synced(t) \/ LogLine(t, "rpc")
      BY <1>0, <2>2, StillKeeps
    <2>3. CASE t = Handler /\ (Stop \/ \E g \in Log : Join(g))
      BY <1>0, <2>3, StillKeeps
    <2> QED BY <1>1, <2>1, <2>2, <2>3 DEF Step
  <1>2. ASSUME NEW t \in Thread, NEW g \in Log, LogLine(t, g) PROVE LineInv(k)'
    BY <1>2, StillKeeps
  <1>3. ASSUME NEW u \in Interrupted, Interrupt(u) PROVE LineInv(k)'
    BY <1>0, <1>3, StillKeeps
  <1>4. ASSUME NEW g \in Log, Loop(g) PROVE LineInv(k)'
    BY <1>4, TakeKeeps, WriteKeeps DEF Loop
  <1>5. CASE UNCHANGED vars
    BY <1>0, <1>5 DEF vars, LineInv, Held, At
  <1> QED BY <1>1, <1>2, <1>3, <1>4, <1>5 DEF Next

LEMMA LoggerInvariant == Spec => []LoggerInv
  <1> DEFINE AllLines == \A g \in Log : LineInv(g)
  <1>1. Init => AllLines
    BY LineInvInit
  <1>2. Basic /\ AllLines /\ [Next]_vars => AllLines'
    BY LineInvStep
  <1>3. Basic /\ AllLines => LoggerInv
    BY DEF Basic, LoggerInv
  <1> HIDE DEF AllLines
  <1> QED BY <1>1, <1>2, <1>3, BasicInvariant, PTL DEF Spec

(* Each line that is pushed is written once, behind those pushed before it,  *)
(* or it waits in its turn, until a signal comes; and no signal, and no      *)
(* race, makes the logger write a line twice (log.cc, pushLog to Loop).      *)
THEOREM LinesWrittenOnce == Spec => []LinesInOrder
  <1>1. LoggerInv => LinesInOrder
    <2> SUFFICES ASSUME LoggerInv, NEW g \in Log
                 PROVE  /\ signal = None =>
                              written[g] \o Waiting(g) = [i \in 1..pushed[g] |-> i]
                        /\ Once(written[g])
      BY DEF LinesInOrder, Once
    <2>1. LineInv(g)
      BY DEF LoggerInv
    <2> QED BY <2>1 DEF LineInv, Apart, Ordered, Waiting
  <1> QED BY <1>1, LoggerInvariant, PTL
=============================================================================
