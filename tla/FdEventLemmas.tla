---------------------------- MODULE FdEventLemmas ----------------------------
(***************************************************************************)
(* What the operators of Positions and FdEvents do, for any numbers, masks *)
(* and orders of epoll_wait.                                               *)
(***************************************************************************)
EXTENDS FdEvents, FiniteSetTheorems, SequenceTheorems, TLAPS

-----------------------------------------------------------------------------
(* The positions of a sequence, in order, and what a loop walks through. *)

(* Nth counts the numbers of a set off, each once. *)
LEMMA NthCounts ==
    ASSUME NEW m \in Nat, NEW P \in SUBSET (1..m)
    PROVE  /\ Cardinality(P) \in Nat
           /\ \A k \in 1..Cardinality(P) :
                Nth(P, k) \in P /\ Cardinality({j \in P : j <= Nth(P, k)}) = k
           /\ \A i \in P : \E k \in 1..Cardinality(P) : Nth(P, k) = i
  <1> DEFINE Below(i) == {j \in P : j <= i}
             N == Cardinality(P)
             rank == [i \in P |-> Cardinality(Below(i))]
  <1>0. \A i \in P : i \in Int
    OBVIOUS
  <1>1. IsFiniteSet(P) /\ N \in Nat
    <2>1. IsFiniteSet(1..m)
      BY FS_Interval
    <2>2. IsFiniteSet(P)
      BY <2>1, FS_Subset
    <2> QED BY <2>2, FS_CardinalityType
  <1>2. \A i \in P : IsFiniteSet(Below(i)) /\ rank[i] \in 1..N
    <2> TAKE i \in P
    <2>1. IsFiniteSet(Below(i)) /\ Cardinality(Below(i)) <= N /\ Cardinality(Below(i)) \in Nat
      BY <1>1, FS_Subset, FS_CardinalityType
    <2>2. i \in Below(i)
      OBVIOUS
    <2>3. Cardinality(Below(i)) # 0
      BY <2>1, <2>2, FS_EmptySet
    <2> QED BY <1>1, <2>1, <2>3
  <1>3. \A i, j \in P : i < j => rank[i] # rank[j]
    <2> SUFFICES ASSUME NEW i \in P, NEW j \in P, i < j PROVE rank[i] # rank[j]
      OBVIOUS
    <2>0. i \in Int /\ j \in Int /\ \A q \in P : q <= i => q <= j
      BY <1>0
    <2>1. Below(i) \in SUBSET Below(j)
      BY <2>0
    <2>2. j \in Below(j) /\ j \notin Below(i)
      BY <2>0
    <2> QED BY <1>2, <2>1, <2>2, FS_Subset
  <1>4. rank \in Injection(P, 1..N)
    <2>1. rank \in [P -> 1..N]
      BY <1>2
    <2>2. \A i, j \in P : rank[i] = rank[j] => i = j
      BY <1>3
    <2> QED BY <2>1, <2>2 DEF Injection, IsInjective
  <1>5. rank \in Surjection(P, 1..N)
    BY <1>1, <1>4, FS_Interval, FS_Injection
  <1>6. \A k \in 1..N : \E i \in P : Cardinality(Below(i)) = k
    BY <1>5 DEF Surjection
  <1>7. \A k \in 1..N : Nth(P, k) \in P /\ Cardinality(Below(Nth(P, k))) = k
    BY <1>6 DEF Nth
  <1>8. \A i \in P : Nth(P, rank[i]) = i
    <2> TAKE i \in P
    <2>1. Nth(P, rank[i]) \in P /\ rank[Nth(P, rank[i])] = rank[i]
      BY <1>2, <1>7
    <2>2. \A j \in P : rank[j] = rank[i] => j = i
      BY <1>0, <1>3
    <2> QED BY <2>1, <2>2
  <1> QED BY <1>1, <1>2, <1>7, <1>8

LEMMA PickedSeq ==
    ASSUME NEW S, NEW s \in Seq(S), NEW P \in SUBSET DOMAIN s
    PROVE  /\ Picked(s, P) \in Seq(S)
           /\ Len(Picked(s, P)) = Cardinality(P) /\ Cardinality(P) \in Nat
           /\ \A k \in 1..Cardinality(P) :
                Nth(P, k) \in P /\ Picked(s, P)[k] = s[Nth(P, k)]
           /\ \A i \in P : \E k \in 1..Cardinality(P) : Nth(P, k) = i
           /\ \A k, l \in 1..Cardinality(P) : Nth(P, k) = Nth(P, l) => k = l
  <1>1. DOMAIN s = 1..Len(s) /\ Len(s) \in Nat
    BY LenProperties
  <1>2. /\ Cardinality(P) \in Nat
        /\ \A k \in 1..Cardinality(P) :
             Nth(P, k) \in P /\ Cardinality({j \in P : j <= Nth(P, k)}) = k
        /\ \A i \in P : \E k \in 1..Cardinality(P) : Nth(P, k) = i
    BY <1>1, NthCounts
  <1>3. \A k \in 1..Cardinality(P) : s[Nth(P, k)] \in S
    BY <1>2, ElementOfSeq, <1>1
  <1> HIDE DEF Nth
  <1>4. Picked(s, P) \in Seq(S) /\ Len(Picked(s, P)) = Cardinality(P)
    BY <1>2, <1>3, IsASeq DEF Picked
  <1> QED BY <1>2, <1>4 DEF Picked

(* The walk of a loop comes by each ready event once. *)
LEMMA WalkEvents ==
    ASSUME NEW R, IsFiniteSet(R), NEW order \in Orders(R),
           NEW ready \in SUBSET (R \X {"IN", "OUT"})
    PROVE  /\ Walk(order, ready) \in Seq(R \X {"IN", "OUT"})
           /\ \A k \in DOMAIN Walk(order, ready) : Walk(order, ready)[k] \in ready
           /\ IsInjective(Walk(order, ready))
  <1> DEFINE n == Cardinality(R)
             S == R \X {"IN", "OUT"}
             x == Steps(order)
             P == {i \in DOMAIN x : x[i] \in ready}
  <1>1. n \in Nat
    BY FS_CardinalityType
  <1>2. order \in [1..n -> R] /\ \A i, j \in 1..n : order[i] = order[j] => i = j
    BY DEF Orders, Injection, IsInjective
  <1> HIDE DEF n
  <1>3. Len(order) = n /\ order \in Seq(R)
    <2>1. order = [i \in 1..n |-> order[i]] /\ \A i \in 1..n : order[i] \in R
      BY <1>2
    <2> QED BY <1>1, <2>1
  <1>4. \A i \in 1..(2 * n) : (i + 1) \div 2 \in 1..n
    BY <1>1
  <1>5. x = [i \in 1..(2 * n) |-> <<order[(i + 1) \div 2], IF i % 2 = 1 THEN "IN" ELSE "OUT">>]
    BY <1>3 DEF Steps
  <1>6. x \in Seq(S) /\ DOMAIN x = 1..(2 * n)
    <2>1. \A i \in 1..(2 * n) : <<order[(i + 1) \div 2], IF i % 2 = 1 THEN "IN" ELSE "OUT">> \in S
      BY <1>2, <1>4
    <2>2. 2 * n \in Nat
      BY <1>1
    <2> QED BY <1>5, <2>1, <2>2
  <1>7. \A i, j \in 1..(2 * n) : x[i] = x[j] => i = j
    <2> SUFFICES ASSUME NEW i \in 1..(2 * n), NEW j \in 1..(2 * n), x[i] = x[j] PROVE i = j
      OBVIOUS
    <2>1. /\ order[(i + 1) \div 2] = order[(j + 1) \div 2]
          /\ (IF i % 2 = 1 THEN "IN" ELSE "OUT") = (IF j % 2 = 1 THEN "IN" ELSE "OUT")
      BY <1>5
    <2>2. (i + 1) \div 2 = (j + 1) \div 2
      BY <1>2, <1>4, <2>1
    <2>3. i % 2 = j % 2
      <3>1. i \in Int /\ j \in Int /\ i % 2 \in {0, 1} /\ j % 2 \in {0, 1}
        BY <1>1
      <3>2. i % 2 = 1 <=> j % 2 = 1
        BY <2>1
      <3> QED BY <3>1, <3>2
    <2> QED BY <1>1, <2>2, <2>3
  <1> HIDE DEF x, P, S
  <1>8. /\ Picked(x, P) \in Seq(S)
        /\ Len(Picked(x, P)) = Cardinality(P) /\ Cardinality(P) \in Nat
        /\ \A k \in 1..Cardinality(P) : Nth(P, k) \in P /\ Picked(x, P)[k] = x[Nth(P, k)]
        /\ \A k, l \in 1..Cardinality(P) : Nth(P, k) = Nth(P, l) => k = l
    <2>1. P \in SUBSET DOMAIN x
      BY DEF P
    <2>2. /\ Picked(x, P) \in Seq(S)
          /\ Len(Picked(x, P)) = Cardinality(P) /\ Cardinality(P) \in Nat
          /\ \A k \in 1..Cardinality(P) :
               Nth(P, k) \in P /\ Picked(x, P)[k] = x[Nth(P, k)]
          /\ \A i \in P : \E k \in 1..Cardinality(P) : Nth(P, k) = i
          /\ \A k, l \in 1..Cardinality(P) : Nth(P, k) = Nth(P, l) => k = l
      BY <1>6, <2>1, PickedSeq
    <2> QED BY <2>2
  <1> DEFINE w == Picked(x, P)
  <1>9. w = Walk(order, ready)
    BY DEF Walk, x, P
  <1>10. DOMAIN w = 1..Cardinality(P)
    BY <1>8, LenProperties
  <1>11. \A k \in DOMAIN w : Nth(P, k) \in 1..(2 * n) /\ w[k] = x[Nth(P, k)] /\ w[k] \in ready
    BY <1>6, <1>8, <1>10 DEF P
  <1>12. IsInjective(w)
    <2>1. \A k, l \in DOMAIN w : w[k] = w[l] => k = l
      BY <1>7, <1>8, <1>10, <1>11
    <2> QED BY <2>1 DEF IsInjective
  <1> QED BY <1>8, <1>9, <1>11, <1>12 DEF S

(* And by none of them it passes. *)
LEMMA WalkMeetsAll ==
    ASSUME NEW R, IsFiniteSet(R), NEW order \in Orders(R),
           NEW ready \in SUBSET (R \X {"IN", "OUT"}), NEW e \in ready
    PROVE  \E k \in DOMAIN Walk(order, ready) : Walk(order, ready)[k] = e
  <1> DEFINE n == Cardinality(R)
             S == R \X {"IN", "OUT"}
             x == Steps(order)
             P == {i \in DOMAIN x : x[i] \in ready}
  <1>1. n \in Nat /\ IsFiniteSet(1..n) /\ Cardinality(1..n) = n
    <2>1. n \in Nat
      BY FS_CardinalityType
    <2> HIDE DEF n
    <2> QED BY <2>1, FS_Interval
  <1>2. order \in [1..n -> R] /\ order \in Injection(1..n, R)
    BY DEF Orders, Injection, IsInjective
  <1>3. order \in Surjection(1..n, R)
    <2>1. PICK T : T = 1..n
      OBVIOUS
    <2>2. IsFiniteSet(T) /\ Cardinality(T) = Cardinality(R) /\ order \in Injection(T, R)
      BY <1>1, <1>2, <2>1
    <2>3. order \in Surjection(T, R)
      BY <2>2, FS_Injection
    <2> QED BY <2>1, <2>3
  <1>4. PICK q \in 1..n : order[q] = e[1]
    BY <1>3 DEF Surjection
  <1> HIDE DEF n
  <1>5. Len(order) = n /\ order \in Seq(R)
    <2>1. order = [i \in 1..n |-> order[i]] /\ \A i \in 1..n : order[i] \in R
      BY <1>2
    <2> QED BY <1>1, <2>1
  <1>6. x = [i \in 1..(2 * n) |-> <<order[(i + 1) \div 2], IF i % 2 = 1 THEN "IN" ELSE "OUT">>]
    BY <1>5 DEF Steps
  <1>7. \E i \in 1..(2 * n) : x[i] = e
    <2>1. e = <<e[1], e[2]>> /\ e[2] \in {"IN", "OUT"}
      OBVIOUS
    <2>2. CASE e[2] = "IN"
      <3>1. /\ 2 * q - 1 \in 1..(2 * n) /\ ((2 * q - 1) + 1) \div 2 = q
            /\ (2 * q - 1) % 2 = 1
        BY <1>1
      <3>2. x[2 * q - 1] = <<e[1], "IN">>
        BY <1>4, <1>6, <3>1
      <3> QED BY <2>1, <2>2, <3>1, <3>2
    <2>3. CASE e[2] = "OUT"
      <3>1. /\ 2 * q \in 1..(2 * n) /\ (2 * q + 1) \div 2 = q
            /\ (2 * q) % 2 # 1
        BY <1>1
      <3>2. x[2 * q] = <<e[1], "OUT">>
        BY <1>4, <1>6, <3>1
      <3> QED BY <2>1, <2>3, <3>1, <3>2
    <2> QED BY <2>1, <2>2, <2>3
  <1>8. x \in Seq(S) /\ DOMAIN x = 1..(2 * n)
    <2>1. \A i \in 1..(2 * n) : (i + 1) \div 2 \in 1..n
      BY <1>1
    <2>2. \A i \in 1..(2 * n) : <<order[(i + 1) \div 2], IF i % 2 = 1 THEN "IN" ELSE "OUT">> \in S
      BY <1>2, <2>1
    <2>3. 2 * n \in Nat
      BY <1>1
    <2> QED BY <1>6, <2>2, <2>3
  <1> HIDE DEF x, P, S
  <1>9. PICK i \in P : x[i] = e
    BY <1>7, <1>8 DEF P
  <1>10. \E k \in 1..Cardinality(P) : Picked(x, P)[k] = x[i]
    <2>1. P \in SUBSET DOMAIN x
      BY DEF P
    <2>2. /\ Picked(x, P) \in Seq(S)
          /\ Len(Picked(x, P)) = Cardinality(P) /\ Cardinality(P) \in Nat
          /\ \A k \in 1..Cardinality(P) :
               Nth(P, k) \in P /\ Picked(x, P)[k] = x[Nth(P, k)]
          /\ \A j \in P : \E k \in 1..Cardinality(P) : Nth(P, k) = j
          /\ \A k, l \in 1..Cardinality(P) : Nth(P, k) = Nth(P, l) => k = l
      BY <1>8, <2>1, PickedSeq
    <2> QED BY <2>2
  <1>11. DOMAIN Picked(x, P) = 1..Cardinality(P)
    <2>1. P \in SUBSET DOMAIN x
      BY DEF P
    <2>2. Len(Picked(x, P)) = Cardinality(P) /\ Picked(x, P) \in Seq(S)
      BY <1>8, <2>1, PickedSeq
    <2> QED BY <2>2, LenProperties
  <1>12. Picked(x, P) = Walk(order, ready)
    BY DEF Walk, x, P
  <1> QED BY <1>9, <1>10, <1>11, <1>12

-----------------------------------------------------------------------------
(* Loops. *)

(* When epoll has what m_listen_fds has, that stays so. *)
LEMMA LoopAdded ==
    ASSUME NEW loop, Watched(loop) = loop.listen_fds, NEW fd, NEW mask
    PROVE  LET l == AddToEpoll(loop, fd, mask)
           IN  /\ Watched(l) = l.listen_fds /\ Watched(l) = Watched(loop) \cup {fd}
               /\ l.epoll[fd] = mask
               /\ \A f \in Watched(loop) : f # fd => l.epoll[f] = loop.epoll[f]
  <1>1. AddToEpoll(loop, fd, mask) = [listen_fds |-> loop.listen_fds \cup {fd},
                                      epoll |-> With(loop.epoll, fd, mask)]
    BY DEF AddToEpoll
  <1>2. /\ DOMAIN With(loop.epoll, fd, mask) = DOMAIN loop.epoll \cup {fd}
        /\ With(loop.epoll, fd, mask)[fd] = mask
        /\ \A f \in DOMAIN loop.epoll : f # fd => With(loop.epoll, fd, mask)[f] = loop.epoll[f]
    BY DEF With
  <1> QED BY <1>1, <1>2 DEF Watched

LEMMA LoopCut ==
    ASSUME NEW loop, Watched(loop) = loop.listen_fds, NEW fds
    PROVE  LET l == DeleteAll(loop, fds)
           IN  /\ Watched(l) = l.listen_fds /\ Watched(l) = Watched(loop) \ fds
               /\ \A f \in Watched(l) : l.epoll[f] = loop.epoll[f]
  <1>1. Watched(loop) \ (fds \cap loop.listen_fds) = Watched(loop) \ fds
    OBVIOUS
  <1>2. DeleteAll(loop, fds) = [listen_fds |-> loop.listen_fds \ fds,
                                epoll |-> [f \in Watched(loop) \ fds |-> loop.epoll[f]]]
    BY <1>1 DEF DeleteAll, Restrict
  <1> QED BY <1>2 DEF Watched

\* What a number can be watched for, and the loops over the numbers F.
EventMask == SUBSET {"IN", "OUT"}

LoopsOver(F) ==
    [listen_fds : SUBSET F,
     epoll : UNION {[S -> EventMask] : S \in SUBSET F}]

LEMMA LoopFields ==
    ASSUME NEW F, NEW loop \in LoopsOver(F)
    PROVE  /\ loop.listen_fds \subseteq F /\ Watched(loop) \subseteq F
           /\ \A f \in Watched(loop) : loop.epoll[f] \subseteq {"IN", "OUT"}
  <1>1. PICK S \in SUBSET F : loop.epoll \in [S -> EventMask]
    BY DEF LoopsOver
  <1> QED BY <1>1 DEF LoopsOver, Watched, EventMask

(* ADD_TO_EPOLL, also when epoll does not have what m_listen_fds has. *)
LEMMA AddLoop ==
    ASSUME NEW F, NEW loop \in LoopsOver(F), NEW fd \in F, NEW mask \in EventMask,
           NEW l, l = AddToEpoll(loop, fd, mask)
    PROVE  /\ l \in LoopsOver(F)
           /\ l.listen_fds = loop.listen_fds \cup {fd}
           /\ \A f \in Watched(loop) : f # fd => l.epoll[f] = loop.epoll[f]
           /\ fd \in loop.listen_fds /\ fd \in Watched(loop) => l.epoll[fd] = mask
           /\ fd \notin loop.listen_fds /\ fd \notin Watched(loop) => l.epoll[fd] = mask
           /\ Watched(l) = IF fd \in loop.listen_fds THEN Watched(loop)
                                                     ELSE Watched(loop) \cup {fd}
  <1>1. PICK S \in SUBSET F : loop.epoll \in [S -> EventMask]
    BY DEF LoopsOver
  <1>2. Watched(loop) = S /\ DOMAIN loop.epoll = S
    BY <1>1 DEF Watched
  <1> DEFINE w == With(loop.epoll, fd, mask)
  <1>3. /\ w \in [S \cup {fd} -> EventMask] /\ w[fd] = mask
        /\ DOMAIN w = S \cup {fd}
        /\ \A f \in S : f # fd => w[f] = loop.epoll[f]
    BY <1>1, <1>2 DEF With
  <1>4. S \cup {fd} \in SUBSET F /\ loop.listen_fds \cup {fd} \in SUBSET F
    BY DEF LoopsOver
  <1> HIDE DEF w
  <1>5. CASE fd \in loop.listen_fds <=> fd \in Watched(loop)
    <2>1. l = [listen_fds |-> loop.listen_fds \cup {fd}, epoll |-> w]
      BY <1>5 DEF AddToEpoll, w
    <2> QED BY <1>2, <1>3, <1>4, <1>5, <2>1 DEF LoopsOver, Watched
  <1>6. CASE ~ (fd \in loop.listen_fds <=> fd \in Watched(loop))
    <2>1. l = [listen_fds |-> loop.listen_fds \cup {fd}, epoll |-> loop.epoll]
      BY <1>6 DEF AddToEpoll
    <2> QED BY <1>1, <1>2, <1>4, <1>6, <2>1 DEF LoopsOver, Watched
  <1> QED BY <1>5, <1>6

(* DELETE_TO_EPOLL of several numbers. *)
LEMMA DeleteLoop ==
    ASSUME NEW F, NEW loop \in LoopsOver(F), NEW fds
    PROVE  LET l == DeleteAll(loop, fds)
           IN  /\ l \in LoopsOver(F)
               /\ l.listen_fds = loop.listen_fds \ fds
               /\ Watched(l) = Watched(loop) \ (fds \cap loop.listen_fds)
               /\ \A f \in Watched(l) : l.epoll[f] = loop.epoll[f]
  <1>1. PICK S \in SUBSET F : loop.epoll \in [S -> EventMask]
    BY DEF LoopsOver
  <1>2. Watched(loop) = S
    BY <1>1 DEF Watched
  <1> DEFINE T == S \ (fds \cap loop.listen_fds)
             w == [f \in T |-> loop.epoll[f]]
  <1>3. DeleteAll(loop, fds) = [listen_fds |-> loop.listen_fds \ fds, epoll |-> w]
    BY <1>2 DEF DeleteAll, Restrict
  <1>4. /\ w \in [T -> EventMask] /\ T \in SUBSET F /\ DOMAIN w = T
        /\ \A f \in T : w[f] = loop.epoll[f]
    BY <1>1
  <1>5. loop.listen_fds \ fds \in SUBSET F
    BY DEF LoopsOver
  <1> HIDE DEF w
  <1> QED BY <1>2, <1>3, <1>4, <1>5 DEF LoopsOver, Watched

(* The closing of a descriptor. *)
LEMMA CloseLoop ==
    ASSUME NEW F, NEW loop \in LoopsOver(F), NEW fd
    PROVE  LET l == CloseInEpoll(loop, fd)
           IN  /\ l \in LoopsOver(F)
               /\ l.listen_fds = loop.listen_fds
               /\ Watched(l) = Watched(loop) \ {fd}
               /\ \A f \in Watched(l) : l.epoll[f] = loop.epoll[f]
  <1>1. PICK S \in SUBSET F : loop.epoll \in [S -> EventMask]
    BY DEF LoopsOver
  <1>2. Watched(loop) = S
    BY <1>1 DEF Watched
  <1> DEFINE T == S \ {fd}
             w == [f \in T |-> loop.epoll[f]]
  <1>3. CloseInEpoll(loop, fd) = [listen_fds |-> loop.listen_fds, epoll |-> w]
    BY <1>1, <1>2 DEF CloseInEpoll, Restrict, LoopsOver
  <1>4. /\ w \in [T -> EventMask] /\ T \in SUBSET F /\ DOMAIN w = T
        /\ \A f \in T : w[f] = loop.epoll[f]
    BY <1>1
  <1> HIDE DEF w
  <1> QED BY <1>2, <1>3, <1>4 DEF LoopsOver, Watched
=============================================================================
