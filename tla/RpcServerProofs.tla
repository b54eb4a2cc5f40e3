--------------------------- MODULE RpcServerProofs ---------------------------
(***************************************************************************)
(* What the server's side of a call keeps, for any connections, number of  *)
(* requests and number of closures.                                        *)
(***************************************************************************)
EXTENDS RpcServer, FdEventLemmas

-----------------------------------------------------------------------------
(* The positions of a sequence, in order. *)

(* What stands at the end of a sequence is picked as it stands. *)
LEMMA PickedTail ==
    ASSUME NEW S, NEW s \in Seq(S), NEW u \in Seq(S)
    PROVE  Picked(s \o u, {i \in DOMAIN (s \o u) : i > Len(s)}) = u
  <1> DEFINE x == s \o u
             P == {i \in DOMAIN x : i > Len(s)}
             a == Len(s)
             n == Len(u)
  <1>1. /\ x \in Seq(S) /\ a \in Nat /\ n \in Nat /\ DOMAIN x = 1..(a + n)
        /\ DOMAIN u = 1..n /\ \A i \in 1..n : x[a + i] = u[i]
    BY ConcatProperties, LenProperties
  <1> HIDE DEF x
  <1>2. PICK lo \in Int, hi \in Nat : lo = a + 1 /\ hi = a + n
    BY <1>1
  <1>3. P = lo..hi /\ P \in SUBSET DOMAIN x /\ P \in SUBSET (1..hi)
    BY <1>1, <1>2
  <1> HIDE DEF P, a, n
  <1>4. Cardinality(P) = n
    <2>1. Cardinality(lo..hi) = IF lo > hi THEN 0 ELSE hi - lo + 1
      BY FS_Interval
    <2> QED BY <1>1, <1>2, <1>3, <2>1
  <1>5. \A k \in 1..n : Nth(P, k) = a + k
    <2> TAKE k \in 1..n
    <2>1. Nth(P, k) \in P /\ Cardinality({j \in P : j <= Nth(P, k)}) = k
      BY <1>3, <1>4, NthCounts
    <2>2. PICK i \in P : i = Nth(P, k)
      BY <2>1
    <2> DEFINE R == {j \in P : j <= i}
    <2>3. Cardinality(R) = k
      BY <2>1, <2>2
    <2>4. R = lo..i /\ i \in Int /\ i >= lo
      BY <1>3
    <2> HIDE DEF R
    <2>5. Cardinality(lo..i) = IF lo > i THEN 0 ELSE i - lo + 1
      BY <2>4, FS_Interval
    <2>6. k = i - lo + 1
      BY <2>3, <2>4, <2>5
    <2>7. i = a + k
      BY <1>1, <1>2, <2>4, <2>6
    <2> QED BY <2>2, <2>7
  <1>6. Picked(x, P) \in Seq(S) /\ Len(Picked(x, P)) = n
        /\ \A k \in 1..n : Picked(x, P)[k] = x[Nth(P, k)]
    <2>1. x \in Seq(S) /\ P \in SUBSET DOMAIN x
      BY <1>1, <1>3
    <2> QED BY <1>4, <2>1, PickedSeq
  <1>7. Picked(x, P) = u
    <2>1. Len(u) = n
      BY DEF n
    <2>2. \A k \in 1..n : Picked(x, P)[k] = u[k]
      BY <1>1, <1>5, <1>6
    <2> QED BY <1>6, <2>1, <2>2, SeqEqual
  <1> QED BY <1>7 DEF x, P, a

-----------------------------------------------------------------------------
(* Messages on the wire. *)

(* What is serialised is parsed back: fields that were left out have their   *)
(* defaults, and what the type does not know is kept.                        *)
LEMMA RoundTrip ==
    ASSUME NEW t \in Seq({"int32", "string"}),
           NEW V, NEW f \in [DOMAIN t -> V],
           NEW W, NEW u \in Seq(W),
           \A n \in DOMAIN t : [num |-> n, wire |-> WireType(t[n]), value |-> f[n]] \in W,
           \A i \in DOMAIN u : ~ Known(t, u[i])
    PROVE  LET msg == [fields |-> f, unknown |-> u]
           IN  /\ Serialized(t, msg) \in Seq(W)
               /\ Parsed(t, Serialized(t, msg)) = msg
  <1> DEFINE msg == [fields |-> f, unknown |-> u]
             all == [n \in DOMAIN t |-> [num |-> n, wire |-> WireType(t[n]), value |-> f[n]]]
             P == {n \in DOMAIN t : f[n] # Default(t[n])}
             s == Picked(all, P)
             x == s \o u
             a == Len(s)
  <1>1. DOMAIN t = 1..Len(t) /\ Len(t) \in Nat
    BY LenProperties
  <1>2. all \in Seq(W) /\ DOMAIN all = DOMAIN t /\ P \in SUBSET DOMAIN all
    BY <1>1, IsASeq
  <1>3. x = Serialized(t, msg)
    BY DEF Serialized
  <1>a. \A n \in DOMAIN t : all[n] = [num |-> n, wire |-> WireType(t[n]), value |-> f[n]]
    OBVIOUS
  <1> HIDE DEF all, P
  <1>4. /\ s \in Seq(W) /\ a = Cardinality(P) /\ a \in Nat
        /\ \A k \in 1..a : Nth(P, k) \in P /\ s[k] = all[Nth(P, k)]
        /\ \A i \in P : \E k \in 1..a : Nth(P, k) = i
        /\ \A k, l \in 1..a : Nth(P, k) = Nth(P, l) => k = l
    <2>1. /\ Picked(all, P) \in Seq(W)
          /\ Len(Picked(all, P)) = Cardinality(P) /\ Cardinality(P) \in Nat
          /\ \A k \in 1..Cardinality(P) :
               Nth(P, k) \in P /\ Picked(all, P)[k] = all[Nth(P, k)]
          /\ \A i \in P : \E k \in 1..Cardinality(P) : Nth(P, k) = i
          /\ \A k, l \in 1..Cardinality(P) : Nth(P, k) = Nth(P, l) => k = l
      BY <1>2, PickedSeq
    <2> HIDE DEF s, a
    <2>2. a = Cardinality(P) /\ s = Picked(all, P)
      BY <2>1 DEF s, a
    <2> QED BY <2>1, <2>2
  <1> HIDE DEF s
  <1>5. /\ x \in Seq(W) /\ Len(u) \in Nat /\ DOMAIN u = 1..Len(u)
        /\ DOMAIN x = 1..(a + Len(u))
        /\ \A i \in 1..a : x[i] = s[i]
        /\ \A i \in 1..Len(u) : x[a + i] = u[i]
    <2>1. /\ s \o u \in Seq(W)
          /\ Len(s \o u) = Len(s) + Len(u)
          /\ \A i \in 1..(Len(s) + Len(u)) :
               (s \o u)[i] = IF i <= Len(s) THEN s[i] ELSE u[i - Len(s)]
      BY <1>4, ConcatProperties, ZenonT(40)
    <2>2. Len(u) \in Nat /\ DOMAIN u = 1..Len(u) /\ DOMAIN (s \o u) = 1..Len(s \o u)
      BY <2>1, LenProperties
    <2> QED BY <1>4, <2>1, <2>2
  <1> HIDE DEF x, a
  <1>6. \A i \in 1..a : Known(t, x[i]) /\ x[i].num = Nth(P, i) /\ x[i].value = f[Nth(P, i)]
    <2> TAKE i \in 1..a
    <2>1. PICK n \in DOMAIN t : n = Nth(P, i) /\ x[i] = all[n]
      BY <1>2, <1>4, <1>5
    <2>2. x[i] = [num |-> n, wire |-> WireType(t[n]), value |-> f[n]]
      BY <1>a, <2>1
    <2> QED BY <2>1, <2>2 DEF Known
  <1>7. \A i \in DOMAIN x : Known(t, x[i]) <=> i \in 1..a
    <2> TAKE i \in DOMAIN x
    <2>1. CASE i \in 1..a
      BY <1>6, <2>1
    <2>2. CASE i \notin 1..a
      <3>1. PICK k \in 1..Len(u) : i = a + k
        <4>1. i \in Nat /\ i > a /\ i - a \in 1..Len(u) /\ i = a + (i - a)
          BY <1>4, <1>5, <2>2
        <4> QED BY <4>1
      <3>2. ~ Known(t, u[k]) /\ x[i] = u[k]
        BY <1>5, <3>1
      <3> QED BY <2>2, <3>2
    <2> QED BY <2>1, <2>2
  <1>8. Picked(x, {i \in DOMAIN x : ~ Known(t, x[i])}) = u
    <2>1. {i \in DOMAIN x : ~ Known(t, x[i])} = {i \in DOMAIN x : i > a}
      BY <1>4, <1>5, <1>7
    <2> QED BY <1>4, <2>1, PickedTail DEF x, a
  <1>9. ASSUME NEW n \in DOMAIN t
        PROVE  (IF Occurs(t, x, n) = {} THEN Default(t[n])
                ELSE x[CHOOSE i \in Occurs(t, x, n) :
                         \A j \in Occurs(t, x, n) : j <= i].value) = f[n]
    <2>1. Occurs(t, x, n) = {i \in 1..a : Nth(P, i) = n}
      BY <1>4, <1>5, <1>6, <1>7 DEF Occurs
    <2>2. CASE n \in P
      <3>1. PICK k \in 1..a : Nth(P, k) = n
        BY <1>4, <2>2
      <3>2. Occurs(t, x, n) = {k}
        BY <1>4, <2>1, <3>1
      <3>3. (CHOOSE i \in {k} : \A j \in {k} : j <= i) = k
        BY <1>4
      <3>4. x[k].value = f[n]
        BY <1>6, <3>1
      <3> QED BY <3>2, <3>3, <3>4
    <2>3. CASE n \notin P
      <3>1. Occurs(t, x, n) = {}
        BY <1>4, <2>1, <2>3
      <3>2. Default(t[n]) = f[n]
        BY <2>3 DEF P
      <3> QED BY <3>1, <3>2
    <2> QED BY <2>2, <2>3
  <1>10. Parsed(t, x).fields = f
    <2>1. f = [n \in DOMAIN t |-> f[n]]
      OBVIOUS
    <2> QED BY <1>9, <2>1 DEF Parsed
  <1>11. Parsed(t, x) = msg
    BY <1>8, <1>10 DEF Parsed
  <1> QED BY <1>3, <1>5, <1>11

-----------------------------------------------------------------------------
(* The invariant. *)

Value == {-1, 0, 5, 6, OkText, ErrText, EmptyText}
Wire  == [num : 1..9, wire : {"varint", "len"}, value : Value]

\* A response has the fields of its method's type, and no others.
Response(method) == [fields : [DOMAIN ResponseType(method) -> Value], unknown : {<< >>}]

Answer == [call : Nat, conn : Conn, msg_id : Nat, method_name : QueryService,
           pb_data : Seq(Wire), to : {"Connected", "Closed", "freed"}]

\* An interface exists as long as a closure holds it, between the handlers, and
\* then the application has put the answer off.
CallsSound ==
    \A n \in DOMAIN calls :
      /\ calls[n].rsp \in Response(calls[n].method)
      /\ calls[n].alive <=> calls[n].closures > 0
      /\ calls[n].alive => calls[n].deferred

ServerInv ==
    /\ TypeOK
    /\ replies \in Seq(Answer)
    /\ CallsSound
    /\ AnswerIsOwn
    /\ RunTimeAlive
    /\ LateAnswersDeferred

-----------------------------------------------------------------------------
(* Responses and requests. *)

LEMMA MessageTypes ==
    /\ \A m \in QueryService : DOMAIN ResponseType(m) = 1..5
    /\ \A m \in QueryService : ResponseType(m) \in Seq({"int32", "string"})
    /\ \A m \in QueryService : RequestType(m) \in Seq({"int32", "string"})
    /\ \A m \in QueryService : RequestType(m) \in {queryNameReq, queryAgeReq}
    /\ DOMAIN queryNameReq = 1..3 /\ DOMAIN queryAgeReq = 1..2
  BY DEF QueryService, ResponseType, RequestType, queryNameReq, queryAgeReq,
         queryNameRes, queryAgeRes

LEMMA NewResponse ==
    ASSUME NEW m \in QueryService
    PROVE  NewMessage(ResponseType(m)) \in Response(m)
  BY DEF NewMessage, Response, Default, Value

LEMMA ResultKept ==
    ASSUME NEW m \in QueryService, NEW rsp \in Response(m),
           NEW code \in Value, NEW info \in Value
    PROVE  SetResult(rsp, code, info) \in Response(m)
  BY DEF SetResult, set_ret_code, set_res_info, Response

LEMMA ResponseTyped ==
    ASSUME NEW m \in QueryService, NEW rsp \in Response(m)
    PROVE  rsp \in [fields : Seq({-1, 0, 5, 6, OkText, ErrText, EmptyText}), unknown : {<< >>}]
  <1>1. rsp.fields \in [1..5 -> Value] /\ rsp.unknown = << >>
        /\ rsp = [fields |-> rsp.fields, unknown |-> rsp.unknown]
    BY MessageTypes DEF Response
  <1>2. rsp.fields \in Seq(Value)
    <2>1. [1..5 -> Value] \in {[1..n -> Value] : n \in Nat}
      OBVIOUS
    <2>2. rsp.fields \in UNION {[1..n -> Value] : n \in Nat}
      BY <1>1, <2>1
    <2> QED BY <2>2, SeqDef
  <1> QED BY <1>1, <1>2 DEF Value

(* An accepted request is seen as the client built it. *)
LEMMA RequestIntact ==
    ASSUME NEW name \in Names, NEW request \in Incoming(name),
           Verdict(name, request.data) = "OK"
    PROVE  /\ name[2] \in QueryService
           /\ request.msg \in Message
           /\ Parsed(RequestType(name[2]), request.data) = request.msg
  <1> DEFINE t == RequestType(name[2])
             f == [n \in DOMAIN t |-> IF n = 1 THEN 0 ELSE 7]
             u == <<Varint(9, 1)>>
             cut == [num |-> 2, wire |-> "cut", value |-> 0]
             msg == [fields |-> f, unknown |-> u]
             W == [num : 1..9, wire : {"varint", "len"}, value : {0, 1, 7}]
  <1>1. /\ Len(name) >= 2
        /\ MethodName(name) \in {<<m>> : m \in QueryService}
        /\ Parses(t, request.data)
    BY DEF Verdict, Names
  <1>2. Len(name) = 2 /\ name[2] \in QueryService
    <2>1. \/ name = <<"QueryService", "query_age">>
          \/ name = <<"QueryService", "query_name">>
          \/ name = <<"QueryService", "drop">>
          \/ name = <<"order", "QueryService", "query_age">>
      BY <1>1 DEF Names
    <2>2. PICK m \in QueryService : MethodName(name) = <<m>>
      BY <1>1
    <2>3. SubSeq(name, 2, Len(name)) = <<m>> /\ Len(<<m>>) = 1 /\ <<m>>[1] = m
      BY <2>2 DEF MethodName
    <2>4. CASE Len(name) = 2
      <3>1. SubSeq(name, 2, 2)[1] = name[2]
        BY <2>1
      <3> QED BY <2>3, <2>4, <3>1
    <2>5. CASE name = <<"order", "QueryService", "query_age">>
      <3>1. Len(SubSeq(name, 2, 3)) = 2
        BY <2>5
      <3> QED BY <2>3, <2>5, <3>1
    <2> QED BY <2>1, <2>4, <2>5
  <1>3. t \in Seq({"int32", "string"}) /\ DOMAIN t \in {1..2, 1..3}
    BY <1>2, MessageTypes DEF RequestType
  <1>4. PICK e \in {<< >>, <<cut>>} :
          request.msg = msg /\ request.data = Serialized(t, msg) \o e
    BY <1>2 DEF Incoming, Request
  <1>5. f \in [DOMAIN t -> {0, 7}] /\ u \in Seq(W)
    BY DEF Varint
  <1>6. \A n \in DOMAIN t : [num |-> n, wire |-> WireType(t[n]), value |-> f[n]] \in W
    BY <1>3 DEF WireType
  <1>7. \A i \in DOMAIN u : ~ Known(t, u[i])
    BY <1>3 DEF Known, Varint
  <1> HIDE DEF t, f, u, W
  <1>8. Serialized(t, msg) \in Seq(W) /\ Parsed(t, Serialized(t, msg)) = msg
    BY <1>3, <1>5, <1>6, <1>7, RoundTrip
  <1>9. e = << >>
    <2>1. SUFFICES ASSUME e = <<cut>> PROVE FALSE
      BY <1>4
    <2> DEFINE s == Serialized(t, msg)
    <2>2. Len(s) \in Nat /\ Len(s) + 1 \in DOMAIN request.data
          /\ request.data[Len(s) + 1] = cut
      BY <1>4, <1>8, <2>1
    <2> QED BY <1>1, <2>2 DEF Parses, Malformed
  <1>10. request.data = Serialized(t, msg)
    BY <1>4, <1>8, <1>9, ConcatEmptySeq
  <1>11. msg \in Message
    <2>1. f \in Seq({0, 7})
      BY <1>3, <1>5, IsASeq
    <2>2. u \in Seq({Varint(9, 1)})
      BY DEF u
    <2> QED BY <2>1, <2>2 DEF Message
  <1> QED BY <1>2, <1>4, <1>8, <1>10, <1>11 DEF t

(* A response is read by the client as the server left it. *)
LEMMA ResponseIntact ==
    ASSUME NEW m \in QueryService, NEW rsp \in Response(m)
    PROVE  /\ Serialized(ResponseType(m), rsp) \in Seq(Wire)
           /\ Parsed(ResponseType(m), Serialized(ResponseType(m), rsp)) = rsp
  <1> DEFINE t == ResponseType(m)
             f == rsp.fields
             u == << >>
  <1>1. rsp = [fields |-> f, unknown |-> u] /\ f \in [DOMAIN t -> Value]
    BY DEF Response
  <1>2. t \in Seq({"int32", "string"}) /\ DOMAIN t = 1..5
    BY MessageTypes
  <1>3. u \in Seq(Wire) /\ DOMAIN u = {}
    OBVIOUS
  <1>4. \A n \in DOMAIN t : [num |-> n, wire |-> WireType(t[n]), value |-> f[n]] \in Wire
    BY <1>1, <1>2 DEF Wire, WireType
  <1> HIDE DEF t, f, u
  <1>5. \A i \in DOMAIN u : ~ Known(t, u[i])
    BY <1>3
  <1> QED BY <1>1, <1>2, <1>3, <1>4, <1>5, RoundTrip DEF t

-----------------------------------------------------------------------------
(* The end of a handler. *)

Own(s, n) == {i \in DOMAIN s : s[i].call = n}

\* x is s with the answers y, which are all to call n, appended.
Appended(s, n, y, x) ==
    /\ Len(s) \in Nat /\ Len(y) \in Nat
    /\ DOMAIN s = 1..Len(s) /\ DOMAIN x = 1..(Len(s) + Len(y))
    /\ \A i \in DOMAIN s : x[i] = s[i]
    /\ \A i \in (Len(s) + 1)..(Len(s) + Len(y)) : x[i] = y[i - Len(s)]
    /\ \A k : k # n => Own(x, k) = Own(s, k)
    /\ Own(x, n) = Own(s, n) \cup ((Len(s) + 1)..(Len(s) + Len(y)))
    /\ \A k : Cardinality(Own(s, k)) \in Nat
    /\ Cardinality(Own(x, n)) = Cardinality(Own(s, n)) + Len(y)

(* Answers that are appended are counted for their call, and for no other. *)
LEMMA AnswersCount ==
    ASSUME NEW S, NEW s \in Seq(S), NEW n, NEW y \in Seq(S),
           \A k \in 1..Len(y) : y[k].call = n,
           NEW x, x = s \o y
    PROVE  x \in Seq(S) /\ Appended(s, n, y, x)
  <1> DEFINE a == Len(s)
             m == Len(y)
  <1>2. /\ x \in Seq(S) /\ a \in Nat /\ m \in Nat /\ DOMAIN s = 1..a /\ DOMAIN x = 1..(a + m)
        /\ \A i \in 1..(a + m) : x[i] = IF i <= a THEN s[i] ELSE y[i - a]
    <2>1. /\ s \o y \in Seq(S)
          /\ Len(s \o y) = Len(s) + Len(y)
          /\ \A i \in 1..(Len(s) + Len(y)) :
               (s \o y)[i] = IF i <= Len(s) THEN s[i] ELSE y[i - Len(s)]
      BY ConcatProperties
    <2>2. /\ Len(s) \in Nat /\ Len(y) \in Nat /\ DOMAIN s = 1..Len(s)
          /\ DOMAIN (s \o y) = 1..Len(s \o y)
      BY <2>1, LenProperties
    <2> QED BY <2>1, <2>2
  <1>1. \A k \in 1..m : y[k].call = n
    OBVIOUS
  <1> HIDE DEF a, m
  <1>3. \A i \in DOMAIN s : i \in DOMAIN x /\ x[i] = s[i]
    BY <1>2
  <1>4. PICK lo \in Int, hi \in Int : lo = a + 1 /\ hi = a + m
    BY <1>2
  <1>5. \A i \in lo..hi : i \in DOMAIN x /\ i \notin DOMAIN s /\ x[i] = y[i - a] /\ x[i].call = n
    <2> TAKE i \in lo..hi
    <2>1. i \in 1..(a + m) /\ ~ (i <= a) /\ i - a \in 1..m
      BY <1>2, <1>4
    <2> QED BY <1>1, <1>2, <2>1
  <1>6. DOMAIN x = DOMAIN s \cup (lo..hi)
    BY <1>2, <1>4
  <1>7. \A k : k # n => Own(x, k) = Own(s, k)
    BY <1>3, <1>5, <1>6 DEF Own
  <1>8. Own(x, n) = Own(s, n) \cup (lo..hi)
    BY <1>3, <1>5, <1>6 DEF Own
  <1>9. \A k : IsFiniteSet(Own(s, k)) /\ Cardinality(Own(s, k)) \in Nat
    <2> TAKE k
    <2>1. IsFiniteSet(1..a) /\ Own(s, k) \in SUBSET (1..a)
      BY <1>2, FS_Interval DEF Own
    <2>2. IsFiniteSet(Own(s, k))
      BY <2>1, FS_Subset
    <2> QED BY <2>2, FS_CardinalityType
  <1>10. Cardinality(Own(x, n)) = Cardinality(Own(s, n)) + m
    <2>0. Cardinality(lo..hi) = IF lo > hi THEN 0 ELSE hi - lo + 1
      BY FS_Interval
    <2>1. IsFiniteSet(lo..hi) /\ Cardinality(lo..hi) = m
      BY <1>2, <1>4, <2>0, FS_Interval
    <2>2. Own(s, n) \cap (lo..hi) = {}
      BY <1>5 DEF Own
    <2>3. Cardinality({}) = 0
      BY FS_EmptySet
    <2>4. Cardinality(Own(s, n) \cup (lo..hi))
            = Cardinality(Own(s, n)) + Cardinality(lo..hi) - Cardinality(Own(s, n) \cap (lo..hi))
      BY <1>9, <2>1, FS_Union
    <2> DEFINE o == Cardinality(Own(s, n))
    <2>5. o \in Nat /\ Cardinality(Own(x, n)) = o + m - 0
      BY <1>8, <1>9, <2>1, <2>2, <2>3, <2>4
    <2> QED BY <1>2, <2>5
  <1> QED BY <1>2, <1>3, <1>4, <1>5, <1>7, <1>8, <1>9, <1>10 DEF a, m, Appended

(* What stands in the longer sequence comes from one of the two. *)
LEMMA AppendedFrom ==
    ASSUME NEW s, NEW n, NEW y, NEW x, Appended(s, n, y, x)
    PROVE  /\ \A i \in DOMAIN x : i \in DOMAIN s \/ \E k \in 1..Len(y) : x[i] = y[k]
           /\ \A i \in DOMAIN s : i \in DOMAIN x /\ x[i] = s[i]
           /\ Len(y) > 0 => Len(s) + Len(y) \in DOMAIN x /\ x[Len(s) + Len(y)] = y[Len(y)]
  <1>1. PICK a, m : a = Len(s) /\ m = Len(y)
    OBVIOUS
  <1>2. /\ a \in Nat /\ m \in Nat /\ DOMAIN s = 1..a /\ DOMAIN x = 1..(a + m)
        /\ \A i \in DOMAIN s : x[i] = s[i]
        /\ \A i \in (a + 1)..(a + m) : x[i] = y[i - a]
    BY <1>1 DEF Appended
  <1>3. ASSUME NEW i \in DOMAIN x, i \notin DOMAIN s PROVE \E k \in 1..m : x[i] = y[k]
    <2>1. i \in (a + 1)..(a + m) /\ i - a \in 1..m
      BY <1>2, <1>3
    <2> QED BY <1>2, <2>1
  <1>4. m > 0 => a + m \in DOMAIN x /\ x[a + m] = y[m]
    <2>1. m > 0 => a + m \in (a + 1)..(a + m) /\ (a + m) - a = m /\ a + m \in 1..(a + m)
      BY <1>2
    <2> QED BY <1>2, <2>1
  <1> QED BY <1>1, <1>2, <1>3, <1>4

\* What a handler brings to its end: a call it has just dispatched, or one the
\* application still held.
Handled(n, call, early, iface, msgid) ==
    /\ n \in 1..(Len(calls) + 1) /\ call \in Call /\ early \in Seq(Response(call.method))
    /\ call.rsp \in Response(call.method) /\ call.alive /\ call.req = call.sent
    /\ call.closures > 0 \/ conn[call.conn] # "Connected" => call.deferred
    /\ IF n \in DOMAIN calls
       THEN /\ calls[n].alive /\ calls[n].early \in Nat
            /\ call.conn = calls[n].conn /\ call.method = calls[n].method
            /\ call.early = calls[n].early + Len(early) /\ call.deferred = calls[n].deferred
       ELSE call.early = Len(early) /\ Len(calls) + Len(refused) < MaxRequests
    /\ iface \in {NoCall, n} \cup {k \in DOMAIN calls : calls[k].alive}
    /\ msgid \in 0..Len(calls) \cup {n}

\* What it gives the connection to send: the answers of the application, and the
\* one of the interface's release, which is the last.
Answered(n, call, early, y) ==
    /\ y \in Seq(Answer) /\ replies' = replies \o y
    /\ Len(early) \in Nat /\ Len(y) \in Nat
    /\ call.closures = 0 => Len(y) = Len(early) + 1
    /\ call.closures # 0 => Len(y) = Len(early)
    /\ watched' = [watched EXCEPT ![call.conn] = @ \/ (Len(y) > 0 /\ conn[call.conn] # "freed")]
    /\ Len(y) > 0 => runTime'.iface = NoCall
    /\ \A k \in 1..Len(y) :
         /\ y[k].call = n /\ y[k].conn = call.conn /\ y[k].msg_id = n
         /\ y[k].method_name = call.method /\ y[k].to = conn[call.conn]
         /\ call.closures = 0 /\ k = Len(y) =>
              Parsed(ResponseType(call.method), y[k].pb_data) = call.rsp

(* The calls after the end of a handler, and the answers it appends. *)
LEMMA FinishCalls ==
    ASSUME ServerInv, NEW n, NEW call, NEW early, NEW iface, NEW msgid,
           Handled(n, call, early, iface, msgid), Finish(n, call, early, iface, msgid)
    PROVE  /\ Len(calls) \in Nat /\ DOMAIN calls = 1..Len(calls)
           /\ calls' \in Seq(Call) /\ DOMAIN calls' = DOMAIN calls \cup {n}
           /\ Len(calls') = IF n \in DOMAIN calls THEN Len(calls) ELSE Len(calls) + 1
           /\ \A k \in DOMAIN calls : k # n => calls'[k] = calls[k]
           /\ calls'[n] = [call EXCEPT !.alive = call.closures > 0]
           /\ calls'[n] \in Call
  <1> DEFINE done == [call EXCEPT !.alive = call.closures > 0]
             D == 1..Len(calls) \cup {n}
             cs == [k \in D |-> IF k = n THEN done ELSE calls[k]]
  <1>0. n \in 1..(Len(calls) + 1) /\ call \in Call /\ calls \in Seq(Call)
    BY DEF Handled, ServerInv, TypeOK
  <1>1. Len(calls) \in Nat /\ DOMAIN calls = 1..Len(calls)
    BY <1>0, LenProperties
  <1>2. call.closures \in Nat
    BY <1>0, ServerAssumption DEF Call
  <1>3. /\ done \in Call
        /\ done = [call EXCEPT !.alive = ~ (call.closures = 0)]
    <2>1. (call.closures > 0) = ~ (call.closures = 0) /\ (call.closures > 0) \in BOOLEAN
      BY <1>2
    <2> QED BY <1>0, <2>1 DEF Call
  <1>4. calls' = cs
    BY <1>1, <1>3 DEF Finish
  <1>5. PICK m \in Nat : D = 1..m /\ m = IF n \in DOMAIN calls THEN Len(calls) ELSE Len(calls) + 1
    <2> DEFINE a == Len(calls)
    <2> HIDE DEF a
    <2>0. a \in Nat /\ DOMAIN calls = 1..a /\ D = 1..a \cup {n} /\ n \in 1..(a + 1)
      BY <1>0, <1>1 DEF a
    <2>1. CASE n \in 1..a
      <3>1. D = 1..a
        BY <2>0, <2>1
      <3> QED BY <2>0, <2>1, <3>1 DEF a
    <2>2. CASE n = a + 1
      <3>1. D = 1..(a + 1) /\ n \notin 1..a /\ a + 1 \in Nat
        BY <2>0, <2>2
      <3> QED BY <2>0, <3>1 DEF a
    <2> QED BY <2>0, <2>1, <2>2
  <1>6. \A k \in 1..m : cs[k] \in Call
    <2> TAKE k \in 1..m
    <2>1. k # n => k \in 1..Len(calls)
      BY <1>5
    <2>2. k # n => calls[k] \in Call
      BY <1>0, <2>1, ElementOfSeq
    <2> QED BY <1>3, <1>5, <2>2
  <1>7. cs \in Seq(Call) /\ Len(cs) = m
    <2>1. DOMAIN cs = 1..m /\ cs = [k \in 1..m |-> cs[k]]
      BY <1>5
    <2> HIDE DEF cs
    <2>2. [k \in 1..m |-> cs[k]] \in Seq(Call) /\ Len([k \in 1..m |-> cs[k]]) = m
      BY <1>6
    <2> QED BY <2>1, <2>2
  <1> HIDE DEF done
  <1>8. DOMAIN calls' = D /\ cs[n] = done /\ \A k \in DOMAIN calls : k # n => cs[k] = calls[k]
    BY <1>1, <1>4
  <1> QED BY <1>1, <1>3, <1>4, <1>5, <1>7, <1>8 DEF done

LEMMA FinishAnswers ==
    ASSUME ServerInv, NEW n, NEW call, NEW early, NEW iface, NEW msgid,
           Handled(n, call, early, iface, msgid), Finish(n, call, early, iface, msgid)
    PROVE  \E y : Answered(n, call, early, y) /\ Appended(replies, n, y, replies')
                  /\ replies' \in Seq(Answer)
  <1> DEFINE R == Response(call.method)
             last == IF call.closures = 0 THEN <<call.rsp>> ELSE << >>
             sent == early \o last
             m == Len(sent)
             y == [k \in DOMAIN sent |-> ReplyOf(n, [call EXCEPT !.rsp = sent[k]])]
  <1>0. n \in Nat /\ call \in Call /\ early \in Seq(R) /\ call.rsp \in R /\ replies \in Seq(Answer)
    BY LenProperties DEF Handled, ServerInv, TypeOK
  <1>1. /\ call.closures \in Nat /\ call.method \in QueryService /\ call.conn \in Conn
        /\ conn[call.conn] \in {"Connected", "Closed", "freed"}
    BY <1>0, ServerAssumption DEF Call, ServerInv, TypeOK
  <1>2. /\ replies' = replies \o y
        /\ watched' = [watched EXCEPT ![call.conn] = @ \/ (sent # << >> /\ conn[call.conn] # "freed")]
        /\ sent # << >> => runTime'.iface = NoCall
    BY DEF Finish, ClosureRun
  <1>3. /\ sent \in Seq(R) /\ DOMAIN sent = 1..m /\ m \in Nat /\ Len(early) \in Nat
        /\ call.closures = 0 => m = Len(early) + 1 /\ sent[m] = call.rsp
        /\ call.closures # 0 => m = Len(early)
        /\ sent # << >> <=> m > 0
    <2> HIDE DEF R
    <2>1. last \in Seq(R) /\ (call.closures = 0 => Len(last) = 1 /\ last[1] = call.rsp)
          /\ (call.closures # 0 => Len(last) = 0)
      BY <1>0
    <2> HIDE DEF last
    <2>2. /\ early \o last \in Seq(R)
          /\ Len(early \o last) = Len(early) + Len(last)
          /\ \A i \in 1..(Len(early) + Len(last)) :
               (early \o last)[i] = IF i <= Len(early) THEN early[i] ELSE last[i - Len(early)]
      BY <1>0, <2>1, ConcatProperties
    <2>3. Len(early) \in Nat /\ DOMAIN sent = 1..m /\ m \in Nat
      BY <1>0, <2>2, LenProperties
    <2>4. sent # << >> <=> m > 0
      BY <2>2, <2>3, EmptySeq, LenProperties
    <2> QED BY <2>1, <2>2, <2>3, <2>4
  <1> HIDE DEF sent, m
  <1>4. ASSUME NEW k \in 1..m
        PROVE  /\ y[k] \in Answer
               /\ y[k].call = n /\ y[k].conn = call.conn /\ y[k].msg_id = n
               /\ y[k].method_name = call.method /\ y[k].to = conn[call.conn]
               /\ Parsed(ResponseType(call.method), y[k].pb_data) = sent[k]
    <2> DEFINE c == [call EXCEPT !.rsp = sent[k]]
    <2>1. c.rsp = sent[k] /\ c.conn = call.conn /\ c.method = call.method
      BY <1>0 DEF Call
    <2>2. sent[k] \in R
      BY <1>3, ElementOfSeq
    <2>3. /\ Serialized(ResponseType(call.method), sent[k]) \in Seq(Wire)
          /\ Parsed(ResponseType(call.method), Serialized(ResponseType(call.method), sent[k])) = sent[k]
      BY <1>1, <2>2, ResponseIntact
    <2>4. y[k] = ReplyOf(n, c)
      BY <1>3
    <2> HIDE DEF c, y
    <2>5. /\ ReplyOf(n, c) = [call |-> n, conn |-> call.conn, msg_id |-> n,
                              method_name |-> call.method,
                              pb_data |-> Serialized(ResponseType(call.method), sent[k]),
                              to |-> conn[call.conn]]
      BY <2>1 DEF ReplyOf
    <2> QED BY <1>0, <1>1, <2>3, <2>4, <2>5 DEF Answer
  <1>5. y \in Seq(Answer) /\ Len(y) = m
    <2>1. DOMAIN y = 1..m /\ y = [k \in 1..m |-> y[k]]
      BY <1>3
    <2> HIDE DEF y
    <2>2. [k \in 1..m |-> y[k]] \in Seq(Answer) /\ Len([k \in 1..m |-> y[k]]) = m
      BY <1>3, <1>4
    <2> QED BY <2>1, <2>2
  <1> HIDE DEF y
  <1>6. Answered(n, call, early, y)
    BY <1>2, <1>3, <1>4, <1>5 DEF Answered
  <1>7. replies' \in Seq(Answer) /\ Appended(replies, n, y, replies')
    BY <1>0, <1>2, <1>4, <1>5, AnswersCount
  <1> QED BY <1>6, <1>7

\* What AnswerIsOwn says of one call.
AnswersOf(n) ==
    /\ calls[n].req = calls[n].sent
    /\ Cardinality(Own(replies, n)) = calls[n].early + (IF calls[n].alive THEN 0 ELSE 1)
    /\ \A i \in Own(replies, n) :
         /\ replies[i].conn = calls[n].conn
         /\ replies[i].msg_id = n
         /\ replies[i].method_name = calls[n].method
         /\ ~ calls[n].alive /\ (\A j \in Own(replies, n) : j <= i) =>
              Parsed(ResponseType(calls[n].method), replies[i].pb_data) = calls[n].rsp

LEMMA AnswerIsOwnByCall == AnswerIsOwn <=> \A n \in DOMAIN calls : AnswersOf(n)
  BY DEF AnswerIsOwn, AnswersOf, Own

LEMMA AnswersUnchanged ==
    ASSUME AnswerIsOwn, UNCHANGED <<calls, replies>>
    PROVE  AnswerIsOwn'
  <1>1. calls' = calls /\ replies' = replies /\ \A n \in DOMAIN calls : AnswersOf(n)
    BY AnswerIsOwnByCall
  <1>2. (\A n \in DOMAIN calls : AnswersOf(n))'
    BY <1>1 DEF AnswersOf
  <1> QED BY <1>2 DEF AnswerIsOwn, AnswersOf, Own

LEMMA FinishOwn ==
    ASSUME ServerInv, NEW n, NEW call, NEW early, NEW iface, NEW msgid,
           Handled(n, call, early, iface, msgid), Finish(n, call, early, iface, msgid)
    PROVE  AnswerIsOwn'
  <1>0. \A k \in DOMAIN calls : AnswersOf(k)
    BY AnswerIsOwnByCall DEF ServerInv
  <1>1. PICK y : Answered(n, call, early, y) /\ Appended(replies, n, y, replies')
    BY FinishAnswers
  <1>2. PICK a, times : a = Len(replies) /\ times = Len(y)
    OBVIOUS
  <1>3. /\ DOMAIN calls' = DOMAIN calls \cup {n}
        /\ \A k \in DOMAIN calls : k # n => calls'[k] = calls[k]
        /\ calls'[n] = [call EXCEPT !.alive = call.closures > 0]
        /\ calls'[n] \in Call
    BY FinishCalls
  <1>4. /\ times \in Nat /\ Len(early) \in Nat
        /\ call.closures = 0 => times = Len(early) + 1
        /\ call.closures # 0 => times = Len(early)
        /\ \A k \in 1..times :
             /\ y[k].conn = call.conn /\ y[k].msg_id = n /\ y[k].method_name = call.method
             /\ call.closures = 0 /\ k = times =>
                  Parsed(ResponseType(call.method), y[k].pb_data) = call.rsp
    BY <1>1, <1>2 DEF Answered
  <1>5. /\ a \in Nat /\ DOMAIN replies = 1..a /\ DOMAIN replies' = 1..(a + times)
        /\ \A i \in DOMAIN replies : replies'[i] = replies[i]
        /\ \A i \in (a + 1)..(a + times) : replies'[i] = y[i - a]
        /\ \A k : k # n => Own(replies', k) = Own(replies, k)
        /\ Own(replies', n) = Own(replies, n) \cup ((a + 1)..(a + times))
        /\ Cardinality(Own(replies, n)) \in Nat
        /\ Cardinality(Own(replies', n)) = Cardinality(Own(replies, n)) + times
    BY <1>1, <1>2 DEF Appended
  <1>6. ASSUME NEW k \in DOMAIN calls, k # n PROVE AnswersOf(k)'
    <2>1. calls'[k] = calls[k] /\ Own(replies', k) = Own(replies, k)
      BY <1>3, <1>5, <1>6
    <2>2. \A i \in Own(replies, k) : replies'[i] = replies[i]
      BY <1>5 DEF Own
    <2> QED BY <1>0, <2>1, <2>2 DEF AnswersOf
  <1>7. AnswersOf(n)'
    <2> DEFINE new == calls'[n]
    <2>1. /\ call.closures \in Nat /\ call.early \in Nat /\ Len(early) \in Nat
          /\ new.conn = call.conn /\ new.method = call.method /\ new.rsp = call.rsp
          /\ new.req = call.req /\ new.sent = call.sent /\ new.early = call.early
          /\ (new.alive <=> call.closures > 0) /\ call.req = call.sent
      BY <1>3, <1>4, ServerAssumption DEF Handled, Call
    <2>2. Cardinality(Own(replies, n)) + Len(early) = call.early
      <3>1. CASE n \in DOMAIN calls
        BY <1>0, <1>5, <2>1, <3>1 DEF Handled, AnswersOf
      <3>2. CASE n \notin DOMAIN calls
        <4>1. Own(replies, n) = {}
          BY <3>2 DEF Own, ServerInv, TypeOK
        <4>2. call.early = Len(early)
          BY <3>2 DEF Handled
        <4> QED BY <2>1, <4>1, <4>2, FS_EmptySet
      <3> QED BY <3>1, <3>2
    <2>3. Cardinality(Own(replies', n)) = new.early + (IF new.alive THEN 0 ELSE 1)
      <3> DEFINE o == Cardinality(Own(replies, n))
      <3>1. o \in Nat /\ o + Len(early) = call.early /\ Cardinality(Own(replies', n)) = o + times
        BY <1>5, <2>2
      <3> HIDE DEF o
      <3>2. CASE call.closures = 0
        <4>1. times = Len(early) + 1 /\ ~ new.alive
          BY <1>4, <2>1, <3>2
        <4> QED BY <2>1, <3>1, <4>1
      <3>3. CASE call.closures # 0
        <4>1. times = Len(early) /\ new.alive
          BY <1>4, <2>1, <3>3
        <4> QED BY <2>1, <3>1, <4>1
      <3> QED BY <3>2, <3>3
    <2>4. \A i \in Own(replies, n) :
            replies'[i].conn = call.conn /\ replies'[i].msg_id = n /\ replies'[i].method_name = call.method
      <3>1. n \in DOMAIN calls \/ Own(replies, n) = {}
        BY DEF Own, ServerInv, TypeOK
      <3>2. n \in DOMAIN calls => call.conn = calls[n].conn /\ call.method = calls[n].method
        BY DEF Handled
      <3>3. \A i \in Own(replies, n) : replies'[i] = replies[i]
        BY <1>5 DEF Own
      <3> QED BY <1>0, <3>1, <3>2, <3>3 DEF AnswersOf
    <2>5. \A i \in (a + 1)..(a + times) : i - a \in 1..times /\ replies'[i] = y[i - a]
      BY <1>4, <1>5
    <2>6. ASSUME NEW i \in Own(replies', n), ~ new.alive, \A j \in Own(replies', n) : j <= i
          PROVE  i = a + times /\ times \in 1..times /\ i - a = times
      <3>1. times >= 1
        BY <1>4, <2>1, <2>6
      <3>2. a + times \in Own(replies', n)
        <4>1. a + times \in (a + 1)..(a + times)
          BY <1>4, <1>5, <3>1
        <4> QED BY <1>5, <4>1
      <3>3. i \in 1..(a + times)
        BY <1>5 DEF Own
      <3> QED BY <1>4, <1>5, <2>6, <3>1, <3>2, <3>3
    <2>8. \A i \in Own(replies', n) :
            /\ replies'[i].conn = new.conn
            /\ replies'[i].msg_id = n
            /\ replies'[i].method_name = new.method
      <3> TAKE i \in Own(replies', n)
      <3>1. CASE i \in Own(replies, n)
        BY <2>1, <2>4, <3>1
      <3>2. CASE i \in (a + 1)..(a + times)
        BY <1>4, <2>1, <2>5, <3>2
      <3> QED BY <1>5, <3>1, <3>2
    <2>9. ASSUME NEW i \in Own(replies', n), ~ new.alive, \A j \in Own(replies', n) : j <= i
          PROVE  Parsed(ResponseType(new.method), replies'[i].pb_data) = new.rsp
      <3>1. i = a + times /\ times \in 1..times /\ i - a = times
        BY <2>6, <2>9
      <3>2. replies'[i] = y[times]
        <4>1. i \in (a + 1)..(a + times)
          BY <1>4, <1>5, <3>1
        <4> QED BY <2>5, <3>1, <4>1
      <3>3. call.closures = 0
        BY <2>1, <2>9
      <3> QED BY <1>4, <2>1, <3>1, <3>2, <3>3
    <2> QED BY <2>1, <2>3, <2>8, <2>9 DEF AnswersOf
  <1>8. (\A k \in DOMAIN calls : AnswersOf(k))'
    BY <1>3, <1>6, <1>7
  <1> QED BY <1>8 DEF AnswerIsOwn, AnswersOf, Own

LEMMA FinishTyped ==
    ASSUME ServerInv, NEW n, NEW call, NEW early, NEW iface, NEW msgid,
           Handled(n, call, early, iface, msgid), Finish(n, call, early, iface, msgid),
           UNCHANGED <<conn, refused>>
    PROVE  TypeOK' /\ (replies \in Seq(Answer))'
  <1>0. /\ Len(calls) \in Nat /\ DOMAIN calls = 1..Len(calls)
        /\ calls' \in Seq(Call) /\ DOMAIN calls' = DOMAIN calls \cup {n}
        /\ Len(calls') = IF n \in DOMAIN calls THEN Len(calls) ELSE Len(calls) + 1
    BY FinishCalls
  <1>1. PICK y : /\ Answered(n, call, early, y) /\ Appended(replies, n, y, replies')
                 /\ replies' \in Seq(Answer)
    BY FinishAnswers
  <1>2. /\ \A i \in DOMAIN replies' : i \in DOMAIN replies \/ \E k \in 1..Len(y) : replies'[i] = y[k]
        /\ \A i \in DOMAIN replies : replies'[i] = replies[i]
    BY <1>1, AppendedFrom
  <1>3. replies' \in Seq(Answer)
    BY <1>1
  <1>4. \A i \in DOMAIN replies' : replies'[i].call \in DOMAIN calls'
    <2>1. \A k \in 1..Len(y) : y[k].call = n
      BY <1>1 DEF Answered
    <2> QED BY <1>0, <1>2, <2>1 DEF ServerInv, TypeOK
  <1>5. (Len(calls) + Len(refused) <= MaxRequests)'
    <2>1. Len(refused) \in Nat /\ Len(calls) + Len(refused) <= MaxRequests /\ refused' = refused
      BY LenProperties DEF ServerInv, TypeOK
    <2>2. n \notin DOMAIN calls => Len(calls) + Len(refused) < MaxRequests
      BY DEF Handled
    <2> QED BY <1>0, <2>1, <2>2, ServerAssumption
  <1>6. runTime' \in [iface : {NoCall} \cup DOMAIN calls', msgid : 0..Len(calls')]
    <2>1. iface \in {NoCall, n} \cup DOMAIN calls /\ msgid \in 0..Len(calls) \cup {n}
          /\ n \in 1..(Len(calls) + 1)
      BY DEF Handled
    <2>2. \E i \in {NoCall, iface} : runTime' = [iface |-> i, msgid |-> msgid]
      BY DEF Finish, ClosureRun
    <2>3. msgid \in 0..Len(calls')
      BY <1>0, <2>1
    <2> QED BY <1>0, <2>1, <2>2, <2>3
  <1>7. watched' \in [Conn -> BOOLEAN]
    BY DEF Finish, ServerInv, TypeOK
  <1> QED BY <1>0, <1>3, <1>4, <1>5, <1>6, <1>7 DEF ServerInv, TypeOK

LEMMA FinishSound ==
    ASSUME ServerInv, NEW n, NEW call, NEW early, NEW iface, NEW msgid,
           Handled(n, call, early, iface, msgid), Finish(n, call, early, iface, msgid)
    PROVE  CallsSound' /\ RunTimeAlive'
  <1>0. /\ Len(calls) \in Nat /\ DOMAIN calls = 1..Len(calls)
        /\ DOMAIN calls' = DOMAIN calls \cup {n}
        /\ \A k \in DOMAIN calls : k # n => calls'[k] = calls[k]
        /\ calls'[n] = [call EXCEPT !.alive = call.closures > 0]
    BY FinishCalls
  <1>1. /\ call \in Call /\ call.closures \in Nat
        /\ call.rsp \in Response(call.method)
        /\ call.closures > 0 => call.deferred
    BY ServerAssumption DEF Handled, Call
  <1>2. /\ calls'[n].rsp = call.rsp /\ calls'[n].method = call.method
        /\ calls'[n].closures = call.closures /\ calls'[n].deferred = call.deferred
        /\ calls'[n].alive <=> call.closures > 0
    BY <1>0, <1>1 DEF Call
  <1>3. CallsSound'
    BY <1>0, <1>1, <1>2 DEF CallsSound, ServerInv
  <1>4. RunTimeAlive'
    <2>1. CASE call.closures = 0
      <3>1. runTime'.iface = NoCall
        <4>1. PICK y : Answered(n, call, early, y)
          BY FinishAnswers
        <4>2. Len(y) > 0
          BY <2>1, <4>1 DEF Answered
        <4> QED BY <4>1, <4>2 DEF Answered
      <3> QED BY <3>1 DEF RunTimeAlive
    <2>2. CASE call.closures # 0
      <3>1. calls'[n].alive
        BY <1>1, <1>2, <2>2
      <3>2. runTime'.iface \in {NoCall, n} \cup {k \in DOMAIN calls : calls[k].alive}
        BY DEF Finish, ClosureRun, Handled
      <3> QED BY <1>0, <3>1, <3>2 DEF RunTimeAlive
    <2> QED BY <2>1, <2>2
  <1> QED BY <1>3, <1>4

LEMMA FinishLate ==
    ASSUME ServerInv, NEW n, NEW call, NEW early, NEW iface, NEW msgid,
           Handled(n, call, early, iface, msgid), Finish(n, call, early, iface, msgid),
           UNCHANGED <<conn, refused>>
    PROVE  LateAnswersDeferred'
  <1>0. /\ Len(calls) \in Nat /\ DOMAIN calls = 1..Len(calls)
        /\ DOMAIN calls' = DOMAIN calls \cup {n}
        /\ \A k \in DOMAIN calls : k # n => calls'[k] = calls[k]
        /\ calls'[n] = [call EXCEPT !.alive = call.closures > 0]
    BY FinishCalls
  <1>1. PICK y : Answered(n, call, early, y) /\ Appended(replies, n, y, replies')
    BY FinishAnswers
  <1>2. /\ Len(y) \in Nat
        /\ watched' = [watched EXCEPT ![call.conn] = @ \/ (Len(y) > 0 /\ conn[call.conn] # "freed")]
        /\ \A k \in 1..Len(y) : y[k].call = n /\ y[k].conn = call.conn /\ y[k].to = conn[call.conn]
    BY <1>1 DEF Answered
  <1>4. /\ call \in Call /\ call.conn \in Conn
        /\ conn[call.conn] # "Connected" => call.deferred
        /\ n \in DOMAIN calls => call.deferred = calls[n].deferred
    BY DEF Handled, Call
  <1>5. \A i \in DOMAIN replies : i \in DOMAIN replies' /\ replies'[i] = replies[i]
    BY <1>1, AppendedFrom
  <1>6. \A i \in DOMAIN replies' : i \in DOMAIN replies \/ \E k \in 1..Len(y) : replies'[i] = y[k]
    BY <1>1, AppendedFrom
  <1>7. \A k \in DOMAIN calls : calls'[k].deferred = calls[k].deferred
    BY <1>0, <1>4 DEF Call
  <1>8. calls'[n].deferred = call.deferred
    BY <1>0, <1>4 DEF Call
  <1>9. ASSUME NEW i \in DOMAIN replies', replies'[i].to # "Connected"
        PROVE  calls'[replies'[i].call].deferred
    <2>1. CASE \E k \in 1..Len(y) : replies'[i] = y[k]
      BY <1>2, <1>4, <1>8, <1>9, <2>1
    <2>2. CASE i \in DOMAIN replies
      BY <1>5, <1>7, <1>9, <2>2 DEF ServerInv, TypeOK, LateAnswersDeferred
    <2> QED BY <1>6, <2>1, <2>2
  <1>10. ASSUME NEW c \in Conn, conn'[c] # "Connected", watched'[c]
         PROVE  \E i \in DOMAIN replies' : replies'[i].conn = c /\ replies'[i].to = "Closed"
    <2>1. conn[c] # "Connected" /\ conn[c] \in {"Connected", "Closed", "freed"}
      BY <1>10 DEF ServerInv, TypeOK
    <2>2. CASE watched[c]
      BY <1>5, <2>1, <2>2 DEF ServerInv, LateAnswersDeferred
    <2>3. CASE ~ watched[c]
      <3>1. c = call.conn /\ Len(y) > 0 /\ conn[c] = "Closed"
        <4>1. watched \in [Conn -> BOOLEAN]
          BY DEF ServerInv, TypeOK
        <4> QED BY <1>2, <1>4, <1>10, <2>1, <2>3, <4>1
      <3>2. Len(replies) + Len(y) \in DOMAIN replies' /\ replies'[Len(replies) + Len(y)] = y[Len(y)]
        BY <1>1, <3>1, AppendedFrom
      <3>3. y[Len(y)].conn = c /\ y[Len(y)].to = "Closed"
        BY <1>2, <3>1
      <3> QED BY <3>2, <3>3
    <2> QED BY <2>2, <2>3
  <1> QED BY <1>9, <1>10 DEF LateAnswersDeferred

(* The end of a handler keeps the invariant. *)
LEMMA FinishKeeps ==
    ASSUME ServerInv, NEW n, NEW call, NEW early, NEW iface, NEW msgid,
           Handled(n, call, early, iface, msgid), Finish(n, call, early, iface, msgid),
           UNCHANGED <<conn, refused>>
    PROVE  ServerInv'
  BY FinishTyped, FinishSound, FinishOwn, FinishLate DEF ServerInv

-----------------------------------------------------------------------------
(* The handlers. *)

LEMMA ServerInvInitially == Init => ServerInv
  <1> SUFFICES ASSUME Init PROVE ServerInv
    OBVIOUS
  <1>1. calls = << >> /\ replies = << >> /\ refused = << >> /\ DOMAIN calls = {} /\ DOMAIN replies = {}
    BY DEF Init
  <1>2. TypeOK /\ replies \in Seq(Answer)
    BY <1>1, ServerAssumption DEF Init, TypeOK
  <1>3. CallsSound /\ AnswerIsOwn
    BY <1>1 DEF CallsSound, AnswerIsOwn
  <1>4. RunTimeAlive /\ LateAnswersDeferred
    BY <1>1 DEF Init, RunTimeAlive, LateAnswersDeferred
  <1> QED BY <1>2, <1>3, <1>4 DEF ServerInv

LEMMA RefuseKeeps ==
    ASSUME ServerInv, NEW c \in Conn, NEW name \in Names, NEW request \in Incoming(name),
           Refuse(c, name, request)
    PROVE  ServerInv'
  <1>1. Verdict(name, request.data) \in {"ERROR_PARSE_SERVICE_NAME", "ERROR_SERVICE_NOT_FOUND",
                                         "ERROR_FAILED_DESERIALIZE"}
    BY DEF Refuse, Verdict
  <1>2. UNCHANGED <<conn, watched, calls, runTime, replies>>
    BY DEF Refuse
  <1>3. TypeOK'
    <2>1. Len(refused) \in Nat /\ Len(calls) \in Nat /\ Len(refused') = Len(refused) + 1
      BY <1>1 DEF Refuse, ServerInv, TypeOK
    <2>2. Len(calls) + Len(refused) < MaxRequests
      BY DEF Refuse, CanReceive
    <2>3. (Len(calls) + Len(refused) <= MaxRequests)'
      BY <1>2, <2>1, <2>2, ServerAssumption
    <2>4. refused' \in Seq({"ERROR_PARSE_SERVICE_NAME", "ERROR_SERVICE_NOT_FOUND",
                            "ERROR_FAILED_DESERIALIZE"})
      BY <1>1 DEF Refuse, ServerInv, TypeOK
    <2> QED BY <1>2, <2>3, <2>4 DEF ServerInv, TypeOK
  <1>4. CallsSound' /\ RunTimeAlive'
    BY <1>2 DEF ServerInv, CallsSound, RunTimeAlive
  <1>5. AnswerIsOwn'
    BY <1>2, AnswersUnchanged DEF ServerInv
  <1>6. LateAnswersDeferred'
    BY <1>2 DEF ServerInv, LateAnswersDeferred
  <1> QED BY <1>2, <1>3, <1>4, <1>5, <1>6 DEF ServerInv

(* What the application replies itself is a response, within the bound.       *)
LEMMA EarlyTyped ==
    ASSUME NEW S, NEW rsp \in S, NEW k \in 0..MaxEarly, NEW early \in Early(k, rsp)
    PROVE  early \in Seq(S) /\ Len(early) \in Nat /\ k + Len(early) \in 0..MaxEarly
  <1>1. CASE early = << >>
    <2>1. early \in Seq(S) /\ Len(early) = 0
      BY <1>1
    <2> QED BY <2>1, ServerAssumption
  <1>2. CASE early = <<rsp>> /\ k < MaxEarly
    <2>1. early \in Seq(S) /\ Len(early) = 1
      BY <1>2
    <2> QED BY <1>2, <2>1, ServerAssumption
  <1> QED BY <1>1, <1>2 DEF Early

LEMMA DispatchKeeps ==
    ASSUME ServerInv, NEW c \in Conn, NEW name \in Names, NEW request \in Incoming(name),
           Dispatch(c, name, request)
    PROVE  ServerInv'
  <1>1. PICK end \in Ends, held \in 0..MaxClosures,
             early \in Early(0, SetResult(NewMessage(ResponseType(name[2])), 0, OkText)) :
         LET n    == Len(calls) + 1
             rsp  == SetResult(NewMessage(ResponseType(name[2])), 0, OkText)
             call == [conn |-> c, method |-> name[2], sent |-> request.msg,
                      req |-> Parsed(RequestType(name[2]), request.data),
                      rsp |-> RunResult(rsp, end), closures |-> held,
                      deferred |-> held > 0, early |-> Len(early),
                      alive |-> TRUE]
         IN  Finish(n, call, early, n, n)
    BY DEF Dispatch
  <1> DEFINE n    == Len(calls) + 1
             rsp  == SetResult(NewMessage(ResponseType(name[2])), 0, OkText)
             out  == RunResult(rsp, end)
             call == [conn |-> c, method |-> name[2], sent |-> request.msg,
                      req |-> Parsed(RequestType(name[2]), request.data),
                      rsp |-> out, closures |-> held,
                      deferred |-> held > 0, early |-> Len(early),
                      alive |-> TRUE]
  <1>2. /\ name[2] \in QueryService /\ request.msg \in Message
        /\ Parsed(RequestType(name[2]), request.data) = request.msg
    BY RequestIntact DEF Dispatch
  <1>3. out \in Response(name[2])
    <2>1. rsp \in Response(name[2])
      BY <1>2, NewResponse, ResultKept DEF Value
    <2> HIDE DEF rsp
    <2> QED BY <1>2, <2>1, ResultKept DEF RunResult, Value, Ends
  <1>a. early \in Seq(Response(name[2])) /\ Len(early) \in 0..MaxEarly
    <2>1. rsp \in Response(name[2])
      BY <1>2, NewResponse, ResultKept DEF Value
    <2>2. early \in Early(0, rsp) /\ 0 \in 0..MaxEarly
      BY ServerAssumption
    <2> HIDE DEF rsp
    <2>3. early \in Seq(Response(name[2])) /\ Len(early) \in Nat /\ 0 + Len(early) \in 0..MaxEarly
      BY <2>1, <2>2, EarlyTyped
    <2> QED BY <2>3
  <1> HIDE DEF out
  <1>4. out \in [fields : Seq({-1, 0, 5, 6, OkText, ErrText, EmptyText}), unknown : {<< >>}]
    BY <1>2, <1>3, ResponseTyped
  <1>5. call \in Call
    BY <1>2, <1>4, <1>a, ServerAssumption DEF Call
  <1>6. calls \in Seq(Call) /\ Len(calls) \in Nat /\ n \notin DOMAIN calls
    BY LenProperties DEF ServerInv, TypeOK
  <1>7. conn[c] = "Connected" /\ Len(calls) + Len(refused) < MaxRequests /\ UNCHANGED <<conn, refused>>
    BY DEF Dispatch, CanReceive
  <1>8. Handled(n, call, early, n, n)
    <2>1. /\ call.conn = c /\ call.method = name[2] /\ call.rsp = out /\ call.early = Len(early)
          /\ call.req = call.sent /\ call.alive /\ (call.closures > 0 => call.deferred)
      BY <1>2
    <2>2. n \in 1..(Len(calls) + 1) /\ n \in {NoCall, n} \cup {k \in DOMAIN calls : calls[k].alive}
          /\ n \in 0..Len(calls) \cup {n}
      BY <1>6
    <2> HIDE DEF n, call
    <2> QED BY <1>3, <1>5, <1>6, <1>7, <1>a, <2>1, <2>2 DEF Handled
  <1>9. Finish(n, call, early, n, n)
    BY <1>1 DEF out
  <1> HIDE DEF n, call
  <1> QED BY <1>7, <1>8, <1>9, FinishKeeps

(* What a closure's share leaves of the call. *)
LEMMA GivenUp ==
    ASSUME ServerInv, NEW n \in DOMAIN calls, calls[n].closures > 0,
           NEW rsp \in Response(calls[n].method),
           NEW early \in Early(calls[n].early, calls[n].rsp),
           NEW iface \in {NoCall, runTime.iface}
    PROVE  Handled(n, [calls[n] EXCEPT !.rsp = rsp, !.closures = @ - 1, !.early = @ + Len(early)],
                   early, iface, runTime.msgid)
  <1> DEFINE old == calls[n]
             call == [old EXCEPT !.rsp = rsp, !.closures = @ - 1, !.early = @ + Len(early)]
  <1>1. /\ calls \in Seq(Call) /\ old \in Call /\ DOMAIN calls = 1..Len(calls) /\ Len(calls) \in Nat
        /\ runTime \in [iface : {NoCall} \cup DOMAIN calls, msgid : 0..Len(calls)]
    BY ElementOfSeq, LenProperties DEF ServerInv, TypeOK
  <1>2. old.closures \in 0..MaxClosures /\ old.closures - 1 \in 0..MaxClosures /\ MaxClosures \in Nat
    BY <1>1, ServerAssumption DEF Call
  <1>3. old.method \in QueryService
        /\ rsp \in [fields : Seq({-1, 0, 5, 6, OkText, ErrText, EmptyText}), unknown : {<< >>}]
    BY <1>1, ResponseTyped DEF Call
  <1>4. old.alive /\ old.deferred /\ old.req = old.sent
    BY DEF ServerInv, CallsSound, AnswerIsOwn
  <1>a. early \in Seq(Response(old.method)) /\ Len(early) \in Nat
        /\ old.early \in Nat /\ old.early + Len(early) \in 0..MaxEarly
    <2>1. old.rsp \in Response(old.method) /\ old.early \in 0..MaxEarly /\ old.early \in Nat
      BY <1>1, ServerAssumption DEF Call, ServerInv, CallsSound
    <2>2. early \in Early(old.early, old.rsp)
      OBVIOUS
    <2> HIDE DEF old
    <2> QED BY <2>1, <2>2, EarlyTyped
  <1>5. call \in Call
    BY <1>1, <1>2, <1>3, <1>a DEF Call
  <1>6. /\ call.conn = old.conn /\ call.method = old.method /\ call.early = old.early + Len(early)
        /\ call.deferred = old.deferred /\ call.alive = old.alive /\ call.req = old.req
        /\ call.sent = old.sent /\ call.rsp = rsp
    BY <1>1 DEF Call
  <1>7. iface = NoCall \/ (iface \in DOMAIN calls /\ calls[iface].alive)
    BY <1>1 DEF ServerInv, RunTimeAlive
  <1> HIDE DEF old, call
  <1>8. n \in 1..(Len(calls) + 1) /\ runTime.msgid \in 0..Len(calls)
    BY <1>1
  <1>9. Handled(n, call, early, iface, runTime.msgid)
    BY <1>4, <1>5, <1>6, <1>7, <1>8, <1>a DEF Handled, old
  <1> QED BY <1>9 DEF call, old

LEMMA RunClosureKeeps ==
    ASSUME ServerInv, NEW n \in DOMAIN calls, RunClosure(n)
    PROVE  ServerInv'
  <1>1. PICK end \in Ends, early \in Early(calls[n].early, calls[n].rsp) :
          Finish(n, [calls[n] EXCEPT !.rsp = ClosureResult(@, end), !.closures = @ - 1,
                                     !.early = @ + Len(early)],
                 early, ClosureRun(n, runTime.iface), runTime.msgid)
    BY DEF RunClosure
  <1> DEFINE rsp == ClosureResult(calls[n].rsp, end)
             call == [calls[n] EXCEPT !.rsp = rsp, !.closures = @ - 1, !.early = @ + Len(early)]
             iface == ClosureRun(n, runTime.iface)
  <1>2. calls[n].closures > 0 /\ UNCHANGED <<conn, refused>>
    BY DEF RunClosure
  <1>3. calls[n].method \in QueryService /\ calls[n].rsp \in Response(calls[n].method)
    <2>1. calls \in Seq(Call) /\ calls[n] \in Call
      BY ElementOfSeq DEF ServerInv, TypeOK
    <2> QED BY <2>1 DEF Call, ServerInv, CallsSound
  <1>4. rsp \in Response(calls[n].method)
    BY <1>3, ResultKept DEF ClosureResult, Value, Ends
  <1>5. iface \in {NoCall, runTime.iface}
    BY DEF ClosureRun
  <1>6. Finish(n, call, early, iface, runTime.msgid)
    BY <1>1
  <1> HIDE DEF rsp, iface
  <1>7. Handled(n, call, early, iface, runTime.msgid)
    BY <1>2, <1>4, <1>5, GivenUp
  <1> QED BY <1>2, <1>6, <1>7, FinishKeeps

LEMMA DropClosureKeeps ==
    ASSUME ServerInv, NEW n \in DOMAIN calls, DropClosure(n)
    PROVE  ServerInv'
  <1> DEFINE rsp == calls[n].rsp
             call == [calls[n] EXCEPT !.closures = @ - 1]
             iface == runTime.iface
  <1>1. calls[n].closures > 0 /\ UNCHANGED <<conn, refused>>
        /\ Finish(n, call, << >>, iface, runTime.msgid)
    BY DEF DropClosure
  <1>2. rsp \in Response(calls[n].method) /\ calls[n] \in Call
    BY ElementOfSeq DEF ServerInv, TypeOK, CallsSound
  <1> DEFINE none == << >>
  <1>a. none \in Early(calls[n].early, calls[n].rsp) /\ Len(none) = 0
    BY DEF Early
  <1> HIDE DEF none
  <1>3. Handled(n, [calls[n] EXCEPT !.rsp = rsp, !.closures = @ - 1, !.early = @ + Len(none)],
                none, iface, runTime.msgid)
    BY <1>1, <1>2, <1>a, GivenUp
  <1>4. [calls[n] EXCEPT !.rsp = rsp, !.closures = @ - 1, !.early = @ + Len(none)] = call
    <2>1. calls[n].early + 0 = calls[n].early
      BY <1>2, ServerAssumption DEF Call
    <2> QED BY <1>2, <1>a, <2>1 DEF Call
  <1> QED BY <1>1, <1>3, <1>4, FinishKeeps DEF none

LEMMA ClearKeeps ==
    ASSUME ServerInv, NEW c \in Conn, Clear(c) \/ Free(c)
    PROVE  ServerInv'
  <1>1. UNCHANGED <<calls, refused, runTime, replies>>
    BY DEF Clear, Free
  <1>2. TypeOK'
    BY <1>1 DEF Clear, Free, ServerInv, TypeOK
  <1>3. CallsSound' /\ RunTimeAlive'
    BY <1>1 DEF ServerInv, CallsSound, RunTimeAlive
  <1>4. AnswerIsOwn'
    BY <1>1, AnswersUnchanged DEF ServerInv
  <1>5. LateAnswersDeferred'
    <2>1. \A d \in Conn : conn'[d] # "Connected" /\ watched'[d] => conn[d] # "Connected" /\ watched[d]
      BY DEF Clear, Free, ServerInv, TypeOK
    <2> QED BY <1>1, <2>1 DEF ServerInv, LateAnswersDeferred
  <1> QED BY <1>1, <1>2, <1>3, <1>4, <1>5 DEF ServerInv

LEMMA ServerInvStep ==
    ASSUME ServerInv, [Next]_vars
    PROVE  ServerInv'
  <1>1. ASSUME NEW c \in Conn, NEW name \in Names, NEW request \in Incoming(name),
               Refuse(c, name, request) \/ Dispatch(c, name, request)
        PROVE  ServerInv'
    BY <1>1, RefuseKeeps, DispatchKeeps
  <1>2. ASSUME NEW n \in DOMAIN calls, RunClosure(n) \/ DropClosure(n)
        PROVE  ServerInv'
    BY <1>2, RunClosureKeeps, DropClosureKeeps
  <1>3. ASSUME NEW c \in Conn, Clear(c) \/ Free(c)
        PROVE  ServerInv'
    BY <1>3, ClearKeeps
  <1>4. CASE UNCHANGED vars
    <2>1. UNCHANGED <<conn, watched, calls, refused, runTime, replies>>
      BY <1>4 DEF vars
    <2>2. TypeOK' /\ CallsSound' /\ RunTimeAlive'
      BY <2>1 DEF ServerInv, TypeOK, CallsSound, RunTimeAlive
    <2>3. AnswerIsOwn'
      BY <2>1, AnswersUnchanged DEF ServerInv
    <2>4. LateAnswersDeferred'
      BY <2>1 DEF ServerInv, LateAnswersDeferred
    <2> QED BY <2>1, <2>2, <2>3, <2>4 DEF ServerInv
  <1> QED BY <1>1, <1>2, <1>3, <1>4 DEF Next

-----------------------------------------------------------------------------

LEMMA ServerInvAlways == Spec => []ServerInv
  <1>1. ServerInv /\ [Next]_vars => ServerInv'
    BY ServerInvStep
  <1> QED BY ServerInvInitially, <1>1, PTL DEF Spec

(* The state of the server has its type: no more requests than come in, and  *)
(* the RunTime and the answers speak of calls that were dispatched.          *)
THEOREM ServerTyped == Spec => []TypeOK
  BY ServerInvAlways, PTL DEF ServerInv

(* Every accepted call is answered for its own client, once by the release   *)
(* of its interface, and the last answer decodes to what run() and the       *)
(* closures made of it.                                                      *)
THEOREM AnswersOwn == Spec => []AnswerIsOwn
  BY ServerInvAlways, PTL DEF ServerInv

(* The raw pointer of the RunTime never names a released interface.          *)
THEOREM InterfaceAlive == Spec => []RunTimeAlive
  BY ServerInvAlways, PTL DEF ServerInv

(* Only a call that was put off replies to a connection that is gone, and    *)
(* only such a reply registers a closed one again.                           *)
THEOREM LateOnlyDeferred == Spec => []LateAnswersDeferred
  BY ServerInvAlways, PTL DEF ServerInv
=============================================================================
