---------------------------- MODULE OrderMessages ----------------------------
(***************************************************************************)
(* The messages of order_server/pb/order_server.proto as the generated     *)
(* code keeps, parses and serialises them, and the QueryService that names *)
(* their methods.                                                          *)
(*                                                                         *)
(* A message type is the tuple of its fields' kinds: field n is number n.  *)
(* On the wire a message is a sequence of fields [num, wire, value], where *)
(* wire is "varint" or "len" (a string), or how the bytes go wrong: "cut"  *)
(* (they end inside the field) or "end" (tag 0 or an end-group tag).       *)
(***************************************************************************)
EXTENDS Positions

CONSTANTS
    EmptyText,  \* the empty string
    BadText     \* a string that is not UTF-8

queryAgeReq  == <<"int32", "int32">>
queryAgeRes  == <<"int32", "string", "int32", "int32", "int32">>
queryNameReq == <<"int32", "int32", "int32">>
queryNameRes == <<"int32", "string", "int32", "int32", "string">>

Default(kind) == IF kind = "string" THEN EmptyText ELSE 0
WireType(kind) == IF kind = "string" THEN "len" ELSE "varint"

\* A message of type t, new or cleared.
NewMessage(t) ==
    [fields |-> [n \in DOMAIN t |-> Default(t[n])], unknown |-> << >>]

\* A field that the type has, with the wire type it asks for.
Known(t, f) == f.num \in DOMAIN t /\ f.wire = WireType(t[f.num])

Malformed(t, f) ==
    \/ f.wire \in {"cut", "end"}
    \/ Known(t, f) /\ f.value = BadText

\* ParseFromString fails on the first malformed field.
Parses(t, s) == \A i \in DOMAIN s : ~ Malformed(t, s[i])

\* Where field n of the type stands in s.
Occurs(t, s, n) == {i \in DOMAIN s : s[i].num = n /\ Known(t, s[i])}

\* What ParseFromString leaves in the message: the last value of a field wins,
\* and what the type does not know is kept.
Parsed(t, s) ==
    [fields  |-> [n \in DOMAIN t |->
                    IF Occurs(t, s, n) = {} THEN Default(t[n])
                    ELSE s[CHOOSE i \in Occurs(t, s, n) :
                             \A j \in Occurs(t, s, n) : j <= i].value],
     unknown |-> Picked(s, {i \in DOMAIN s : ~ Known(t, s[i])})]

\* SerializeToString: the fields by number, those that have their default
\* left out, and behind them what was not known.
Serialized(t, msg) ==
    Picked([n \in DOMAIN t |->
              [num |-> n, wire |-> WireType(t[n]), value |-> msg.fields[n]]],
           {n \in DOMAIN t : msg.fields[n] # Default(t[n])})
    \o msg.unknown

\* The setters of ret_code and res_info, fields 1 and 2 of both responses.
set_ret_code(msg, code) == [msg EXCEPT !.fields[1] = code]
set_res_info(msg, info) == [msg EXCEPT !.fields[2] = info]

-----------------------------------------------------------------------------

\* QueryService's methods.  CallMethod hands a call to the one of its index,
\* with the types of GetRequestPrototype and GetResponsePrototype.
QueryService == {"query_name", "query_age"}

RequestType(method) ==
    IF method = "query_name" THEN queryNameReq ELSE queryAgeReq

ResponseType(method) ==
    IF method = "query_name" THEN queryNameRes ELSE queryAgeRes
=============================================================================
