----------------------------- MODULE DataTypes -----------------------------
(***************************************************************************)
(* Values of the data types and their binary encoding.  A message is a     *)
(* sequence of items, each with its width in bytes; where an item begins,  *)
(* and so what a decoder finds, follows from the widths before it.         *)
(*                                                                         *)
(* A structure is the sequence of its members.  An array, a member or the  *)
(* content of a string, is [len, at]: no array has length -1.  A byte is   *)
(* an item of width one itself, and the content of a ByteString is made of *)
(* items, so that an encoded value can be the body of another.             *)
(***************************************************************************)
EXTENDS TypeTable, FiniteSets
LOCAL INSTANCE SequencesExt

CONSTANT UA_TYPES           \* the table, GeneratedTypes

ByteMax == 256              \* one more than a byte holds
UInt16Max == 65535
BinaryOffset == 2           \* UA_ENCODINGOFFSET_BINARY

Members(type) == UA_TYPES[type].members
IsPlain(type) == UA_TYPES[type].width # 0
IsBuiltin(type) == UA_TYPES[type].builtin
IsFixedSize(type) == UA_TYPES[type].fixedSize
TrueType(type) == UA_TYPES[type].typeIndex
Item(width, value) == [w |-> width, v |-> value]
Total(numbers) ==
    LET sum[i \in 0..Len(numbers)] == IF i = 0 THEN 0 ELSE sum[i - 1] + numbers[i]
    IN sum[Len(numbers)]
Width(items) == Total([i \in DOMAIN items |-> items[i].w])

NoArray == [len |-> -1, at |-> <<>>]
Array(s) == [len |-> Len(s), at |-> s]
Bytes(items) == <<[len |-> Width(items), at |-> items]>>
NoString == <<NoArray>>
NumericId(ns, id) == [ns |-> ns, type |-> "numeric", id |-> id]
IsScalar(v) == v.len = -1 /\ v.at # <<>>
Scalar(type, value) == [type |-> type, len |-> -1, at |-> <<value>>, dims |-> NoArray]
EmptyVariant == [type |-> "Boolean", len |-> -1, at |-> <<>>, dims |-> NoArray]
NoBody == [typeId |-> NumericId(0, 0), encoding |-> "none", body |-> NoString]
EmptyDiagnosticInfo == [has |-> {}, symbolicId |-> 0, info |-> NoString, inner |-> <<>>]
(* The fields of a DataValue, has the ones that are there.                 *)
EmptyDataValue == [has |-> {}, value |-> EmptyVariant, status |-> "GOOD", source |-> 0, sourcePico |-> 0,
                   server |-> 0, serverPico |-> 0]
MaxPicoSeconds == 1000

(* UA_init                                                                 *)
RECURSIVE Initial(_)
Initial(type) ==
    CASE IsPlain(type) -> 0
      [] type = "Byte" -> Item(1, 0)
      [] type = "NodeId" -> NumericId(0, 0)
      [] type = "ExpandedNodeId" -> [nodeId |-> NumericId(0, 0), uri |-> NoString, serverIndex |-> 0]
      [] type = "ExtensionObject" -> NoBody
      [] type = "DataValue" -> EmptyDataValue
      [] type = "Variant" -> EmptyVariant
      [] type = "DiagnosticInfo" -> EmptyDiagnosticInfo
      [] OTHER -> [i \in DOMAIN Members(type) |->
                     IF Members(type)[i].isArray THEN NoArray ELSE Initial(Members(type)[i].type)]

-----------------------------------------------------------------------------
NumericFormById(id) == IF id.id > UInt16Max THEN "numeric"
                       ELSE IF id.id > ByteMax THEN "fourbyte" ELSE "twobyte"
(* The shortest of three forms of a numeric NodeId is taken.               *)
NumericForm(id) ==
    CASE id.id > UInt16Max \/ id.ns > ByteMax -> "numeric"
      [] id.id <= UInt16Max /\ id.ns <= ByteMax /\ (id.id > ByteMax \/ id.ns > 0) -> "fourbyte"
      [] OTHER -> "twobyte"
IdForm(id) == IF id.type = "numeric" THEN NumericForm(id) ELSE id.type

RECURSIVE Encode(_, _)
EncodeArray(type, a) ==
    <<Item(4, IF a.len <= -1 THEN -1 ELSE a.len)>>
        \o FlattenSeq([i \in 1..Len(a.at) |-> Encode(type, a.at[i])])

EncodeNodeId(id, flags) ==
    LET form == IdForm(id)
        head == Item(1, [form |-> form, flags |-> flags])
        byte(n) == Item(1, n % 2^8)
    IN CASE form = "twobyte" -> <<head, byte(id.id)>>
         [] form = "fourbyte" -> <<head, byte(id.ns), Item(2, id.id)>>
         [] form = "numeric" -> <<head, Item(2, id.ns), Item(4, id.id)>>
         [] form = "guid" -> <<head, Item(2, id.ns), Item(16, id.id)>>
         [] OTHER -> <<head, Item(2, id.ns)>> \o Encode("String", id.id)

(* The flags say which of the two follow the NodeId.                       *)
EncodeExpandedNodeId(x) ==
    LET uri == x.uri[1].len > 0
        index == x.serverIndex > 0
    IN EncodeNodeId(x.nodeId, (IF uri THEN {"uri"} ELSE {}) \union (IF index THEN {"index"} ELSE {}))
         \o (IF uri THEN Encode("String", x.uri) ELSE <<>>)
         \o (IF index THEN <<Item(4, x.serverIndex)>> ELSE <<>>)

(* A text without data is left out, also an empty one.                     *)
EncodeLocalizedText(t) ==
    LET has == {i \in 1..2 : t[i][1].at # <<>>}
    IN <<Item(1, has)>> \o (IF 1 \in has THEN Encode("String", t[1]) ELSE <<>>)
                       \o (IF 2 \in has THEN Encode("String", t[2]) ELSE <<>>)

EncodeExtensionObject(x) ==
    EncodeNodeId(x.typeId, {}) \o <<Item(1, x.encoding)>>
        \o (IF x.encoding = "none" THEN <<>> ELSE Encode("ByteString", x.body))

EncodeDataValue(d) ==
    LET Field(f, items) == IF f \in d.has THEN items ELSE <<>>
    IN <<Item(1, d.has)>>
         \o Field("value", Encode("Variant", d.value))
         \o Field("status", <<Item(4, d.status)>>)
         \o Field("source", <<Item(8, d.source)>>)
         \o Field("sourcePico", <<Item(2, d.sourcePico)>>)
         \o Field("server", <<Item(8, d.server)>>)
         \o Field("serverPico", <<Item(2, d.serverPico)>>)

(* Types that are not builtin are wrapped in ExtensionObjects.             *)
EncodeVariant(v) ==
    LET isArray == ~IsScalar(v)
        hasDims == isArray /\ v.dims.at # <<>>
        builtin == IsBuiltin(v.type)
        Wrapped(x) == LET body == Encode(v.type, x)
                      IN EncodeNodeId(NumericId(0, UA_TYPES[v.type].typeId + BinaryOffset), {})
                           \o <<Item(1, "bytes"), Item(4, Width(body))>> \o body
    IN <<Item(1, [type |-> IF builtin THEN TrueType(v.type) ELSE "ExtensionObject",
                  array |-> isArray, dims |-> hasDims])>>
         \o (IF isArray THEN <<Item(4, v.len)>> ELSE <<>>)
         \o FlattenSeq([i \in 1..Len(v.at) |->
                IF builtin THEN Encode(v.type, v.at[i]) ELSE Wrapped(v.at[i])])
         \o (IF hasDims THEN EncodeArray("Int32", v.dims) ELSE <<>>)

EncodeDiagnosticInfo(d) ==
    <<Item(1, d.has)>>
        \o (IF "symbolicId" \in d.has THEN <<Item(4, d.symbolicId)>> ELSE <<>>)
        \o (IF "info" \in d.has THEN Encode("String", d.info) ELSE <<>>)
        \o (IF "inner" \in d.has THEN Encode("DiagnosticInfo", d.inner[1]) ELSE <<>>)

(* UA_encodeBinary: a builtin type, or the members in their order.         *)
EncodeMember(m, x) == IF m.isArray THEN EncodeArray(m.type, x) ELSE Encode(m.type, x)
Encode(type, x) ==
    CASE IsPlain(type) -> <<Item(UA_TYPES[type].width, x)>>
      [] type = "Byte" -> <<x>>
      [] type = "NodeId" -> EncodeNodeId(x, {})
      [] type = "ExpandedNodeId" -> EncodeExpandedNodeId(x)
      [] type = "LocalizedText" -> EncodeLocalizedText(x)
      [] type = "ExtensionObject" -> EncodeExtensionObject(x)
      [] type = "DataValue" -> EncodeDataValue(x)
      [] type = "Variant" -> EncodeVariant(x)
      [] type = "DiagnosticInfo" -> EncodeDiagnosticInfo(x)
      [] OTHER -> FlattenSeq([i \in DOMAIN Members(type) |-> EncodeMember(Members(type)[i], x[i])])

(***************************************************************************)
(* UA_calcSizeBinary: the bytes a buffer needs for a value.  It takes a    *)
(* Guid for 128 bytes inside of a NodeId, and a wrapped element for 9      *)
(* bytes longer than its body.                                             *)
(***************************************************************************)
RECURSIVE Size(_, _)
SizeOfAll(type, s) == Total([i \in DOMAIN s |-> Size(type, s[i])])
SizeOfMember(m, x) == IF m.isArray THEN 4 + SizeOfAll(m.type, x.at) ELSE Size(m.type, x)
SizeOfNodeId(id) ==
    CASE IdForm(id) = "twobyte" -> 2
      [] IdForm(id) = "fourbyte" -> 4
      [] IdForm(id) = "numeric" -> 7
      [] id.type = "guid" -> 3 + 128
      [] OTHER -> 3 + Size("String", id.id)
SizeOfVariant(v) ==
    1 + (IF IsScalar(v) THEN 0 ELSE 4) + SizeOfAll(v.type, v.at)
      + (IF IsBuiltin(v.type) THEN 0 ELSE 9 * Len(v.at))
      + (IF ~IsScalar(v) /\ v.dims.at # <<>> THEN 4 + SizeOfAll("Int32", v.dims.at) ELSE 0)
SizeOfDataValue(d) ==
    LET Field(f, n) == IF f \in d.has THEN n ELSE 0
    IN 1 + Field("value", SizeOfVariant(d.value)) + Field("status", 4)
         + Field("source", 8) + Field("sourcePico", 2) + Field("server", 8) + Field("serverPico", 2)
SizeOfDiagnosticInfo(d) ==
    1 + (IF "symbolicId" \in d.has THEN 4 ELSE 0)
      + (IF "info" \in d.has THEN Size("String", d.info) ELSE 0)
      + (IF "inner" \in d.has THEN Size("DiagnosticInfo", d.inner[1]) ELSE 0)
Size(type, x) ==
    CASE IsPlain(type) -> UA_TYPES[type].width
      [] type = "Byte" -> x.w
      [] type = "NodeId" -> SizeOfNodeId(x)
      [] type = "ExpandedNodeId" ->
            SizeOfNodeId(x.nodeId) + (IF x.uri[1].len > 0 THEN Size("String", x.uri) ELSE 0)
              + (IF x.serverIndex > 0 THEN 4 ELSE 0)
      [] type = "LocalizedText" ->
            1 + SizeOfAll("String", SelectSeq(x, LAMBDA text : text[1].at # <<>>))
      [] type = "ExtensionObject" ->
            SizeOfNodeId(x.typeId) + 1 + (IF x.encoding = "none" THEN 0 ELSE Size("String", x.body))
      [] type = "DataValue" -> SizeOfDataValue(x)
      [] type = "Variant" -> SizeOfVariant(x)
      [] type = "DiagnosticInfo" -> SizeOfDiagnosticInfo(x)
      [] OTHER -> Total([i \in DOMAIN Members(type) |-> SizeOfMember(Members(type)[i], x[i])])

-----------------------------------------------------------------------------
(***************************************************************************)
(* A decoder at a place of a message returns the value it read and the     *)
(* place behind it, or why it failed.                                      *)
(***************************************************************************)
Fails(why, at) == [ok |-> FALSE, v |-> why, at |-> at]
Read(m, at, w) == IF at <= Len(m) /\ m[at].w = w THEN [ok |-> TRUE, v |-> m[at].v, at |-> at + 1]
                  ELSE Fails("cut", at)

(* What was read so far, and then the next decoder.                        *)
Then(r, Next(_)) == IF r.ok THEN Next(r) ELSE r

(* Arrays of bytes are copied as they are, if the message is long enough.  *)
RECURSIVE BytesFrom(_, _, _)
BytesFrom(m, at, n) == IF n <= 0 \/ at > Len(m) THEN [left |-> n, at |-> at]
                    ELSE BytesFrom(m, at + 1, n - m[at].w)
TakeBytes(m, at, n) ==
    LET e == BytesFrom(m, at, n)
    IN IF e.left # 0 THEN Fails("cut", at)
       ELSE [ok |-> TRUE, v |-> SubSeq(m, at, e.at - 1), at |-> e.at]

(* The elements of an array need a part of their memory in the message.    *)
TooSmall(type, m, at, n) ==
    LET needed == (UA_TYPES[type].memSize * n) \div 32
    IN needed > 0 /\ needed > Width(SubSeq(m, at, Len(m)))

RECURSIVE Decode(_, _, _), DecodeAll(_, _, _, _)
DecodeArray(type, m, at, n) ==
    CASE n <= 0 -> [ok |-> TRUE, v |-> <<>>, at |-> at]
      [] n > 0 /\ TooSmall(type, m, at, n) -> Fails("small", at)
      [] n > 0 /\ type = "Byte" /\ ~TooSmall(type, m, at, n) -> TakeBytes(m, at, n)
      [] OTHER -> DecodeAll([i \in 1..n |-> One(type)], m, at, <<>>)
DecodeMember(m, at, member) ==
    IF ~member.isArray THEN Decode(member.type, m, at)
    ELSE Then(Read(m, at, 4), LAMBDA n : Then(DecodeArray(member.type, m, n.at, n.v), LAMBDA a :
              [a EXCEPT !.v = [len |-> n.v, at |-> @]]))
(* Members one after another, up to the first one that fails.              *)
DecodeAll(members, m, at, done) ==
    IF members = <<>> THEN [ok |-> TRUE, v |-> done, at |-> at]
    ELSE Then(DecodeMember(m, at, Head(members)), LAMBDA x :
              DecodeAll(Tail(members), m, x.at, Append(done, x.v)))

DecodeNodeId(m, at) == Then(Read(m, at, 1), LAMBDA head :
    LET form == head.v.form
        nsWidth == IF form = "fourbyte" THEN 1 ELSE 2
        idWidth == CASE form = "fourbyte" -> 2 [] form = "numeric" -> 4 [] OTHER -> 16
    IN CASE form = "twobyte" ->
              Then(Read(m, head.at, 1), LAMBDA id : [id EXCEPT !.v = NumericId(0, @)])
         [] form \in {"fourbyte", "numeric", "guid"} ->
              Then(Read(m, head.at, nsWidth), LAMBDA ns :
              Then(Read(m, ns.at, idWidth), LAMBDA id :
                   [id EXCEPT !.v = [ns |-> ns.v, type |-> IF form = "guid" THEN form ELSE "numeric",
                                     id |-> @]]))
         [] OTHER ->
              Then(Read(m, head.at, 2), LAMBDA ns :
              Then(Decode("String", m, ns.at), LAMBDA id :
                   [id EXCEPT !.v = [ns |-> ns.v, type |-> form, id |-> @]])))

(* A namespace URI takes the place of the namespace index.                 *)
DecodeExpandedNodeId(m, at) == Then(DecodeNodeId(m, at), LAMBDA n :
    LET flags == m[at].v.flags
        uri == IF "uri" \in flags THEN Decode("String", m, n.at) ELSE [n EXCEPT !.v = NoString]
    IN Then(uri, LAMBDA u :
       LET index == IF "index" \in flags THEN Read(m, u.at, 4) ELSE [u EXCEPT !.v = 0]
       IN Then(index, LAMBDA x : [x EXCEPT !.v =
              [nodeId |-> IF "uri" \in flags THEN [n.v EXCEPT !.ns = 0] ELSE n.v,
               uri |-> u.v, serverIndex |-> x.v]])))

DecodeLocalizedText(m, at) == Then(Read(m, at, 1), LAMBDA has :
    LET Text(i, place) == IF i \in has.v THEN Decode("String", m, place)
                          ELSE [ok |-> TRUE, v |-> NoString, at |-> place]
    IN Then(Text(1, has.at), LAMBDA locale :
       Then(Text(2, locale.at), LAMBDA text : [text EXCEPT !.v = <<locale.v, @>>])))

DecodeExtensionObject(m, at) ==
    Then(DecodeNodeId(m, at), LAMBDA id : Then(Read(m, id.at, 1), LAMBDA e :
    LET body == IF e.v = "none" THEN [e EXCEPT !.v = NoString] ELSE Decode("ByteString", m, e.at)
    IN Then(body, LAMBDA b : [b EXCEPT !.v = [typeId |-> id.v, encoding |-> e.v, body |-> @]])))

Picoseconds(n) == IF n > MaxPicoSeconds THEN MaxPicoSeconds ELSE n
DecodeDataValue(m, at) == Then(Read(m, at, 1), LAMBDA has :
    LET Field(f, d, place, other) == IF f \in has.v THEN d ELSE [ok |-> TRUE, v |-> other, at |-> place]
    IN Then(Field("value", Decode("Variant", m, has.at), has.at, EmptyVariant), LAMBDA v :
       Then(Field("status", Read(m, v.at, 4), v.at, "GOOD"), LAMBDA st :
       Then(Field("source", Read(m, st.at, 8), st.at, 0), LAMBDA so :
       Then(Field("sourcePico", Read(m, so.at, 2), so.at, 0), LAMBDA sop :
       Then(Field("server", Read(m, sop.at, 8), sop.at, 0), LAMBDA se :
       Then(Field("serverPico", Read(m, se.at, 2), se.at, 0), LAMBDA sep : [sep EXCEPT !.v =
            [has |-> has.v, value |-> v.v, status |-> st.v, source |-> so.v, server |-> se.v,
             sourcePico |-> Picoseconds(sop.v), serverPico |-> Picoseconds(@)]])))))))

(* The type that has the id of a single ExtensionObject with bytes for its *)
(* own.  Encoders write the id of a type's encoding, so that it is one     *)
(* only when somebody sends such an object.                                *)
TypeOfObject(id, encoding) ==
    {t \in DOMAIN UA_TYPES : /\ encoding = "bytes" /\ id.type = "numeric"
                             /\ id = NumericId(0, UA_TYPES[t].typeId)}
(* A value of such a type is decoded in place of the object, from the      *)
(* length of the body on.                                                  *)
DecodeObject(m, at) == Then(DecodeNodeId(m, at), LAMBDA id : Then(Read(m, id.at, 1), LAMBDA e :
    LET types == TypeOfObject(id.v, e.v)
        type == IF types = {} THEN "ExtensionObject" ELSE CHOOSE t \in types : TRUE
    IN Then(Decode(type, m, IF types = {} THEN at ELSE e.at), LAMBDA x : [x EXCEPT !.v = Scalar(type, @)])))
DecodeVariant(m, at) == Then(Read(m, at, 1), LAMBDA e :
    LET n == IF e.v.array THEN Read(m, e.at, 4) ELSE [e EXCEPT !.v = -1]
    IN IF ~e.v.array /\ e.v.type = "ExtensionObject" THEN DecodeObject(m, e.at)
       ELSE Then(n, LAMBDA len :
       Then(DecodeArray(e.v.type, m, len.at, IF e.v.array THEN len.v ELSE 1), LAMBDA a :
       LET dims == IF e.v.dims THEN DecodeMember(m, a.at, Many("Int32")) ELSE [a EXCEPT !.v = NoArray]
       IN Then(dims, LAMBDA d : [d EXCEPT !.v =
              [type |-> e.v.type, len |-> len.v, at |-> a.v, dims |-> @]]))))

DecodeDiagnosticInfo(m, at) == Then(Read(m, at, 1), LAMBDA has :
    LET Field(f, d, place, other) == IF f \in has.v THEN d ELSE [ok |-> TRUE, v |-> other, at |-> place]
    IN Then(Field("symbolicId", Read(m, has.at, 4), has.at, 0), LAMBDA s :
       Then(Field("info", Decode("String", m, s.at), s.at, NoString), LAMBDA i :
       Then(IF "inner" \in has.v THEN Decode("DiagnosticInfo", m, i.at) ELSE [i EXCEPT !.v = 0],
            LAMBDA d : [d EXCEPT !.v = [has |-> has.v, symbolicId |-> s.v, info |-> i.v,
                        inner |-> IF "inner" \in has.v THEN <<@>> ELSE <<>>]]))))

Decode(type, m, at) ==
    CASE IsPlain(type) -> Read(m, at, UA_TYPES[type].width)
      [] type = "Byte" -> Then(Read(m, at, 1), LAMBDA r : [r EXCEPT !.v = Item(1, @)])
      [] type = "NodeId" -> DecodeNodeId(m, at)
      [] type = "ExpandedNodeId" -> DecodeExpandedNodeId(m, at)
      [] type = "LocalizedText" -> DecodeLocalizedText(m, at)
      [] type = "ExtensionObject" -> DecodeExtensionObject(m, at)
      [] type = "DataValue" -> DecodeDataValue(m, at)
      [] type = "Variant" -> DecodeVariant(m, at)
      [] type = "DiagnosticInfo" -> DecodeDiagnosticInfo(m, at)
      [] OTHER -> DecodeAll(Members(type), m, at, <<>>)
=============================================================================
