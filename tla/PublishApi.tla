------------------------------ MODULE PublishApi -------------------------------
(***************************************************************************)
(* The wire format of the publish API: the generated marshalling code of   *)
(* publishclient/publishapi/publisher_vtproto.pb.go.                       *)
(*                                                                         *)
(* A message is a record of its fields and of the unknown fields it was    *)
(* decoded with; a string is the sequence of its bytes; a pointer to a     *)
(* Publish is a sequence of none or one.  MarshalVT writes backwards into  *)
(* a buffer of SizeVT bytes; UnmarshalVT reads fields until the bytes end. *)
(*                                                                         *)
(* Go's 64 and 32 bit integers are IntBits and SmallBits wide here; a      *)
(* varint still carries seven bits in a byte.                              *)
(***************************************************************************)
EXTENDS Integers, Sequences, FiniteSetsExt, SequencesExt

CONSTANTS
  IntBits,     \* width of int, int64 and uint64
  SmallBits    \* width of int32 and of an enum

\* The widths leave room for the field numbers.
ASSUME WidthsAssumption ==
  /\ IntBits \in Nat /\ SmallBits \in Nat
  /\ 5 <= SmallBits /\ SmallBits <= IntBits /\ 8 <= IntBits

Pow2[n \in Nat] == IF n = 0 THEN 1 ELSE 2 * Pow2[n - 1]

Unsigned(x, bits) == x % Pow2[bits]

Signed(x, bits) ==
  LET u == Unsigned(x, bits) IN IF u < Pow2[bits - 1] THEN u ELSE u - Pow2[bits]

--------------------------------------------------------------------------------
(* protohelpers *)

VarintBytes == (IntBits + 6) \div 7

SizeOfVarint(x) == Min({n \in 1..VarintBytes : x < Pow2[7 * n]})

EncodeVarint(x) ==
  [k \in 1..SizeOfVarint(x) |->
     ((x \div Pow2[7 * (k - 1)]) % 128) + (IF k < SizeOfVarint(x) THEN 128 ELSE 0)]

\* What a step of the decoder yields: an error, or a value and where to go on.
Failure(e) == [err |-> e, value |-> 0, next |-> 0]
Read(value, next) == [err |-> "nil", value |-> value, next |-> next]

\* if err != nil { return err }
Then(step, GoOn(_, _)) == IF step.err = "nil" THEN GoOn(step.value, step.next) ELSE step

\* The loop that reads a varint, which every field has at least once; from[k] is what
\* it reads from k on.
ReadVarint(bytes, i) ==
  LET from[k \in i..(i + VarintBytes)] ==
        IF k = i + VarintBytes THEN Failure("overflow")
        ELSE IF k > Len(bytes) THEN Failure("unexpectedEOF")
        ELSE IF bytes[k] < 128 THEN Read(bytes[k], k + 1)
        ELSE Then(from[k + 1], LAMBDA x, next : Read(bytes[k] - 128 + 128 * x, next))
  IN  Then(from[i], LAMBDA x, next : Read(Unsigned(x, IntBits), next))

\* Skip's reading of the field at i, inside of depth groups: the depth behind it.
SkipOne(bytes, i, depth) ==
  LET At(next, d) == IF Signed(next - 1, IntBits) < 0 THEN Failure("invalidLength")
                     ELSE Read(d, next)
      Block(len, next) == IF len < 0 THEN Failure("invalidLength") ELSE At(next + len, depth)
  IN  IF i > Len(bytes) THEN Failure("unexpectedEOF")
      ELSE Then(ReadVarint(bytes, i), LAMBDA tag, j :
        CASE tag % 8 = 0 -> Then(ReadVarint(bytes, j), LAMBDA x, k : At(k, depth))
          [] tag % 8 = 1 -> At(j + 8, depth)
          [] tag % 8 = 2 ->
               Then(ReadVarint(bytes, j), LAMBDA n, k : Block(Signed(n, IntBits), k))
          [] tag % 8 = 3 -> At(j, depth + 1)
          [] tag % 8 = 4 ->
               IF depth = 0 THEN Failure("endOfGroup") ELSE At(j, depth - 1)
          [] tag % 8 = 5 -> At(j + 4, depth)
          [] OTHER -> Failure("wireType"))

\* Skip of the field at i, which ends when the groups it opened are closed.  It
\* may end behind the last byte: the caller compares.
Skip(bytes, i) ==
  LET from[s \in (Nat \ {0}) \X Nat] ==
        Then(SkipOne(bytes, s[1], s[2]),
             LAMBDA depth, next : IF depth = 0 THEN Read(0, next) ELSE from[<<next, depth>>])
  IN  from[<<i, 0>>]

--------------------------------------------------------------------------------
(* The messages *)

Bytes == Seq(0..255)

\* The length of a slice is an int.
Fits(bytes) == Len(bytes) < Pow2[IntBits - 1]

Int64 == -Pow2[IntBits - 1] .. Pow2[IntBits - 1] - 1
Enum == -Pow2[SmallBits - 1] .. Pow2[SmallBits - 1] - 1

PublishMessage ==
  [spaceId : Bytes, objectId : Bytes, uri : Bytes, status : Enum, version : Bytes,
   timestamp : Int64, size : Int64, unknownFields : Bytes]

ResolveUriRequest == [uri : Bytes, unknownFields : Bytes]
ResolveUriResponse == [publish : Seq(PublishMessage), unknownFields : Bytes]
Ok == [unknownFields : Bytes]
GetPublishStatusRequest == [spaceId : Bytes, objectId : Bytes, unknownFields : Bytes]
GetPublishStatusResponse == [publish : Seq(PublishMessage), unknownFields : Bytes]
PublishRequest ==
  [spaceId : Bytes, objectId : Bytes, uri : Bytes, version : Bytes, unknownFields : Bytes]
PublishResponse == [uploadUrl : Bytes, unknownFields : Bytes]
UnPublishRequest == [spaceId : Bytes, objectId : Bytes, unknownFields : Bytes]
ListPublishesRequest == [spaceId : Bytes, unknownFields : Bytes]
ListPublishesResponse == [publishes : Seq(PublishMessage), unknownFields : Bytes]

--------------------------------------------------------------------------------
(* MarshalToSizedBufferVT, SizeVT and MarshalVT *)

StringField(n, s) == IF s = <<>> THEN <<>> ELSE <<8 * n + 2>> \o EncodeVarint(Len(s)) \o s
StringSize(s) == IF s = <<>> THEN 0 ELSE 1 + Len(s) + SizeOfVarint(Len(s))

IntField(n, x) ==
  IF x = 0 THEN <<>> ELSE <<8 * n>> \o EncodeVarint(Unsigned(x, IntBits))

\* Mutant: the size is that of the number as an uint32.
IntSizeSmall(x) == IF x = 0 THEN 0 ELSE 1 + SizeOfVarint(Unsigned(x, SmallBits))

IntSize(x) == IF x = 0 THEN 0 ELSE 1 + SizeOfVarint(Unsigned(x, IntBits))

MarshalPublish(m) ==
  StringField(1, m.spaceId) \o StringField(2, m.objectId) \o StringField(3, m.uri)
    \o IntField(4, m.status) \o StringField(5, m.version)
    \o IntField(6, m.timestamp) \o IntField(7, m.size) \o m.unknownFields

SizePublish(m) ==
  StringSize(m.spaceId) + StringSize(m.objectId) + StringSize(m.uri)
    + IntSize(m.status) + StringSize(m.version)
    + IntSize(m.timestamp) + IntSize(m.size) + Len(m.unknownFields)

\* The Publish messages of field n, one field each; none is left out for being empty.
PublishesField(n, list) ==
  LET first[k \in 0..Len(list)] ==
        IF k = 0 THEN <<>>
        ELSE first[k - 1] \o <<8 * n + 2>> \o EncodeVarint(Len(MarshalPublish(list[k])))
                         \o MarshalPublish(list[k])
  IN  first[Len(list)]

PublishesSize(list) ==
  LET first[k \in 0..Len(list)] ==
        IF k = 0 THEN 0
        ELSE first[k - 1] + 1 + SizePublish(list[k]) + SizeOfVarint(SizePublish(list[k]))
  IN  first[Len(list)]

MarshalResolveUriRequest(m) == StringField(1, m.uri) \o m.unknownFields
SizeResolveUriRequest(m) == StringSize(m.uri) + Len(m.unknownFields)

MarshalResolveUriResponse(m) == PublishesField(1, m.publish) \o m.unknownFields
SizeResolveUriResponse(m) == PublishesSize(m.publish) + Len(m.unknownFields)

MarshalOk(m) == m.unknownFields
SizeOk(m) == Len(m.unknownFields)

MarshalGetPublishStatusRequest(m) ==
  StringField(1, m.spaceId) \o StringField(2, m.objectId) \o m.unknownFields
SizeGetPublishStatusRequest(m) ==
  StringSize(m.spaceId) + StringSize(m.objectId) + Len(m.unknownFields)

MarshalGetPublishStatusResponse(m) == PublishesField(1, m.publish) \o m.unknownFields
SizeGetPublishStatusResponse(m) == PublishesSize(m.publish) + Len(m.unknownFields)

MarshalPublishRequest(m) ==
  StringField(1, m.spaceId) \o StringField(2, m.objectId) \o StringField(3, m.uri)
    \o StringField(4, m.version) \o m.unknownFields
SizePublishRequest(m) ==
  StringSize(m.spaceId) + StringSize(m.objectId) + StringSize(m.uri)
    + StringSize(m.version) + Len(m.unknownFields)

MarshalPublishResponse(m) == StringField(1, m.uploadUrl) \o m.unknownFields
SizePublishResponse(m) == StringSize(m.uploadUrl) + Len(m.unknownFields)

MarshalUnPublishRequest(m) ==
  StringField(1, m.spaceId) \o StringField(2, m.objectId) \o m.unknownFields
SizeUnPublishRequest(m) ==
  StringSize(m.spaceId) + StringSize(m.objectId) + Len(m.unknownFields)

MarshalListPublishesRequest(m) == StringField(1, m.spaceId) \o m.unknownFields
SizeListPublishesRequest(m) == StringSize(m.spaceId) + Len(m.unknownFields)

MarshalListPublishesResponse(m) == PublishesField(1, m.publishes) \o m.unknownFields
SizeListPublishesResponse(m) == PublishesSize(m.publishes) + Len(m.unknownFields)

\* What MarshalVT returns of a buffer of size bytes that was filled from its end.
MarshalVT(size, bytes) ==
  LET gap == size - Len(bytes)
  IN  IF gap < 0 THEN Failure("panic")
      ELSE Read(SubSeq([k \in 1..gap |-> 0] \o bytes, 1, Len(bytes)), 0)

--------------------------------------------------------------------------------
(* UnmarshalVT *)

StringOf(name) == [kind |-> "string", name |-> name]
Int64Of(name) == [kind |-> "int64", name |-> name]
EnumOf(name) == [kind |-> "enum", name |-> name]
PublishOf(name) == [kind |-> "publish", name |-> name]
PublishesOf(name) == [kind |-> "publishes", name |-> name]

ZeroOf(kind) == IF kind \in {"int64", "enum"} THEN 0 ELSE <<>>

\* The message new() makes, whose fields have their numbers from 1.
NewMessage(fields) ==
  [name \in {fields[n].name : n \in DOMAIN fields} \cup {"unknownFields"} |->
     IF name = "unknownFields" THEN <<>>
     ELSE ZeroOf((CHOOSE f \in ToSet(fields) : f.name = name).kind)]

PublishFields ==
  <<StringOf("spaceId"), StringOf("objectId"), StringOf("uri"), EnumOf("status"),
    StringOf("version"), Int64Of("timestamp"), Int64Of("size")>>

\* dAtA[iNdEx:postIndex]
Slice(bytes, i, len) ==
  IF i > 0 /\ len >= 0 /\ i - 1 + len <= Len(bytes)
  THEN Read(SubSeq(bytes, i, i - 1 + len), i + len)
  ELSE Failure("panic")

PostIndex(i, len) == Signed(i - 1 + len, IntBits)

\* Mutant: a negative length is not looked at.
LengthUnchecked(bytes, i, len) ==
  IF PostIndex(i, len) < 0 THEN Failure("invalidLength")
  ELSE IF PostIndex(i, len) > Len(bytes) THEN Failure("unexpectedEOF")
  ELSE Slice(bytes, i, len)

\* The bytes of a field that is as long as it says.
Bounded(bytes, i, len) ==
  IF len < 0 \/ PostIndex(i, len) < 0 THEN Failure("invalidLength")
  ELSE IF PostIndex(i, len) > Len(bytes) THEN Failure("unexpectedEOF")
  ELSE Slice(bytes, i, len)

LengthDelimited(bytes, i) ==
  Then(ReadVarint(bytes, i), LAMBDA len, j : Bounded(bytes, j, Signed(len, IntBits)))

\* A case of the switch that reads a number or a string.
PlainField(f, m, wireType, bytes, i) ==
  LET Set(value, next) == Read([m EXCEPT ![f.name] = value], next)
      number == f.kind \in {"int64", "enum"}
      bits == IF f.kind = "enum" THEN SmallBits ELSE IntBits
  IN  IF wireType # (IF number THEN 0 ELSE 2) THEN Failure("wireType")
      ELSE IF number
      THEN Then(ReadVarint(bytes, i), LAMBDA x, j : Set(Signed(x, bits), j))
      ELSE Then(LengthDelimited(bytes, i), Set)

\* The default of the switch.
UnknownField(m, bytes, i) ==
  Then(Skip(bytes, i), LAMBDA x, next :
    Then(Bounded(bytes, i, next - i), LAMBDA block, j :
      Read([m EXCEPT !.unknownFields = @ \o block], j)))

FieldNumber(tag) == Signed(tag \div 8, SmallBits)

\* The field at i, after its tag; known is what the case of its number makes of it.
DecodeField(fields, known, m, tag, bytes, i) ==
  IF tag % 8 = 4 \/ FieldNumber(tag) <= 0 THEN Failure("tag")
  ELSE IF FieldNumber(tag) \in DOMAIN fields THEN known
  ELSE UnknownField(m, bytes, i)

\* A field of a message of numbers and strings.
PlainDecode(fields, m, bytes, i) ==
  Then(ReadVarint(bytes, i), LAMBDA tag, j :
    DecodeField(fields, PlainField(fields[FieldNumber(tag)], m, tag % 8, bytes, j),
                m, tag, bytes, i))

\* from[<<m, i>>] is what the loop over the fields makes of m and the bytes from i on.
UnmarshalPublish(m, bytes) ==
  LET from[s \in PublishMessage \X (1..(Len(bytes) + 1))] ==
        IF s[2] > Len(bytes) THEN Read(s[1], s[2])
        ELSE Then(PlainDecode(PublishFields, s[1], bytes, s[2]),
                  LAMBDA new, i : from[<<new, i>>])
  IN  from[<<m, 1>>]

\* A case of the switch of a message that may hold Publish messages.
AnyField(f, m, wireType, bytes, i) ==
  LET old == m[f.name]
      into == IF f.kind = "publish" /\ old # <<>> THEN old[1] ELSE NewMessage(PublishFields)
      Kept(new) == IF f.kind = "publish" THEN <<new>> ELSE Append(old, new)
  IN  IF f.kind \notin {"publish", "publishes"} THEN PlainField(f, m, wireType, bytes, i)
      ELSE IF wireType # 2 THEN Failure("wireType")
      ELSE Then(LengthDelimited(bytes, i), LAMBDA block, j :
             Then(UnmarshalPublish(into, block), LAMBDA new, n :
               Read([m EXCEPT ![f.name] = Kept(new)], j)))

\* A field of such a message.
AnyDecode(fields, m, bytes, i) ==
  Then(ReadVarint(bytes, i), LAMBDA tag, j :
    DecodeField(fields, AnyField(fields[FieldNumber(tag)], m, tag % 8, bytes, j),
                m, tag, bytes, i))

\* The UnmarshalVT of all messages but Publish.
UnmarshalVT(Message, fields, bytes) ==
  LET from[s \in Message \X (1..(Len(bytes) + 1))] ==
        IF s[2] > Len(bytes) THEN Read(s[1], s[2])
        ELSE Then(AnyDecode(fields, s[1], bytes, s[2]),
                  LAMBDA new, i : from[<<new, i>>])
  IN  from[<<NewMessage(fields), 1>>]

UnmarshalResolveUriRequest(bytes) ==
  UnmarshalVT(ResolveUriRequest, <<StringOf("uri")>>, bytes)

UnmarshalResolveUriResponse(bytes) ==
  UnmarshalVT(ResolveUriResponse, <<PublishOf("publish")>>, bytes)

UnmarshalOk(bytes) == UnmarshalVT(Ok, <<>>, bytes)

UnmarshalGetPublishStatusRequest(bytes) ==
  UnmarshalVT(GetPublishStatusRequest, <<StringOf("spaceId"), StringOf("objectId")>>, bytes)

UnmarshalGetPublishStatusResponse(bytes) ==
  UnmarshalVT(GetPublishStatusResponse, <<PublishOf("publish")>>, bytes)

UnmarshalPublishRequest(bytes) ==
  UnmarshalVT(PublishRequest,
              <<StringOf("spaceId"), StringOf("objectId"), StringOf("uri"),
                StringOf("version")>>, bytes)

UnmarshalPublishResponse(bytes) ==
  UnmarshalVT(PublishResponse, <<StringOf("uploadUrl")>>, bytes)

UnmarshalUnPublishRequest(bytes) ==
  UnmarshalVT(UnPublishRequest, <<StringOf("spaceId"), StringOf("objectId")>>, bytes)

UnmarshalListPublishesRequest(bytes) ==
  UnmarshalVT(ListPublishesRequest, <<StringOf("spaceId")>>, bytes)

UnmarshalListPublishesResponse(bytes) ==
  UnmarshalVT(ListPublishesResponse, <<PublishesOf("publishes")>>, bytes)

--------------------------------------------------------------------------------
(* drpcEncoding: a message is marshalled by the methods of its type *)

Marshal(type, m) ==
  CASE type = "ResolveUriRequest" ->
         MarshalVT(SizeResolveUriRequest(m), MarshalResolveUriRequest(m))
    [] type = "ResolveUriResponse" ->
         MarshalVT(SizeResolveUriResponse(m), MarshalResolveUriResponse(m))
    [] type = "Ok" -> MarshalVT(SizeOk(m), MarshalOk(m))
    [] type = "GetPublishStatusRequest" ->
         MarshalVT(SizeGetPublishStatusRequest(m), MarshalGetPublishStatusRequest(m))
    [] type = "GetPublishStatusResponse" ->
         MarshalVT(SizeGetPublishStatusResponse(m), MarshalGetPublishStatusResponse(m))
    [] type = "PublishRequest" ->
         MarshalVT(SizePublishRequest(m), MarshalPublishRequest(m))
    [] type = "PublishResponse" ->
         MarshalVT(SizePublishResponse(m), MarshalPublishResponse(m))
    [] type = "UnPublishRequest" ->
         MarshalVT(SizeUnPublishRequest(m), MarshalUnPublishRequest(m))
    [] type = "ListPublishesRequest" ->
         MarshalVT(SizeListPublishesRequest(m), MarshalListPublishesRequest(m))
    [] type = "ListPublishesResponse" ->
         MarshalVT(SizeListPublishesResponse(m), MarshalListPublishesResponse(m))

Unmarshal(type, bytes) ==
  CASE type = "ResolveUriRequest" -> UnmarshalResolveUriRequest(bytes)
    [] type = "ResolveUriResponse" -> UnmarshalResolveUriResponse(bytes)
    [] type = "Ok" -> UnmarshalOk(bytes)
    [] type = "GetPublishStatusRequest" -> UnmarshalGetPublishStatusRequest(bytes)
    [] type = "GetPublishStatusResponse" -> UnmarshalGetPublishStatusResponse(bytes)
    [] type = "PublishRequest" -> UnmarshalPublishRequest(bytes)
    [] type = "PublishResponse" -> UnmarshalPublishResponse(bytes)
    [] type = "UnPublishRequest" -> UnmarshalUnPublishRequest(bytes)
    [] type = "ListPublishesRequest" -> UnmarshalListPublishesRequest(bytes)
    [] type = "ListPublishesResponse" -> UnmarshalListPublishesResponse(bytes)

--------------------------------------------------------------------------------
(* A later version of the API has messages with more fields. *)

\* A field, from i up to j, with a number that no message of this version uses.
LaterField(bytes, i, j) ==
  LET tag == ReadVarint(bytes, i)
  IN  /\ tag.err = "nil" /\ tag.value % 8 # 4
      /\ FieldNumber(tag.value) > Len(PublishFields)
      /\ Skip(bytes, i) = Read(0, j) /\ j <= Len(bytes) + 1

\* Do such fields make up all of the bytes?
LaterFields(bytes) ==
  \E starts \in SUBSET (1..Len(bytes) + 1) :
    /\ 1 \in starts
    /\ \A i \in starts : i = Len(bytes) + 1 \/ \E j \in starts : LaterField(bytes, i, j)

================================================================================
