----------------------------- MODULE WireCodec -----------------------------
(***************************************************************************)
(* The binary format of the messages from C++ to Dart.  C++ encodes a      *)
(* struct by the field list of its glz::meta (native/include/glaze_meta.h, *)
(* bluez_media_types.h); Dart decodes it by constructor calls of its own   *)
(* (lib/src/ffi/codec.dart).  Nothing but care keeps the two in step.      *)
(*                                                                         *)
(* A byte has ByteBase values, so that lengths of more than one byte and   *)
(* values at the edge of their width are small.  A text is the sequence of *)
(* its UTF-8 bytes.                                                        *)
(***************************************************************************)
EXTENDS Integers, Sequences, SequencesExt

CONSTANT ByteBase

ASSUME ByteAssumption == ByteBase \in Nat \ {0, 1}

Byte == 0..ByteBase - 1

\* The values of that many bytes.
Power == LET values[i \in 0..8] == IF i = 0 THEN 1 ELSE ByteBase * values[i - 1]
         IN values

(* ------------------------------- C++ ----------------------------------- *)
Width == [u8 |-> 1, u16 |-> 2, i32 |-> 4, u32 |-> 4, u64 |-> 8]

WriteInteger_NoMask(n, width) == [i \in 1..width |-> n \div Power[i - 1]]

\* detail::write_integer: little endian, a negative number as its two's
\* complement (\div and % round down).
WriteInteger(n, width) ==
    [i \in 1..width |-> (n \div Power[i - 1]) % ByteBase]

WriteCount_U64(n) == WriteInteger(n, Width.u64)

\* The length of a text or the count of a list: a uint32_t.
WriteCount(n) == WriteInteger(n, Width.u32)

\* What the vectors of each type hold.
Element == [texts |-> "text", properties |-> "Property", items |-> "ItemProps"]

\* glz::meta<T>::fields.
PropertyFields == <<<<"key", "text">>, <<"value", "text">>>>

PlayerFields ==
    <<<<"objectPath", "text">>, <<"equalizer", "text">>, <<"repeat", "text">>,
      <<"shuffle", "text">>, <<"scan", "text">>, <<"status", "text">>,
      <<"position", "u32">>, <<"track", "properties">>, <<"device", "text">>,
      <<"name", "text">>, <<"type", "text">>, <<"subtype", "text">>,
      <<"browsable", "bool">>, <<"searchable", "bool">>,
      <<"playlist", "text">>, <<"obexPort", "u16">>>>

ControlFields ==
    <<<<"objectPath", "text">>, <<"connected", "bool">>, <<"player", "text">>>>

TransportFields ==
    <<<<"objectPath", "text">>, <<"device", "text">>, <<"uuid", "text">>,
      <<"codec", "u8">>, <<"configuration", "bytes">>, <<"state", "text">>,
      <<"delay", "u16">>, <<"volume", "u16">>, <<"endpoint", "text">>>>

FolderFields ==
    <<<<"objectPath", "text">>, <<"numberOfItems", "u32">>, <<"name", "text">>>>

ItemFields ==
    <<<<"objectPath", "text">>, <<"player", "text">>, <<"name", "text">>,
      <<"type", "text">>, <<"folderType", "text">>, <<"playable", "bool">>,
      <<"metadata", "properties">>>>

FolderItemsFields == <<<<"objectPath", "text">>, <<"items", "items">>>>

ErrorFields ==
    <<<<"objectPath", "text">>, <<"name", "text">>, <<"message", "text">>>>

AcquireFields ==
    <<<<"transportPath", "text">>, <<"fd", "i32">>, <<"readMtu", "u16">>,
      <<"writeMtu", "u16">>>>

ManagedFields ==
    <<<<"media", "texts">>, <<"players", "texts">>, <<"controls", "texts">>,
      <<"transports", "texts">>, <<"folders", "texts">>, <<"items", "texts">>>>

RemovedFields == <<<<"objectPath", "text">>, <<"interfaceName", "text">>>>

Fields ==
    [Property |-> PropertyFields, PlayerProps |-> PlayerFields,
     ControlProps |-> ControlFields, TransportProps |-> TransportFields,
     FolderProps |-> FolderFields, ItemProps |-> ItemFields,
     FolderItems |-> FolderItemsFields, Error |-> ErrorFields,
     AcquireResult |-> AcquireFields, ManagedObjects |-> ManagedFields,
     ObjectRemoved |-> RemovedFields]

Names(fields) == {fields[i][1] : i \in DOMAIN fields}

\* What the C++ types of the fields hold.  A struct holds lists of structs, and
\* so on, three deep: F says what the elements of a list hold.
HoldsPlain(type, v) ==
    IF type = "bool" THEN v \in BOOLEAN
    ELSE IF type = "i32"
    THEN v \in Int /\ -(Power[4] \div 2) <= v /\ v < Power[4] \div 2
    ELSE IF type \in DOMAIN Width THEN v \in Nat /\ v < Power[Width[type]]
    ELSE v \in Seq(Byte) /\ Len(v) < Power[4]

HoldsField(F(_, _), type, v) ==
    IF type \in DOMAIN Element
    THEN /\ DOMAIN v = 1..Len(v) /\ v = [i \in 1..Len(v) |-> v[i]]
         /\ Len(v) \in Nat /\ Len(v) < Power[4]
         /\ \A i \in 1..Len(v) : F(Element[type], v[i])
    ELSE HoldsPlain(type, v)

HoldsStruct(F(_, _), type, v) ==
    IF type \in DOMAIN Fields
    THEN /\ v = [n \in Names(Fields[type]) |-> v[n]]
         /\ \A i \in DOMAIN Fields[type] :
              HoldsField(F, Fields[type][i][2], v[Fields[type][i][1]])
    ELSE HoldsPlain(type, v)

Holds1(type, v) == HoldsStruct(HoldsPlain, type, v)
Holds2(type, v) == HoldsStruct(Holds1, type, v)
Holds(type, v) == HoldsStruct(Holds2, type, v)

\* detail::encode_field, for each type; E encodes the elements of a list.
EncodePlain(type, v) ==
    IF type = "bool" THEN <<IF v THEN 1 ELSE 0>>
    ELSE IF type \in DOMAIN Width THEN WriteInteger(v, Width[type])
    ELSE WriteCount(Len(v)) \o v

EncodeField(E(_, _), type, v) ==
    IF type \in DOMAIN Element
    THEN WriteCount(Len(v))
           \o FlattenSeq([i \in 1..Len(v) |-> E(Element[type], v[i])])
    ELSE EncodePlain(type, v)

\* detail::encode_struct, of a struct whose lists hold what E encodes.
EncodeStruct(E(_, _), type, v) ==
    IF type \in DOMAIN Fields
    THEN FlattenSeq([i \in 1..Len(Fields[type]) |->
             EncodeField(E, Fields[type][i][2], v[Fields[type][i][1]])])
    ELSE EncodePlain(type, v)

Encode1(type, v) == EncodeStruct(EncodePlain, type, v)
Encode2(type, v) == EncodeStruct(Encode1, type, v)

\* glz::encode
Encode(type, v) == EncodeStruct(Encode2, type, v)

(* ------------------------------- Dart ---------------------------------- *)
(* A read starts at an offset (counted from 1) and gives a value and the   *)
(* offset after it, or RangeError when the bytes run out.                  *)
RangeError == [ok |-> FALSE, value |-> <<>>, at |-> 0]

Got(v, at) == [ok |-> TRUE, value |-> v, at |-> at]

\* ByteData.getUint16, getUint32, getUint64.
LittleEndian(data, at, width) ==
    LET sum[i \in 0..width] ==
            IF i = 0 THEN 0
            ELSE sum[i - 1] + Power[i - 1] * data[at + i - 1]
    IN  sum[width]

\* _Reader.readUint8, readUint16, readUint32.
ReadInteger(data, at, width) ==
    IF at + width - 1 > Len(data) THEN RangeError
    ELSE Got(LittleEndian(data, at, width), at + width)

ReadInt32(data, at) ==
    LET r == ReadInteger(data, at, 4)
    IN  IF r.ok /\ r.value >= Power[4] \div 2
        THEN Got(r.value - Power[4], r.at) ELSE r

\* _Reader.readString, readByteList.
ReadBytes(data, at) ==
    LET count == ReadInteger(data, at, 4)
        end == count.at + count.value
    IN  IF ~count.ok \/ end - 1 > Len(data) THEN RangeError
        ELSE Got(SubSeq(data, count.at, end - 1), end)

ReadPlain(what, data, at) ==
    CASE what = "readBool" ->
            LET r == ReadInteger(data, at, 1)
            IN  IF r.ok THEN Got(r.value # 0, r.at) ELSE RangeError
      [] what = "readUint8"  -> ReadInteger(data, at, 1)
      [] what = "readUint16" -> ReadInteger(data, at, 2)
      [] what = "readUint32" -> ReadInteger(data, at, 4)
      [] what = "readInt32"  -> ReadInt32(data, at)
      [] what \in {"readString", "readByteList"} -> ReadBytes(data, at)

\* Reads one after the other, each a function of its offset; the first that
\* runs out of bytes throws.
ReadAll(reads, at) ==
    LET read[n \in 0..Len(reads)] ==
            IF n = 0 THEN Got(<<>>, at)
            ELSE LET before == read[n - 1]
                     next == reads[n][before.at]
                 IN  IF before.ok /\ next.ok
                     THEN Got(Append(before.value, next.value), next.at)
                     ELSE RangeError
    IN  read[Len(reads)]

\* The reads of each constructor call, in order.
ItemReads ==
    <<<<"objectPath", "readString">>, <<"player", "readString">>,
      <<"name", "readString">>, <<"type", "readString">>,
      <<"folderType", "readString">>, <<"playable", "readBool">>,
      <<"metadata", "readMediaPropertyList">>>>

PlayerReads ==
    <<<<"objectPath", "readString">>, <<"equalizer", "readString">>,
      <<"repeat", "readString">>, <<"shuffle", "readString">>,
      <<"scan", "readString">>, <<"status", "readString">>,
      <<"position", "readUint32">>, <<"track", "readMediaPropertyList">>,
      <<"device", "readString">>, <<"name", "readString">>,
      <<"type", "readString">>, <<"subtype", "readString">>,
      <<"browsable", "readBool">>, <<"searchable", "readBool">>,
      <<"playlist", "readString">>, <<"obexPort", "readUint16">>>>

TransportReads ==
    <<<<"objectPath", "readString">>, <<"device", "readString">>,
      <<"uuid", "readString">>, <<"codec", "readUint8">>,
      <<"configuration", "readByteList">>, <<"state", "readString">>,
      <<"delay", "readUint16">>, <<"volume", "readUint16">>,
      <<"endpoint", "readString">>>>

ManagedReads ==
    <<<<"media", "readStringList">>, <<"players", "readStringList">>,
      <<"controls", "readStringList">>, <<"transports", "readStringList">>,
      <<"folders", "readStringList">>, <<"items", "readStringList">>>>

Reads ==
    [Property |-> <<<<"key", "readString">>, <<"value", "readString">>>>,
     PlayerProps |-> PlayerReads,
     ControlProps |-> <<<<"objectPath", "readString">>,
                        <<"connected", "readBool">>, <<"player", "readString">>>>,
     TransportProps |-> TransportReads,
     FolderProps |-> <<<<"objectPath", "readString">>,
                       <<"numberOfItems", "readUint32">>, <<"name", "readString">>>>,
     ItemProps |-> ItemReads,
     FolderItems |-> <<<<"objectPath", "readString">>,
                       <<"items", "readMediaItemList">>>>,
     Error |-> <<<<"objectPath", "readString">>, <<"name", "readString">>,
                 <<"message", "readString">>>>,
     AcquireResult |-> <<<<"transportPath", "readString">>, <<"fd", "readInt32">>,
                         <<"readMtu", "readUint16">>, <<"writeMtu", "readUint16">>>>,
     ManagedObjects |-> ManagedReads,
     ObjectRemoved |-> <<<<"objectPath", "readString">>,
                         <<"interfaceName", "readString">>>>]

\* readMediaPropertyList and readMediaItemList repeat the reads of their
\* elements.
ListOf == [readStringList |-> "readString", readMediaPropertyList |-> "Property",
           readMediaItemList |-> "ItemProps"]

\* One read; R reads the elements of a list.
ReadField(R(_, _, _), what, data, at) ==
    IF what \in DOMAIN ListOf
    THEN LET count == ReadInteger(data, at, 4)
         IN  IF ~count.ok THEN RangeError
             ELSE ReadAll([i \in 1..count.value |->
                             [a \in Nat |-> R(ListOf[what], data, a)]], count.at)
    ELSE ReadPlain(what, data, at)

\* A constructor call, of a struct whose lists hold what R reads.
ReadStruct(R(_, _, _), what, data, at) ==
    IF what \in DOMAIN Reads
    THEN LET reads == Reads[what]
             r == ReadAll([i \in 1..Len(reads) |->
                             [a \in Nat |-> ReadField(R, reads[i][2], data, a)]], at)
         IN  IF ~r.ok THEN RangeError
             ELSE Got([n \in Names(reads) |->
                         r.value[CHOOSE i \in DOMAIN reads : reads[i][1] = n]], r.at)
    ELSE ReadPlain(what, data, at)

Read1(what, data, at) == ReadStruct(ReadPlain, what, data, at)
Read2(what, data, at) == ReadStruct(Read1, what, data, at)
Read(what, data, at) == ReadStruct(Read2, what, data, at)

\* GlazeCodec.decode<T>(data, offset); what follows the value is ignored.
Decode(type, data, offset) == Read(type, data, offset + 1)
=============================================================================
