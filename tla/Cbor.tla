-------------------------------- MODULE Cbor --------------------------------
(***************************************************************************)
(* serialization/make_serializable.hpp: the encoder, the estimate of its   *)
(* size and the decoder of a value of any type.  They are template         *)
(* functions that the compiler picks by type; here the type is an          *)
(* argument.  tinycbor, magic_enum and pfr are external.                   *)
(***************************************************************************)
EXTENDS CborItem

RECURSIVE Size(_)
Size(item) ==
  LET of == item[2]
  IN  CASE item[1] = "uint" -> HeaderSize(of)
        [] item[1] = "negative" -> HeaderSize(-1 - of)
        [] item[1] = "float" -> 5
        [] item[1] = "double" -> 9
        [] item[1] = "text" -> BytesSize(Len(of))
        [] item[1] = "bytes" -> BytesSize(of[1])
        [] item[1] = "array" -> ListSize([i \in DOMAIN of |-> Size(of[i])])
        [] item[1] = "map" ->
             MapSize([i \in DOMAIN of |-> of[i][1][2]], [i \in DOMAIN of |-> Size(of[i][2])])

RECURSIVE cbor_encode(_, _)
cbor_encode(type, value) ==
  CASE type.kind = "enum" -> <<"text", value>>
    [] type.kind = "int" -> <<IF value < 0 THEN "negative" ELSE "uint", value>>
    [] type.kind = "bytes" -> EncodeBytes(value)
    [] type.kind = "list" -> EncodeList([i \in DOMAIN value |-> cbor_encode(type.of, value[i])])
    [] type.kind = "class" ->
         LET fields == type.fields
         IN  EncodeClass(fields,
               [i \in DOMAIN fields |-> cbor_encode(fields[i][2], value[fields[i][1]])])
    [] OTHER -> <<type.kind, value>>

RECURSIVE estimate_cbor_size(_, _)
estimate_cbor_size(type, value) ==
  CASE type.kind \in {"enum", "text"} -> Len(value)
    [] type.kind = "bytes" -> value[1]
    [] type.kind = "list" ->
         Total([i \in DOMAIN value |-> estimate_cbor_size(type.of, value[i])])
    [] type.kind = "class" ->
         LET fields == type.fields
         IN  EstimateClass(fields,
               [i \in DOMAIN fields |-> estimate_cbor_size(fields[i][2], value[fields[i][1]])])
    [] OTHER -> type.bytes

serialize_cbor(type, value) ==
  LET item == cbor_encode(type, value)
  IN  Serialize(item, Size(item), BufferSize(estimate_cbor_size(type, value)))

-----------------------------------------------------------------------------
(* What a container that grows puts there before it decodes.               *)
RECURSIVE Blank(_)
Blank(type) ==
  CASE type.kind = "text" -> ""
    [] type.kind = "bytes" -> <<type.length, "blank">>
    [] type.kind = "list" -> [i \in 1..type.length |-> Blank(type.of)]
    [] type.kind = "class" ->
         [name \in Names(type) |-> Blank(TypeOf(type, name))]
    [] type.kind = "enum" -> type.names[1]
    [] OTHER -> 0

RECURSIVE cbor_decode(_, _, _)
cbor_decode(type, item, out) ==
  LET of == item[2]
      elements ==
        [i \in DOMAIN of |->
           cbor_decode(type.of, of[i], IF i \in DOMAIN out THEN out[i] ELSE Blank(type.of))]
      decoded ==
        [i \in DOMAIN type.fields |->
           LET name == type.fields[i][1]
           IN  IF Entries(of, name) = {} THEN Missing(out[name])
               ELSE cbor_decode(type.fields[i][2], Find(of, name), out[name])]
  IN  CASE type.kind = "uint" -> Expect(item[1] = "uint", Narrow(of, type.bytes), out)
        [] type.kind = "int" ->
             Expect(item[1] \in {"uint", "negative"}, NarrowSigned(of, type.bytes), out)
        [] type.kind = "float" -> Expect(item[1] \in {"float", "double"}, of, out)
        [] type.kind = "double" -> Expect(item[1] = "double", of, out)
        [] type.kind = "enum" -> Expect(item[1] = "text" /\ of \in Range(type.names), of, out)
        [] type.kind = "text" ->
             Expect(item[1] = "text" /\ (type.capacity = 0 \/ Len(of) + 1 <= type.capacity), of, out)
        [] type.kind = "bytes" -> DecodeBytes(type.length, item, out)
        [] type.kind = "list" -> DecodeList(elements, type.length, item, out)
        [] type.kind = "class" -> DecodeClass(type.fields, decoded, item, out)

deserialize_cbor(type, bytes, out) ==
  Deserialize(cbor_decode(type, bytes[2], out), bytes, out)

=============================================================================
