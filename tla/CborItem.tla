------------------------------ MODULE CborItem ------------------------------
(***************************************************************************)
(* serialization/: C++ values to CBOR and back, directed by their types:   *)
(* what the encoders and decoders of all types have in common, and those   *)
(* of numbers, byte strings and sequences; those of types made of others   *)
(* are in Cbor.  tinycbor is external.                                     *)
(*                                                                         *)
(* A value is a number, a string (text, or the name of an enumerator), a   *)
(* pair <<length, contents>> of bytes, a sequence, or a function from the  *)
(* names of a class's fields.  An item, what is encoded, is a pair of its  *)
(* kind and its contents; of its bytes only their number matters.          *)
(***************************************************************************)
EXTENDS Integers, Sequences, Functions

(* Types.  A capacity or length of 0 is that of a container that grows.    *)
Uint(bytes) == [kind |-> "uint", bytes |-> bytes]
Sint(bytes) == [kind |-> "int", bytes |-> bytes]
Float == [kind |-> "float", bytes |-> 4]
Double == [kind |-> "double", bytes |-> 8]
Enum(names) == [kind |-> "enum", names |-> names]
Text(capacity) == [kind |-> "text", capacity |-> capacity]
Bytes(length) == [kind |-> "bytes", length |-> length]
List(of, length) == [kind |-> "list", of |-> of, length |-> length]
Class(fields) == [kind |-> "class", fields |-> fields]

Names(class) == {f[1] : f \in Range(class.fields)}
TypeOf(class, name) == (CHOOSE f \in Range(class.fields) : f[1] = name)[2]

-----------------------------------------------------------------------------
(* Encoding.  A number or a length takes 0, 1, 2, 4 or 8 bytes and the     *)
(* kind a byte.                                                            *)
HeaderSize(n) ==
  IF n < 24 THEN 1 ELSE IF n < 256 THEN 2 ELSE IF n < 65536 THEN 3
  ELSE IF n \div 65536 < 65536 THEN 5 ELSE 9

Total(sizes) ==
  LET upTo[n \in 0..Len(sizes)] == IF n = 0 THEN 0 ELSE upTo[n - 1] + sizes[n]
  IN  upTo[Len(sizes)]

BytesSize(length) == HeaderSize(length) + length
ListSize(sizes) == HeaderSize(Len(sizes)) + Total(sizes)

MapSize(names, sizes) ==
  ListSize([i \in DOMAIN names |-> BytesSize(Len(names[i])) + sizes[i]])

EncodeBytes(value) == <<"bytes", value>>
EncodeList(items) == <<"array", items>>

(* A class is a map from the names of its fields to what is in them.       *)
EncodeClass(fields, items) ==
  <<"map", [i \in DOMAIN fields |-> <<<<"text", fields[i][1]>>, items[i]>>]>>

EstimateClass(fields, estimates) ==
  Total([i \in DOMAIN fields |-> Len(fields[i][1]) + estimates[i]])

(* Mutant: the buffer is as large as estimated.                            *)
BufferAsEstimated(estimate) == estimate
BufferSize(estimate) == (3 * estimate) \div 2

(* The bytes of an item, or none if the buffer does not hold them.         *)
NoBytes == <<0, <<"raw", 0>>>>
Serialize(item, size, buffer) ==
  IF size <= buffer THEN [ok |-> TRUE, bytes |-> <<size, item>>]
  ELSE [ok |-> FALSE, bytes |-> NoBytes]

-----------------------------------------------------------------------------
(* Decoding, into an object that exists.  A CHECK, a LOG(FATAL) and the    *)
(* assertions of tinycbor abort.                                           *)
Ok(value) == [status |-> "ok", value |-> value]
Abort(value) == [status |-> "abort", value |-> value]
Expect(check, value, out) == IF check THEN Ok(value) ELSE Abort(out)

Power == [k \in 0..3 |-> 2^(8 * k)]
Narrow(n, bytes) == IF bytes < 4 THEN n % Power[bytes] ELSE n
NarrowSigned(n, bytes) ==
  LET half == Power[bytes] \div 2
  IN  IF bytes < 4 THEN ((n + half) % Power[bytes]) - half ELSE n

DecodeBytes(length, item, out) ==
  Expect(item[1] = "bytes" /\ length \in {0, item[2][1]}, item[2], out)

(* What comes of a sequence, if these come of its elements.                *)
DecodeList(elements, length, item, out) ==
  IF item[1] # "array" \/ length \notin {0, Len(item[2])} THEN Abort(out)
  ELSE Expect(\A i \in DOMAIN elements : elements[i].status = "ok",
              [i \in DOMAIN elements |-> elements[i].value], out)

(* The entry that cbor_value_map_find_value1() finds.                      *)
Entries(map, name) == {i \in DOMAIN map : map[i][1][2] = name}
Find(map, name) == map[CHOOSE i \in Entries(map, name) : \A j \in Entries(map, name) : i <= j][2]

(* The one error a decoder meets in a well-formed item is a field that is  *)
(* missing, and no caller hears of it.  Mutant: the fields after a missing *)
(* one are decoded all the same.                                           *)
Missing(value) == [status |-> "missing", value |-> value]
NeverBail(result) == result.status = "abort"
Bail(result) == result.status # "ok"

(* The fields that for_each_field() comes to before one of them fails.     *)
Reached(fields, decoded) ==
  {i \in DOMAIN fields : \A j \in 1..i - 1 : ~Bail(decoded[j])}

(* What comes of an object, if these come of its fields.                   *)
DecodeClass(fields, decoded, item, out) ==
  LET reached == Reached(fields, decoded)
      Of(name) == {i \in reached : fields[i][1] = name}
  IN  IF item[1] # "map" THEN Abort(out)
      ELSE [status |-> IF \E i \in reached : decoded[i].status = "abort" THEN "abort" ELSE "ok",
            value |-> [name \in DOMAIN out |->
                         IF Of(name) = {} THEN out[name]
                         ELSE decoded[CHOOSE i \in Of(name) : TRUE].value]]

(* The parser wants a byte at least.                                       *)
Deserialize(decoded, bytes, out) == IF bytes[1] = 0 THEN Abort(out) ELSE decoded

=============================================================================
