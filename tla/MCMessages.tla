----------------------------- MODULE MCMessages -----------------------------
(***************************************************************************)
(* TLC instance of the bus, and of what the frames of one message are      *)
(* encoded to and decoded from: a behaviour is of one or the other, as the *)
(* bus does not look into a frame.  The classes are those of               *)
(* serialization_test.cpp and versions of PersonExample.                   *)
(***************************************************************************)
EXTENDS MCPubSub, Payload, SequencesExt

VARIABLE of

C == INSTANCE Cbor

Pet == Class(<<<<"name", Text(0)>>>>)
Person ==
  << <<"gender", Enum(<<"NONBINARY", "MALE", "FEMALE">>)>>, <<"age", Uint(2)>>,
     <<"wealth", Uint(8)>>, <<"name", Text(0)>>, <<"blob", Bytes(0)>>,
     <<"pets", List(Pet, 0)>>, <<"position", List(Float, 4)>> >>

With(i) == InsertAt(Person, i, <<"height", Sint(1)>>)
Changed(i, type) == ReplaceAt(Person, i, <<Person[i][1], type>>)
Versions ==
     "same" :> Person @@ "reversed" :> Reverse(Person)
  @@ "two genders" :> Changed(1, Enum(<<"NONBINARY", "MALE">>))
  @@ "short age" :> Changed(2, Uint(1)) @@ "short name" :> Changed(4, Text(5))
  @@ "fixed blob" :> Changed(5, Bytes(5)) @@ "position of 3" :> Changed(7, List(Float, 3))
  @@ "double position" :> Changed(7, List(Double, 4))
  @@ "kinds of pets" :>
       Changed(6, List(Class(<<<<"kind", Text(0)>>, <<"name", Text(0)>>>>), 0))
  @@ "pets by name" :>
       Changed(6, List(Class(<<<<"name", Text(0)>>, <<"kind", Text(0)>>>>), 0))
  @@ [i \in {"without 1", "without 4", "without 7"} |->
        RemoveAt(Person, CASE i = "without 1" -> 1 [] i = "without 4" -> 4 [] OTHER -> 7)]
  @@ [i \in {"with at 1", "with at 4", "with at 8"} |->
        With(CASE i = "with at 1" -> 1 [] i = "with at 4" -> 4 [] OTHER -> 8)]
MCTypes == [name \in DOMAIN Versions \cup {"empty", "pet"} |->
            IF name = "empty" THEN Class(<<>>) ELSE IF name = "pet" THEN Pet
            ELSE Class(Versions[name])]
MCPairs ==
  {<<name, name>> : name \in DOMAIN Types}
    \cup {<<"same", name>> : name \in DOMAIN Versions}
    \cup {<<name, "same">> : name \in DOMAIN Versions}

(* The objects of a class that are made of one choice of each kind.        *)
Choice ==
  {[text |-> shape[1], length |-> shape[2], enum |-> shape[3], number |-> number] :
     shape \in { <<"", 0, 1>>, <<"", 2, 3>>, <<"Fido", 2, 1>>,
                 <<"a name longer than two dozen characters", 2, 3>> },
     number \in {300, 2147483647}}
RECURSIVE Value(_, _)
Value(type, choice) ==
  CASE type.kind = "uint" ->
         IF type.bytes < 4 THEN choice.number % Power[type.bytes] ELSE choice.number
    [] type.kind = "int" -> -choice.enum
    [] type.kind \in {"float", "double"} -> choice.number
    [] type.kind = "enum" -> type.names[IF choice.enum <= Len(type.names) THEN choice.enum ELSE 1]
    [] type.kind = "text" ->
         IF type.capacity # 0 /\ Len(choice.text) >= type.capacity THEN "" ELSE choice.text
    [] type.kind = "bytes" ->
         <<IF type.length = 0 THEN Len(choice.text) ELSE type.length, "blob">>
    [] type.kind = "list" ->
         [i \in 1..(IF type.length = 0 THEN choice.length ELSE type.length) |->
            Value(type.of, choice)]
    [] type.kind = "class" ->
         [name \in Names(type) |->
            Value(TypeOf(type, name), choice)]
MCValues == [name \in DOMAIN Types |-> {Value(Types[name], c) : c \in Choice}]
MCHeld ==
  [name \in DOMAIN Types |->
     {C!Blank(Types[name]),
      Value(Types[name], [text |-> "old", number |-> 7, length |-> 1, enum |-> 2])}]

MCFrameSizes == {0, 3, 4, 300}
MCRepeats == {1, 24}
MCEncode(type, v) == C!cbor_encode(type, v)
MCDecode(type, cbor, old) == C!cbor_decode(type, cbor, old)
MCSize(cbor) == C!Size(cbor)
MCEstimate(type, v) == C!estimate_cbor_size(type, v)

(* What Payload says of a vector of spans is what Cbor says of that type.  *)
ASSUME FramesAssumption ==
  LET Spans == List(Bytes(0), 0)
      Frame == {<<size, "contents">> : size \in MCFrameSizes}
      Lists == {<<>>} \cup {[i \in 1..n |-> f] : n \in {1, 23, 24}, f \in Frame}
                 \cup [1..2 -> Frame]
      items == {<<"bytes", <<4, "contents">>>>, <<"text", "text">>}
      Blobs == {NoBytes} \cup {serialize_frames(l).bytes : l \in Lists}
                 \cup {<<9, <<kind, <<i, j>>>>>> : kind \in {"array", "map"}, i, j \in items}
  IN  /\ \A l \in Lists : serialize_frames(l) = C!serialize_cbor(Spans, l)
      /\ \A blob \in Blobs : deserialize_frames(blob) = C!deserialize_cbor(Spans, blob, <<>>)

(* What Payload says of an object, too.                                    *)
ASSUME ObjectsAssumption ==
  \A p \in Pairs : \A v \in Values[p[1]] :
    LET written == write_object(Types[p[1]], v)
    IN  /\ written = C!serialize_cbor(Types[p[1]], v)
        /\ written.ok => \A old \in Held[p[2]] :
             read_object(Types[p[2]], written.bytes, old) =
               C!deserialize_cbor(Types[p[2]], written.bytes, old)

(* The fields' types do what is asked of them.                             *)
ASSUME FieldsAssumption == FieldsRoundTrip /\ FieldsAgree

-----------------------------------------------------------------------------
MCInit == of \in {"bus", "payload"} /\ Init /\ PayloadInit
MCNext ==
  /\ UNCHANGED of
  /\ \/ of = "bus" /\ Next /\ UNCHANGED payload
     \/ of = "payload" /\ PayloadNext /\ UNCHANGED vars

MCSpec == MCInit /\ [][MCNext]_<<of, vars, payload>>

=============================================================================
