------------------------------ MODULE Payload ------------------------------
(***************************************************************************)
(* What becomes of the frames of a message on its way: a sender adds an    *)
(* object or bytes (pubsub.h), the message goes to a receiver, or into the *)
(* log as one blob (pubsub_recorder.cpp) and from there through the log    *)
(* viewer's unpack_frames() to a receiver, who decodes the object into one *)
(* of its own (pubsub_message.h), of the same or of another version of the *)
(* class.                                                                  *)
(***************************************************************************)
EXTENDS CborItem

CONSTANTS
  encode_field(_, _),    \* cbor_encode(): type and value to an item,
  decode_field(_, _, _), \* cbor_decode(): and back, into a value,
  field_size(_),         \* the bytes of an item
  estimate_field(_, _),  \* estimate_cbor_size()
  Types,      \* classes by name
  Pairs,      \* the names of the writer's and the reader's class
  Values,     \* objects of a class that are written,
  Held,       \* and what a reader's object may hold before
  FrameSizes, Repeats,  \* bytes of the frames that may be added, how often at once
  MaxFrames   \* bound: no more are added to a message of so many

ASSUME ClassAssumption ==
  /\ "" \notin DOMAIN Types /\ Pairs \subseteq (DOMAIN Types) \X (DOMAIN Types)
  /\ \A w \in DOMAIN Types :
       LET fields == Types[w].fields
       IN  /\ fields \in Seq(Range(fields))
           /\ \A i, j \in DOMAIN fields : fields[i][1] = fields[j][1] => i = j
           /\ \A v \in Values[w] \cup Held[w] :
                v = [name \in Names(Types[w]) |-> v[name]]

ASSUME SizeAssumption ==
  /\ FrameSizes \subseteq Nat /\ Repeats \subseteq Nat
  /\ \A w \in DOMAIN Types : \A f \in Range(Types[w].fields) :
       /\ Len(f[1]) \in Nat
       /\ \A v \in Values[w] : field_size(encode_field(f[2], v[f[1]])) \in Nat

VARIABLES
  stage,            \* where the message is
  writer, reader,   \* names of classes, writer's "" if it has no object
  value, before,    \* the object, and what the reader's held before
  sent, frames,     \* the frames as sent and as they are
  row,              \* the blob in the log
  fits,             \* serialize_cbor()'s result, which add_cbor() ignores
  got, failed       \* the reader's object; who failed a CHECK

object == <<writer, value, sent, fits>>
payload == <<stage, reader, before, frames, row, got, failed, object>>

PayloadInit ==
  /\ stage = "composed" /\ writer = "" /\ reader = "" /\ value = <<>> /\ before = <<>>
  /\ sent = <<>> /\ frames = <<>> /\ row = NoBytes /\ fits = TRUE
  /\ got = <<>> /\ failed = "nobody"

(* serialize_cbor() and deserialize_cbor() of an object.                   *)
write_object(class, v) ==
  LET fields == class.fields
      items == [i \in DOMAIN fields |-> encode_field(fields[i][2], v[fields[i][1]])]
      sizes == [i \in DOMAIN fields |-> field_size(items[i])]
      estimates == [i \in DOMAIN fields |-> estimate_field(fields[i][2], v[fields[i][1]])]
  IN  Serialize(EncodeClass(fields, items),
                MapSize([i \in DOMAIN fields |-> fields[i][1]], sizes),
                BufferSize(EstimateClass(fields, estimates)))

DecodeFields(fields, item, out) ==
  [i \in DOMAIN fields |->
     LET name == fields[i][1]
     IN  IF Entries(item[2], name) = {} THEN Missing(out[name])
         ELSE decode_field(fields[i][2], Find(item[2], name), out[name])]
read_object(class, bytes, out) ==
  LET item == bytes[2]
  IN  Deserialize(DecodeClass(class.fields, DecodeFields(class.fields, item, out), item, out),
                  bytes, out)

Go(here, there) == failed = "nobody" /\ stage = here /\ stage' = there

add_cbor(w, v) ==
  /\ frames = <<>> /\ Go("composed", "composed")
  /\ LET result == write_object(Types[w], v)
     IN  frames' = <<result.bytes>> /\ fits' = result.ok
  /\ writer' = w /\ value' = v /\ sent' = frames'
  /\ UNCHANGED <<reader, before, row, got, failed>>

add_bytes(n, size) ==
  /\ writer = "" /\ Len(frames) < MaxFrames /\ Go("composed", "composed")
  /\ frames' = frames \o [i \in 1..n |-> <<size, <<"raw", size>>>>]
  /\ sent' = frames'
  /\ UNCHANGED <<writer, reader, value, before, row, fits, got, failed>>

(* serialize_cbor() and deserialize_cbor() of a vector of spans of bytes.  *)
serialize_frames(list) ==
  LET lengths == [i \in DOMAIN list |-> list[i][1]]
  IN  Serialize(EncodeList([i \in DOMAIN list |-> EncodeBytes(list[i])]),
                ListSize([i \in DOMAIN list |-> BytesSize(lengths[i])]),
                BufferSize(Total(lengths)))

DecodeFrames(item) ==
  DecodeList([i \in DOMAIN item[2] |-> DecodeBytes(0, item[2][i], NoBytes)], 0, item, <<>>)
deserialize_frames(bytes) == Deserialize(DecodeFrames(bytes[2]), bytes, <<>>)

(* Recorder::append()                                                      *)
append ==
  /\ Go("composed", "logged")
  /\ LET result == serialize_frames(frames)
     IN  row' = result.bytes /\ failed' = IF result.ok THEN failed ELSE "recorder"
  /\ UNCHANGED <<reader, before, frames, got, object>>

unpack_frames ==
  /\ Go("logged", "played")
  /\ LET result == deserialize_frames(row)
     IN  /\ frames' = result.value
         /\ failed' = IF result.status = "abort" THEN "playback" ELSE failed
  /\ UNCHANGED <<reader, before, row, got, object>>

(* Mutant: the frames are counted from 1.                                  *)
GetNextFrame(r, old) ==
  /\ \/ Go("composed", "received")
     \/ Go("played", "received")
  /\ <<writer, r>> \in Pairs
  /\ reader' = r /\ before' = old
  /\ LET result == IF Len(frames) < 2 THEN Abort(old)
                   ELSE read_object(Types[r], frames[2], old)
     IN  /\ got' = result.value
         /\ failed' = IF result.status = "abort" THEN "receiver" ELSE failed
  /\ UNCHANGED <<frames, row, object>>

(* The first frame, which is where publish_cbor() puts the object.         *)
get_cbor(r, old) ==
  /\ \/ Go("composed", "received")
     \/ Go("played", "received")
  /\ <<writer, r>> \in Pairs
  /\ reader' = r /\ before' = old
  /\ LET result == IF frames = <<>> THEN Abort(old)
                   ELSE read_object(Types[r], frames[1], old)
     IN  /\ got' = result.value
         /\ failed' = IF result.status = "abort" THEN "receiver" ELSE failed
  /\ UNCHANGED <<frames, row, object>>

PayloadNext ==
  \/ \E w \in DOMAIN Types : \E v \in Values[w] : add_cbor(w, v)
  \/ \E n \in Repeats, size \in FrameSizes : add_bytes(n, size)
  \/ append
  \/ unpack_frames
  \/ \E r \in DOMAIN Types : \E old \in Held[r] : get_cbor(r, old)

PayloadSpec == PayloadInit /\ [][PayloadNext]_payload

-----------------------------------------------------------------------------
(* pubsub.h:42-52, pubsub_message.h:43-50: an object that was encoded is   *)
(* read by a reader of the same class as it was written, straight or from  *)
(* the log, and whatever its own object held before.                       *)
ReadAsWritten ==
  stage = "received" /\ reader = writer /\ fits => failed = "nobody" /\ got = value

(* pubsub_recorder.cpp:97-104, log_viewer.cpp:138-143: a message of frames *)
(* of four bytes or more does not end the process that records, and is     *)
(* played back as it was sent.                                             *)
LogKeepsFrames ==
  sent # <<>> /\ (\A i \in DOMAIN sent : sent[i][1] >= 4) =>
    failed \notin {"recorder", "playback"} /\ frames = sent

(* make_serializable.hpp:336-381: a reader of another version of the class *)
(* gets the fields of its own up to the first that was not written, cut to *)
(* its types, and leaves the others alone, although it hears of no error.  *)
(* It aborts if one of those does not fit in its type, and only then.      *)
Decoded(class, names) ==
  {i \in DOMAIN class.fields : \A j \in 1..i : class.fields[j][1] \in names}

Fits(type, from, v) ==
  CASE type.kind = "enum" -> v \in Range(type.names)
    [] type.kind = "text" -> type.capacity = 0 \/ Len(v) < type.capacity
    [] type.kind = "bytes" -> type.length \in {0, v[1]}
    [] type.kind = "list" -> /\ type.length \in {0, Len(v)}
                             /\ type.of.kind = "double" => from.of.kind = "double"
    [] OTHER -> TRUE

AgreesInside(class, v, g) ==
  \A i \in Decoded(class, DOMAIN v) :
    g[class.fields[i][1]] = v[class.fields[i][1]]

Agrees(type, v, g) ==
  CASE type.kind = "uint" /\ type.bytes < 4 ->
         g \in 0..(Power[type.bytes] - 1) /\ (v - g) % Power[type.bytes] = 0
    [] type.kind = "list" /\ type.of.kind = "class" ->
         Len(g) = Len(v) /\ \A i \in DOMAIN v : AgreesInside(type.of, v[i], g[i])
    [] OTHER -> g = v

ReaderKeepsPrefix ==
  stage = "received" /\ writer # "" /\ fits =>
    LET fields == Types[reader].fields
        decoded == Decoded(Types[reader], Names(Types[writer]))
        unfit == \E i \in decoded :
                   LET name == fields[i][1]
                   IN  ~Fits(fields[i][2], TypeOf(Types[writer], name), value[name])
    IN  /\ failed = IF unfit THEN "receiver" ELSE "nobody"
        /\ ~unfit => \A i \in DOMAIN fields :
             LET name == fields[i][1]
             IN  IF i \in decoded THEN Agrees(fields[i][2], value[name], got[name])
                 ELSE got[name] = before[name]

-----------------------------------------------------------------------------
(* What is asked of cbor_encode() and cbor_decode() of the fields' types,  *)
(* for objects to be read as they were written,                            *)
FieldsRoundTrip ==
  \A w \in DOMAIN Types : \A f \in Range(Types[w].fields), v \in Values[w], old \in Held[w] :
    decode_field(f[2], encode_field(f[2], v[f[1]]), old[f[1]]) = Ok(v[f[1]])

(* and in part, by a reader of another version.                            *)
FieldsAgree ==
  \A p \in Pairs : \A v \in Values[p[1]], old \in Held[p[2]] :
    \A f \in Range(Types[p[2]].fields) : f[1] \in Names(Types[p[1]]) =>
      LET from == TypeOf(Types[p[1]], f[1])
          result == decode_field(f[2], encode_field(from, v[f[1]]), old[f[1]])
      IN  IF Fits(f[2], from, v[f[1]])
            THEN result.status = "ok" /\ Agrees(f[2], v[f[1]], result.value)
            ELSE result.status = "abort"

=============================================================================
