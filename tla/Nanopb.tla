------------------------------- MODULE Nanopb -------------------------------
(***************************************************************************)
(* nanopb: a message is a structure that a sequence of fields describes;   *)
(* it is written to a stream and read back.  The build has no malloc, so   *)
(* fields are static or callbacks.  Widths are scaled down together: a     *)
(* byte has four bits instead of 8, and 32 and 64 bits are Bits32 and      *)
(* Bits64, so that a varint of 64 bits still ends in a byte of one bit.    *)
(*                                                                         *)
(* A field is [tag, slot, ltype, htype, atype, size, array, has, fields,   *)
(* zero]; slot is where the structure keeps it (the fields of a oneof      *)
(* share one), size its data_size, in bits for numbers and in bytes for    *)
(* the others, without the count of a bytes array and the NUL of a string. *)
(* A message maps a slot to [n, v]: its value, and the has_, _count or     *)
(* which_ that belongs to it.                                              *)
(***************************************************************************)
EXTENDS Integers, Sequences, SequencesExt

Payload == 3                    \* 7, the bits of a number in a byte of a varint
ByteBits == 4                   \* 8
Bits32 == 8
Bits64 == 16
FieldsPerWord == 2              \* 32, the bits of a word of fields_seen
MaxRequired == 4                \* PB_MAX_REQUIRED_FIELDS, 64

Signed(u, bits) == IF u >= 2^(bits - 1) THEN u - 2^bits ELSE u

\* PB_LTYPE(type) <= PB_LTYPE_LAST_PACKABLE
Packable(f) == f.ltype \in {"varint", "uvarint", "svarint", "fixed32", "fixed64"}

-----------------------------------------------------------------------------
(* pb_istream_t: left bytes of a buffer from at on.  v is what was read.   *)

pb_istream_from_buffer(in) == [in |-> in, at |-> 0, left |-> Len(in), ok |-> TRUE, v |-> 0]

Fail(s) == [s EXCEPT !.ok = FALSE]

pb_read(s, count) ==
    IF s.left < count THEN Fail(s)
    ELSE [s EXCEPT !.at = @ + count, !.left = @ - count, !.v = SubSeq(s.in, s.at + 1, s.at + count)]

\* A number of some bits; what the last byte has beyond them is lost.
RECURSIVE VarintFrom(_, _, _, _)
VarintFrom(s, bits, bitpos, result) ==
    LET b == s.in[s.at + 1]
        sum == (result + (b % 2^Payload) * 2^bitpos) % 2^bits
        n == [s EXCEPT !.at = @ + 1, !.left = @ - 1]
    IN  IF bitpos >= bits \/ s.left = 0 THEN Fail(s)
        ELSE IF b >= 2^Payload THEN VarintFrom(n, bits, bitpos + Payload, sum)
        ELSE [n EXCEPT !.v = sum]

pb_decode_varint32(s) == VarintFrom(s, Bits32, 0, 0)
pb_decode_varint(s) == VarintFrom(s, Bits64, 0, 0)

RECURSIVE pb_skip_varint(_)
pb_skip_varint(s) ==
    LET n == pb_read(s, 1) IN IF n.ok /\ n.v[1] >= 2^Payload THEN pb_skip_varint(n) ELSE n

pb_skip_string(s) == LET n == pb_decode_varint32(s) IN IF n.ok THEN pb_read(n, n.v) ELSE n

pb_decode_tag(s) ==
    LET n == pb_decode_varint32(s)
        temp == IF n.ok THEN n.v ELSE 0
    IN  [s |-> n, eof |-> IF n.ok THEN n.v = 0 ELSE n.left = 0, tag |-> temp \div 8, wire_type |-> temp % 8]

WT_VARINT == 0
WT_64BIT == 1
WT_STRING == 2
WT_32BIT == 5

pb_skip_field(s, wire_type) ==
    CASE wire_type = WT_VARINT -> pb_skip_varint(s)
      [] wire_type = WT_64BIT -> pb_read(s, Bits64 \div ByteBits)
      [] wire_type = WT_STRING -> pb_skip_string(s)
      [] wire_type = WT_32BIT -> pb_read(s, Bits32 \div ByteBits)
      [] OTHER -> Fail(s)

\* The stream of a string of the stream s.
pb_make_string_substream(s) ==
    LET n == pb_decode_varint32(s) IN IF n.ok /\ n.left >= n.v THEN [n EXCEPT !.left = n.v] ELSE Fail(n)

\* s goes on behind the string, whose unread bytes are skipped.
pb_close_string_substream(s, sub) ==
    [sub EXCEPT !.at = sub.at + sub.left, !.left = s.left + s.at - (sub.at + sub.left)]

-----------------------------------------------------------------------------
(* Numbers, strings and bytes: PB_DECODERS without the submessage.         *)

Fits(value, bits, signed) ==
    IF signed THEN value \in -(2^(bits - 1))..(2^(bits - 1) - 1) ELSE value \in 0..(2^bits - 1)

Number(s, value, f, signed) == IF s.ok /\ Fits(value, f.size, signed) THEN [s EXCEPT !.v = value] ELSE Fail(s)

\* Fields of up to 32 bits take their sign from bit 31, as some writers do not extend it.
SignOf(f, u) == IF f.size = Bits64 THEN Signed(u, Bits64) ELSE Signed(u % 2^Bits32, Bits32)

Zagged(u) == IF u % 2 = 1 THEN -(u \div 2) - 1 ELSE u \div 2
RECURSIVE LittleEndian(_)
LittleEndian(bytes) == IF bytes = <<>> THEN 0 ELSE Head(bytes) + 2^ByteBits * LittleEndian(Tail(bytes))

FixedNumber(s, bits) ==
    LET n == pb_read(s, bits \div ByteBits) IN IF n.ok THEN [n EXCEPT !.v = LittleEndian(@)] ELSE n

\* A string is cut at the size of its field, and must have room for its NUL.
Characters(s, accepts) ==
    LET n == pb_decode_varint32(s) IN IF n.ok /\ accepts[n.v] THEN pb_read(n, n.v) ELSE Fail(n)
UpTo(size) == [n \in 0..(2^Bits32 - 1) |-> n <= size]
Exactly(size) == [n \in 0..(2^Bits32 - 1) |-> n \in {0, size}]

pb_dec_value(s, f) ==
    LET u == pb_decode_varint(s)
        b == Characters(s, Exactly(f.size))
    IN  CASE f.ltype = "varint" -> Number(u, SignOf(f, u.v), f, TRUE)
          [] f.ltype = "uvarint" -> Number(u, u.v, f, FALSE)
          [] f.ltype = "svarint" -> Number(u, Zagged(u.v), f, TRUE)
          [] f.ltype = "fixed32" -> FixedNumber(s, Bits32)
          [] f.ltype = "fixed64" -> FixedNumber(s, Bits64)
          [] f.ltype \in {"bytes", "string"} -> Characters(s, UpTo(f.size))
          [] f.ltype = "fixed_length_bytes" -> IF b.ok /\ b.v = <<>> THEN [b EXCEPT !.v = f.zero] ELSE b

-----------------------------------------------------------------------------
(* pb_decode.                                                              *)

RECURSIVE pb_message_set_to_defaults(_)
pb_field_set_to_default(f) ==
    [n |-> 0,
     v |-> CASE f.htype = "repeated" \/ f.atype = "callback" -> <<>>
             [] f.ltype = "submessage" /\ f.htype # "oneof" -> pb_message_set_to_defaults(f.fields)
             [] OTHER -> f.zero]

\* The fields of a structure with those of its extensions.
Structure(fields) ==
    FlattenSeq([i \in DOMAIN fields |-> IF fields[i].ltype = "extension" THEN fields[i].fields ELSE <<fields[i]>>])

pb_message_set_to_defaults(fields) ==
    LET all == Structure(fields)
        FieldOf(slot) == all[CHOOSE i \in DOMAIN all : all[i].slot = slot]
    IN  [slot \in {all[i].slot : i \in DOMAIN all} |-> pb_field_set_to_default(FieldOf(slot))]

\* Messages in messages call each other.
RECURSIVE DecodeFields(_, _, _, _, _)

pb_decode_noinit(s, fields, msg) == DecodeFields(s, fields, msg, {}, 0)
pb_decode(s, fields) == pb_decode_noinit(s, fields, pb_message_set_to_defaults(fields))

pb_dec_submessage(s, f, old) ==
    LET sub == pb_make_string_substream(s)
        read == IF f.htype = "repeated" THEN pb_decode(sub, f.fields) ELSE pb_decode_noinit(sub, f.fields, old)
    IN  IF sub.ok THEN pb_close_string_substream(pb_decode_varint32(s), read) ELSE sub

FieldDecoder(s, f, old) == IF f.ltype = "submessage" THEN pb_dec_submessage(s, f, old) ELSE pb_dec_value(s, f)

\* Items of a packed array until the string or the room for them ends.
RECURSIVE DecodePacked(_, _, _)
DecodePacked(sub, f, items) ==
    LET n == pb_dec_value(sub, f)
    IN  IF sub.left = 0 \/ Len(items) = f.array \/ ~n.ok
        THEN [sub EXCEPT !.v = items, !.ok = sub.left = 0]
        ELSE DecodePacked(n, f, Append(items, n.v))

DecodeRepeated(s, wire_type, f, cell) ==
    LET sub == pb_make_string_substream(s)
        items == DecodePacked(sub, f, cell.v)
        item == FieldDecoder(s, f, cell.v)
    IN  IF wire_type = WT_STRING /\ Packable(f)
        THEN IF ~sub.ok THEN sub ELSE IF ~items.ok THEN items
             ELSE pb_close_string_substream(pb_decode_varint32(s), items)
        ELSE IF cell.n >= f.array THEN Fail(s)
        ELSE IF item.ok THEN [item EXCEPT !.v = Append(cell.v, @)] ELSE item

\* A submessage of a oneof begins anew.
OneofBegun(f, cell) == IF f.ltype = "submessage" THEN pb_message_set_to_defaults(f.fields) ELSE cell.v

NewCell(n, v) == [n |-> n, v |-> v]

\* v of the result is the new cell.
decode_static_field(s, wire_type, f, cell) ==
    LET read == CASE f.htype = "repeated" -> DecodeRepeated(s, wire_type, f, cell)
                  [] f.htype = "oneof" -> FieldDecoder(s, f, OneofBegun(f, cell))
                  [] OTHER -> FieldDecoder(s, f, cell.v)
        n == CASE f.htype = "repeated" -> IF read.ok THEN Len(read.v) ELSE 0
               [] f.htype = "oneof" -> f.tag
               [] f.htype = "optional" /\ f.has # "none" -> 1
               [] OTHER -> cell.n
    IN  [read EXCEPT !.v = NewCell(n, @)]

\* The callback of the application: it takes one number and keeps it.
RECURSIVE CallDecoder(_, _)
CallDecoder(sub, items) ==
    LET n == pb_decode_varint(sub)
    IN  IF ~n.ok THEN n
        ELSE IF n.left = 0 THEN [n EXCEPT !.v = Append(items, n.v)]
        ELSE CallDecoder(n, Append(items, n.v))

\* A number is copied into a buffer of ten bytes, which limits a varint.
read_raw_value(s, wire_type) ==
    LET n == pb_skip_field(s, wire_type)
    IN  IF n.ok /\ n.at - s.at <= (Bits64 - 1) \div Payload + 1
        THEN [n EXCEPT !.v = SubSeq(s.in, s.at + 1, n.at)]
        ELSE Fail(n)

decode_callback_field(s, wire_type, f, cell) ==
    LET sub == pb_make_string_substream(s)
        items == CallDecoder(sub, cell.v)
        raw == read_raw_value(s, wire_type)
        item == pb_decode_varint(pb_istream_from_buffer(raw.v))
    IN  IF f.has = "none" THEN [pb_skip_field(s, wire_type) EXCEPT !.v = cell]
        ELSE IF wire_type = WT_STRING
        THEN IF ~sub.ok THEN sub ELSE IF ~items.ok THEN items
             ELSE [pb_close_string_substream(pb_decode_varint32(s), items) EXCEPT !.v = NewCell(0, @)]
        ELSE IF ~raw.ok THEN raw ELSE IF ~item.ok THEN Fail(raw)
        ELSE [raw EXCEPT !.v = NewCell(0, Append(cell.v, item.v))]

decode_field(s, wire_type, f, cell) ==
    IF f.atype = "callback" THEN decode_callback_field(s, wire_type, f, cell)
    ELSE decode_static_field(s, wire_type, f, cell)

FieldsWith(fields, tag) == SelectSeq(fields, LAMBDA f : f.tag = tag /\ f.ltype # "extension")
Extensions(fields) == SelectSeq(fields, LAMBDA f : f.ltype = "extension")

\* Every required field is there.  A number of them that fills its words is
\* compared with a word shifted by its own width, whose value C leaves open:
\* such structures are not decoded here.
AllRequired(fields, seen) ==
    LET required == SelectSeq(fields, LAMBDA f : f.htype = "required")
    IN  {required[i].tag : i \in DOMAIN required} \subseteq seen
ShiftIsDefined(fields) ==
    LET required == Len(SelectSeq(fields, LAMBDA f : f.htype = "required"))
    IN  required = 0 \/ (required % FieldsPerWord # 0 /\ required < MaxRequired)

\* Where extensions begin: asked for once, at the first unknown tag.
ExtensionRange(start, placeholder) == IF placeholder = <<>> THEN 2^Bits32 - 1 ELSE placeholder[1].tag

\* A field's value becomes a part of the message and its required field is seen.
DecodeKnown(s, fields, msg, seen, range, f, wire_type) ==
    LET n == decode_field(s, wire_type, f, msg[f.slot])
    IN  IF ~n.ok THEN n
        ELSE DecodeFields(n, fields, [msg EXCEPT ![f.slot] = n.v],
                          IF f.htype = "required" THEN seen \cup {f.tag} ELSE seen, range)

DecodeFields(s, fields, msg, seen, range) ==
    LET t == pb_decode_tag(s)
        found == FieldsWith(fields, t.tag)
        start == IF t.tag >= range THEN ExtensionRange(range, Extensions(fields)) ELSE range
        extension == IF t.tag >= start THEN FieldsWith(Extensions(fields)[1].fields, t.tag) ELSE <<>>
        skipped == pb_skip_field(t.s, t.wire_type)
    IN  IF s.left = 0 \/ t.eof
        THEN [(IF s.left = 0 THEN s ELSE t.s) EXCEPT !.v = msg, !.ok = AllRequired(fields, seen)]
        ELSE IF ~t.s.ok THEN t.s
        ELSE IF found # <<>> THEN DecodeKnown(t.s, fields, msg, seen, range, found[1], t.wire_type)
        ELSE IF extension # <<>> THEN DecodeKnown(t.s, fields, msg, seen, start, extension[1], t.wire_type)
        ELSE IF skipped.ok THEN DecodeFields(skipped, fields, msg, seen, start) ELSE skipped

-----------------------------------------------------------------------------
(* pb_ostream_t: without a callback it only counts.                        *)

PB_OSTREAM_SIZING == [written |-> 0, out |-> <<>>, null |-> TRUE, max |-> 0, ok |-> TRUE]
pb_ostream_from_buffer(size) == [PB_OSTREAM_SIZING EXCEPT !.null = FALSE, !.max = size]

pb_write(w, bytes) ==
    IF w.null THEN [w EXCEPT !.written = @ + Len(bytes)]
    ELSE IF w.written + Len(bytes) > w.max THEN Fail(w)
    ELSE [w EXCEPT !.written = @ + Len(bytes), !.out = @ \o bytes]

\* pb_write without a buffer.
Count(w, size) == [w EXCEPT !.written = @ + size]

RECURSIVE VarintBytes(_)
VarintBytes(u) ==
    IF u < 2^Payload THEN <<u>> ELSE <<(u % 2^Payload) + 2^Payload>> \o VarintBytes(u \div 2^Payload)

RECURSIVE FixedBytes(_, _)
FixedBytes(u, n) == IF n = 0 THEN <<>> ELSE <<u % 2^ByteBits>> \o FixedBytes(u \div 2^ByteBits, n - 1)

pb_encode_varint(w, u) == IF w.ok THEN pb_write(w, VarintBytes(u)) ELSE w
pb_encode_tag(w, wire_type, tag) == pb_encode_varint(w, tag * 8 + wire_type)

pb_encode_tag_for_field(w, f) ==
    LET wire_type == CASE f.ltype \in {"varint", "uvarint", "svarint"} -> WT_VARINT
                       [] f.ltype = "fixed32" -> WT_32BIT
                       [] f.ltype = "fixed64" -> WT_64BIT
                       [] OTHER -> WT_STRING
    IN  pb_encode_tag(w, wire_type, f.tag)

pb_encode_string(w, bytes) ==
    LET n == pb_encode_varint(w, Len(bytes)) IN IF n.ok THEN pb_write(n, bytes) ELSE n

\* A string ends at its first NUL.
UpToNul(v) ==
    LET nuls == {i \in DOMAIN v : v[i] = 0}
    IN  IF nuls = {} THEN v ELSE SubSeq(v, 1, (CHOOSE i \in nuls : \A j \in nuls : i <= j) - 1)

pb_enc_value(w, f, v) ==
    CASE f.ltype \in {"varint", "uvarint"} -> pb_encode_varint(w, v % 2^Bits64)
      [] f.ltype = "svarint" -> pb_encode_varint(w, IF v < 0 THEN -2 * v - 1 ELSE 2 * v)
      [] f.ltype = "fixed32" -> IF w.ok THEN pb_write(w, FixedBytes(v, Bits32 \div ByteBits)) ELSE w
      [] f.ltype = "fixed64" -> IF w.ok THEN pb_write(w, FixedBytes(v, Bits64 \div ByteBits)) ELSE w
      [] f.ltype = "string" -> pb_encode_string(w, UpToNul(v))
      [] f.ltype = "bytes" -> IF Len(v) > f.size THEN Fail(w) ELSE pb_encode_string(w, v)
      [] f.ltype = "fixed_length_bytes" -> pb_encode_string(w, v)

RECURSIVE EncodeFields(_, _, _)

pb_encode(w, fields, msg) == EncodeFields(w, fields, msg)

\* Mutant: the size of a submessage is counted without its last field.
SizeWithoutLast(fields, msg) ==
    EncodeFields(PB_OSTREAM_SIZING, IF fields = <<>> THEN fields ELSE Front(fields), msg)

SizedSubmessage(fields, msg) == EncodeFields(PB_OSTREAM_SIZING, fields, msg)

\* The submessage is counted first and written through a stream of that size.
pb_encode_submessage(w, fields, msg) ==
    LET sized == SizedSubmessage(fields, msg)
        n == pb_encode_varint(w, sized.written)
        sub == EncodeFields(pb_ostream_from_buffer(sized.written), fields, msg)
        done == [n EXCEPT !.written = @ + sub.written, !.out = @ \o sub.out]
    IN  IF ~w.ok \/ ~sized.ok THEN Fail(w)
        ELSE IF ~n.ok THEN n
        ELSE IF n.null THEN Count(n, sized.written)
        ELSE IF n.written + sized.written > n.max THEN Fail(n)
        ELSE IF sub.ok /\ sub.written = sized.written THEN done ELSE Fail(done)

FieldEncoder(w, f, v) ==
    IF ~w.ok THEN w ELSE IF f.ltype = "submessage" THEN pb_encode_submessage(w, f.fields, v) ELSE pb_enc_value(w, f, v)

EncodeItems(w, f, items) == FoldLeft(LAMBDA n, v : FieldEncoder(n, f, v), w, items)

\* The size of a packed array; numbers of a fixed width are not counted one by one.
PackedSize(f, items) ==
    CASE f.ltype = "fixed32" -> (Bits32 \div ByteBits) * Len(items)
      [] f.ltype = "fixed64" -> (Bits64 \div ByteBits) * Len(items)
      [] OTHER -> EncodeItems(PB_OSTREAM_SIZING, f, items).written

encode_array(w, f, items) ==
    LET sized == pb_encode_varint(pb_encode_tag(w, WT_STRING, f.tag), PackedSize(f, items))
    IN  IF items = <<>> THEN w
        ELSE IF Len(items) > f.array THEN Fail(w)
        ELSE IF ~Packable(f)
        THEN FoldLeft(LAMBDA n, v : FieldEncoder(pb_encode_tag_for_field(n, f), f, v), w, items)
        ELSE IF sized.ok /\ sized.null THEN Count(sized, PackedSize(f, items))
        ELSE EncodeItems(sized, f, items)

\* A field without has_ is left out when it has its default value; where it is
\* a submessage, its own fields are taken to be without has_ as well.
RECURSIVE pb_check_proto3_default_value(_, _)
pb_check_proto3_default_value(f, v) ==
    CASE f.ltype \in {"bytes", "string"} -> v = <<>> \/ (f.ltype = "string" /\ v[1] = 0)
      [] f.ltype = "fixed_length_bytes" -> f.size = 0
      [] f.ltype = "submessage" ->
            \A i \in DOMAIN f.fields : pb_check_proto3_default_value(f.fields[i], v[f.fields[i].slot].v)
      [] OTHER -> v = 0

encode_basic_field(w, f, cell) ==
    LET one == FieldEncoder(pb_encode_tag_for_field(w, f), f, cell.v)
        present == CASE f.htype = "required" -> TRUE
                     [] f.htype = "oneof" -> cell.n = f.tag
                     [] f.has = "has_" -> cell.n = 1
                     [] OTHER -> ~pb_check_proto3_default_value(f, cell.v)
    IN  IF f.htype = "repeated" THEN encode_array(w, f, cell.v) ELSE IF present THEN one ELSE w

\* The callback of the application: a field for every number it has.
encode_callback_field(w, f, cell) ==
    FoldLeft(LAMBDA n, v : pb_encode_varint(pb_encode_tag(n, WT_VARINT, f.tag), v), w, cell.v)

encode_field(w, f, cell) ==
    IF ~w.ok THEN w
    ELSE IF f.atype = "callback" THEN encode_callback_field(w, f, cell) ELSE encode_basic_field(w, f, cell)

EncodeFields(w, fields, msg) ==
    LET all == Structure(fields) IN FoldLeft(LAMBDA n, f : encode_field(n, f, msg[f.slot]), w, all)

pb_get_encoded_size(fields, msg) == EncodeFields(PB_OSTREAM_SIZING, fields, msg).written

-----------------------------------------------------------------------------
(* A message on its way: written, perhaps behind another one, cut short or *)
(* damaged, and read by a program with the same fields or with fewer.      *)

CONSTANTS
    Schemas,                    \* sequences of fields, by name
    Messages(_),                \* structures with these fields
    Bytes                       \* what a damaged byte turns into

VARIABLES
    schema,
    known,                      \* as many of its fields does a reader know
    wire,
    meant,                      \* the message a reader should see
    how                         \* "new", "written", "joined", "cut" or "damaged"

vars == <<schema, known, wire, meant, how>>

fields == SubSeq(Schemas[schema], 1, known)

Written(msg) == pb_encode(pb_ostream_from_buffer(100), fields, msg).out
Got == pb_decode(pb_istream_from_buffer(wire), fields)

Init ==
    /\ schema \in {s \in DOMAIN Schemas : ShiftIsDefined(Schemas[s])}
    /\ known = Len(Schemas[schema])
    /\ meant \in Messages(schema)
    /\ wire = <<>>
    /\ how = "new"

FieldAt(all, slot, n) ==
    LET candidates == SelectSeq(all, LAMBDA f : f.slot = slot /\ (f.htype = "oneof" /\ n # 0 => f.tag = n))
    IN  candidates[1]

\* What a reader sees of a message.
RECURSIVE Sent(_, _)
SentValue(f, v) ==
    CASE f.ltype = "submessage" -> Sent(f.fields, v)
      [] f.ltype = "string" -> UpToNul(v)
      [] OTHER -> v
SentCell(f, cell) ==
    CASE f.atype = "callback" -> cell
      [] f.htype = "repeated" -> NewCell(Len(cell.v), [i \in DOMAIN cell.v |-> SentValue(f, cell.v[i])])
      [] f.htype = "required" \/ (f.htype = "oneof" /\ cell.n # 0) -> NewCell(cell.n, SentValue(f, cell.v))
      [] f.has = "has_" /\ cell.n = 1 -> NewCell(1, SentValue(f, cell.v))
      [] f.has \in {"none", "found"} /\ ~pb_check_proto3_default_value(f, cell.v) ->
            NewCell(IF f.has = "found" THEN 1 ELSE 0, SentValue(f, cell.v))
      [] OTHER -> pb_field_set_to_default(f)
Sent(all, msg) == [slot \in DOMAIN msg |-> SentCell(FieldAt(Structure(all), slot, msg[slot].n), msg[slot])]

\* Two messages one behind the other are one: arrays are joined, messages
\* merged, and of anything else the last one counts.
RECURSIVE Merged(_, _, _)
MergedCell(f, a, b) ==
    CASE f.htype = "repeated" \/ f.atype = "callback" -> NewCell(a.n + b.n, a.v \o b.v)
      [] f.htype = "oneof" -> IF b.n # 0 THEN b ELSE a
      [] f.ltype = "submessage" /\ (f.has # "has_" \/ b.n = 1) -> NewCell(b.n, Merged(f.fields, a.v, b.v))
      [] OTHER -> IF f.htype = "required" \/ b # pb_field_set_to_default(f) THEN b ELSE a
Merged(all, a, b) ==
    [slot \in DOMAIN a |-> MergedCell(FieldAt(Structure(all), slot, b[slot].n), a[slot], b[slot])]

RECURSIVE HasRoom(_, _)
HasRoom(all, msg) ==
    \A slot \in DOMAIN msg :
        LET f == FieldAt(Structure(all), slot, msg[slot].n)
        IN  /\ f.htype = "repeated" => msg[slot].n <= f.array
            /\ f.ltype = "submessage" /\ f.htype = "optional" => HasRoom(f.fields, msg[slot].v)

Encode ==
    /\ how = "new"
    /\ how' = "written"
    /\ wire' = Written(meant)
    /\ meant' = Sent(fields, meant)
    /\ UNCHANGED <<schema, known>>

\* The writer goes on with another message.
Join(msg) ==
    /\ how = "written"
    /\ how' = "joined"
    /\ wire' = wire \o Written(msg)
    /\ meant' = Merged(fields, meant, Sent(fields, msg))
    /\ UNCHANGED <<schema, known>>

\* The reader does not know the last field yet.
Forget ==
    LET left == Structure(Front(fields))
    IN  /\ how = "written"
        /\ known > 1
        /\ known' = known - 1
        /\ how' = "joined"
        /\ meant' = [slot \in {left[i].slot : i \in DOMAIN left} |-> meant[slot]]
        /\ UNCHANGED <<schema, wire>>

Cut(n) == how = "written" /\ how' = "cut" /\ wire' = SubSeq(wire, 1, n) /\ UNCHANGED <<schema, known, meant>>

Damage(i, b) == how = "written" /\ how' = "damaged" /\ wire' = [wire EXCEPT ![i] = b] /\ UNCHANGED <<schema, known, meant>>

Next ==
    \/ Encode
    \/ \E msg \in Messages(schema) : Join(msg)
    \/ Forget
    \/ \E n \in 0..(Len(wire) - 1) : Cut(n)
    \/ \E i \in DOMAIN wire, b \in Bytes : Damage(i, b)

Spec == Init /\ [][Next]_vars

\* A message arrives as it was meant, also behind another one and at a reader
\* that knows fewer fields; if its arrays have no room the reader says so.
ArrivesAsMeant ==
    how \in {"written", "joined"} =>
        IF HasRoom(fields, meant) THEN Got.ok /\ Got.v = meant /\ Got.left = 0 ELSE ~Got.ok

\* The size asked for beforehand is the size that is written: a buffer of it
\* is enough, and with one byte less the writer says so.
SizeIsExact ==
    LET size == pb_get_encoded_size(fields, meant)
        Into(n) == pb_encode(pb_ostream_from_buffer(n), fields, meant)
    IN  how = "new" =>
            /\ Into(size).ok /\ Len(Into(size).out) = size
            /\ size > 0 => ~Into(size - 1).ok

\* The fields of a message end here.
RECURSIVE Ends(_)
Ends(s) ==
    LET t == pb_decode_tag(s)
        n == pb_skip_field(t.s, t.wire_type)
    IN  {s.at} \cup (IF s.left = 0 \/ ~t.s.ok \/ ~n.ok THEN {} ELSE Ends(n))

\* A message that is cut short is read as the fields that are whole, and an
\* end inside a field, behind its tag, is noticed.
CutIsNoticed ==
    LET ends == Ends(pb_istream_from_buffer(wire))
        last == CHOOSE n \in ends : \A k \in ends : k <= n
        whole == pb_decode(pb_istream_from_buffer(SubSeq(wire, 1, last)), fields)
    IN  how = "cut" /\ Got.ok => whole.ok /\ Got.v = whole.v

\* Whatever is read of a damaged message can be written and read again.
DamageStaysInside ==
    how = "damaged" /\ Got.ok =>
        /\ HasRoom(fields, Got.v)
        /\ pb_decode(pb_istream_from_buffer(Written(Got.v)), fields).v = Sent(fields, Got.v)
=============================================================================
