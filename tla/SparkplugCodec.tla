-------------------------- MODULE SparkplugCodec --------------------------
(***************************************************************************)
(* The protobuf codec of app/engine/sparkplug.py.  Widths are scaled: a    *)
(* byte carries Group values (128 in the code) and a continuation mark.    *)
(* Every value is a sequence: an integer has one element, a text or a      *)
(* float its bytes; <<>> stands for None.                                  *)
(***************************************************************************)
EXTENDS Integers, Sequences, SequencesExt

CONSTANTS
    Group,         \* values a byte of a varint carries: 128
    Groups,        \* bytes of the longest varint: 10
    IntBits,       \* width of int_value: 32
    LongBits,      \* width of long_value: 64
    SmallBits,     \* width of the 8-bit types and of seq: 8
    MaxField,      \* _MAX_FIELD
    FloatSize,     \* bytes of a float: 4
    DoubleSize,    \* bytes of a double: 8
    NotUtf8,       \* bytes that are no UTF-8
    Payloads,      \* the payloads that are encoded
    Strangers,     \* encoded fields that this codec does not know
    Foreign        \* integers another encoder sends: datatype, value and form

VARIABLES
    pcPayload,     \* what was encoded, as encode_payload got it
    pcTyped,       \* include_datatype
    pcExtra,       \* a stranger at the end of every metric
    pcParts,       \* the encoded fields of the message
    pcCut,         \* bytes lost at its end
    pcRead,        \* what decode_payload makes of it
    pcForeign      \* an integer from another encoder

pcVars == <<pcPayload, pcTyped, pcExtra, pcParts, pcCut, pcRead, pcForeign>>

NoPayload == [timestamp |-> <<>>, metrics |-> <<>>, seq |-> <<>>, uuid |-> <<>>, body |-> <<>>]
NoMetric ==
    [name |-> <<>>, alias |-> <<>>, timestamp |-> <<>>, datatype |-> 0, null |-> FALSE, value |-> <<>>]

(* _INT_TYPES and _VALUE_FIELDS, for one type of each width: Int8, Int32,  *)
(* Int64, UInt8, UInt32, UInt64, Float, Double, Boolean, String, Bytes.    *)
Signed(d)  == d \in {1, 3, 4}
Bits(d)    == IF d \in {1, 5} THEN SmallBits ELSE IF d \in {3, 7} THEN IntBits ELSE LongBits
IsInt(d)   == d \in {1, 3, 4, 5, 7, 8}
ValueFields(d) ==
    CASE d \in {1, 3, 5, 7} -> <<10, 11>>
      [] d \in {4, 8}       -> <<11, 10>>
      [] d = 9              -> <<12, 13>>
      [] d = 10             -> <<13, 12>>
      [] d = 11             -> <<14>>
      [] d = 12             -> <<15>>
      [] d = 17             -> <<16>>
      [] OTHER              -> <<>>

-----------------------------------------------------------------------------
(* Varints, keys and fields.                                               *)
RECURSIVE Varint(_), ReadFrom(_, _, _), SkipGroup(_, _, _), FieldsFrom(_, _)

Varint(n) == IF n < Group THEN <<n>> ELSE <<Group + (n % Group)>> \o Varint(n \div Group)

(* _read_varint; position 0 is an error.                                   *)
ReadFrom(data, pos, k) ==
    IF k = Groups \/ pos > Len(data) THEN [value |-> 0, pos |-> 0]
    ELSE IF data[pos] < Group THEN [value |-> data[pos], pos |-> pos + 1]
    ELSE LET r == ReadFrom(data, pos + 1, k + 1)
         IN  [r EXCEPT !.value = (data[pos] % Group) + Group * @]
ReadVarint(data, pos) ==
    LET r == ReadFrom(data, pos, 0) IN [r EXCEPT !.value = @ % 2 ^ LongBits]

Key(number, wire)         == Varint(8 * number + wire)
FieldVarint(number, n)    == Key(number, 0) \o Varint(n)
FieldLen(number, bytes)   == Key(number, 2) \o Varint(Len(bytes)) \o bytes

ReadKey(data, pos) ==
    LET r == ReadVarint(data, pos)
        n == r.value \div 8
    IN  [number |-> n, wire |-> r.value % 8, pos |-> IF n \in 1 .. MaxField THEN r.pos ELSE 0]

(* _value_span: start and end of a value, 0 for an error.                  *)
SpanOf(data, pos, wire, r) ==
    LET start == IF wire = 2 THEN r.pos ELSE pos
        size  == CASE wire = 0 -> r.pos - pos [] wire = 1 -> DoubleSize [] wire = 5 -> FloatSize
                   [] wire = 2 -> r.value [] OTHER -> 0
        bad   == wire \notin {0, 1, 2, 5} \/ (wire \in {0, 2} /\ r.pos = 0) \/ size > Len(data) + 1 - start
    IN  [start |-> start, end |-> IF bad THEN 0 ELSE start + size, varint |-> r.value]
ValueSpan(data, pos, wire) == SpanOf(data, pos, wire, ReadVarint(data, pos))

(* _skip_group: the position after the matching end-group.                 *)
SkipFrom(data, k, open) ==
    CASE k.pos = 0  -> 0
      [] k.wire = 3 -> SkipGroup(data, k.pos, Append(open, k.number))
      [] k.wire = 4 -> IF Last(open) = k.number THEN SkipGroup(data, k.pos, Front(open)) ELSE 0
      [] OTHER      -> SkipGroup(data, ValueSpan(data, k.pos, k.wire).end, open)
SkipGroup(data, pos, open) ==
    IF open = <<>> \/ pos = 0 THEN pos ELSE SkipFrom(data, ReadKey(data, pos), open)

(* _fields: what the message holds, groups left out; ok is FALSE when it is*)
(* malformed.                                                              *)
Malformed == [ok |-> FALSE, fs |-> <<>>]
FieldThen(data, k, span) ==
    IF span.end = 0 THEN Malformed
    ELSE [FieldsFrom(data, span.end) EXCEPT !.fs =
            <<[number |-> k.number, wire |-> k.wire,
               v |-> IF k.wire = 0 THEN <<span.varint>> ELSE SubSeq(data, span.start, span.end - 1)]>> \o @]
FieldAt(data, k) ==
    IF k.pos = 0 THEN Malformed
    ELSE IF k.wire = 3 THEN FieldsFrom(data, SkipGroup(data, k.pos, <<k.number>>))
    ELSE FieldThen(data, k, ValueSpan(data, k.pos, k.wire))
FieldsFrom(data, pos) ==
    IF pos = Len(data) + 1 THEN [ok |-> TRUE, fs |-> <<>>]
    ELSE IF pos = 0 THEN Malformed ELSE FieldAt(data, ReadKey(data, pos))
Fields(data) == FieldsFrom(data, 1)

-----------------------------------------------------------------------------
(* Encoding.                                                               *)
LeastOf(d) == IF Signed(d) THEN -(2 ^ (Bits(d) - 1)) ELSE 0
InRange(d, n) == n >= LeastOf(d) /\ n < LeastOf(d) + 2 ^ Bits(d)

(* A negative value is the two's complement of the whole field.            *)
Wire(d, v) ==
    IF IsInt(d) THEN <<v[1] % 2 ^ (IF ValueFields(d)[1] = 10 THEN IntBits ELSE LongBits)>> ELSE v

EncodeValueField(d, v) ==
    LET number == ValueFields(d)[1]
    IN  CASE number \in {10, 11, 14} -> FieldVarint(number, Wire(d, v)[1])
          [] number = 12             -> Key(number, 5) \o v
          [] number = 13             -> Key(number, 1) \o v
          [] OTHER                   -> FieldLen(number, v)

Optional(number, v) == IF v = <<>> THEN <<>> ELSE FieldVarint(number, v[1])

EncodeMetric(m, typed) ==
    (IF m.name = <<>> THEN <<>> ELSE FieldLen(1, m.name))
      \o Optional(2, m.alias) \o Optional(3, m.timestamp)
      \o (IF m.datatype # 0 /\ typed THEN FieldVarint(4, m.datatype) ELSE <<>>)
      \o (IF m.null THEN FieldVarint(7, 1) ELSE EncodeValueField(m.datatype, m.value))

(* Encoding raises ValueError for everything else.                         *)
Uint(v, bits) == v # <<>> => v[1] \in 0 .. 2 ^ bits - 1
Text(v) == \A i \in DOMAIN v : v[i] \notin NotUtf8
GoodValue(d, v) ==
    /\ d # 0 /\ v # <<>>
    /\ IsInt(d) => InRange(d, v[1])
    /\ d = 11 => v[1] \in {0, 1}
    /\ d = 12 => Text(v)
GoodMetric(m) ==
    /\ Text(m.name) /\ Uint(m.alias, LongBits) /\ Uint(m.timestamp, LongBits)
    /\ m.datatype # 0 => ValueFields(m.datatype) # <<>>
    /\ ~m.null => GoodValue(m.datatype, m.value)
Encodable(p) ==
    /\ Uint(p.timestamp, LongBits) /\ Uint(p.seq, SmallBits) /\ Text(p.uuid)
    /\ \A i \in DOMAIN p.metrics : GoodMetric(p.metrics[i])

EncodePayload(p, typed, extra) ==
    SelectSeq(<<Optional(1, p.timestamp)>>
                \o [i \in DOMAIN p.metrics |-> FieldLen(2, EncodeMetric(p.metrics[i], typed) \o extra)]
                \o <<Optional(3, p.seq), IF p.uuid = <<>> THEN <<>> ELSE FieldLen(4, p.uuid),
                     IF p.body = <<>> THEN <<>> ELSE FieldLen(5, p.body)>>,
              LAMBDA part : part # <<>>)

-----------------------------------------------------------------------------
(* Decoding; ok is FALSE where the code raises ValueError.                 *)
SignedValue(raw, bits) == IF raw >= 2 ^ (bits - 1) THEN raw - 2 ^ bits ELSE raw

(* _int_from_wire: sign-extended across the field, or the narrow form.     *)
IntFromWire(raw, width, d) ==
    LET wide == IF Signed(d) THEN SignedValue(raw, width) ELSE raw
    IN  IF InRange(d, wide) THEN [ok |-> TRUE, n |-> wide]
        ELSE IF Signed(d) /\ Bits(d) < width /\ raw < 2 ^ Bits(d)
             THEN [ok |-> TRUE, n |-> SignedValue(raw, Bits(d))]
        ELSE [ok |-> FALSE, n |-> 0]

DecodeValueField(d, number, wire) ==
    IF ValueFields(d) = <<>> THEN [ok |-> TRUE, v |-> wire]
    ELSE IF ~Contains(ValueFields(d), number) THEN [ok |-> FALSE, v |-> <<>>]
    ELSE IF ~IsInt(d) THEN [ok |-> TRUE, v |-> wire]
    ELSE LET r == IntFromWire(wire[1], IF number = 10 THEN IntBits ELSE LongBits, d)
         IN  [ok |-> r.ok, v |-> <<r.n>>]

(* One field of a metric in _decode_metric.                                *)
MetricField(acc, f) ==
    LET Set(m)   == [acc EXCEPT !.m = m]
        Val(v)   == [acc EXCEPT !.number = f.number, !.raw = v]
    IN  CASE f.wire = 0 /\ f.number = 2  -> Set([acc.m EXCEPT !.alias = f.v])
          [] f.wire = 0 /\ f.number = 3  -> Set([acc.m EXCEPT !.timestamp = f.v])
          [] f.wire = 0 /\ f.number = 4  -> Set([acc.m EXCEPT !.datatype = f.v[1] % 2 ^ IntBits])
          [] f.wire = 0 /\ f.number = 7  -> Set([acc.m EXCEPT !.null = f.v[1] # 0])
          [] f.wire = 0 /\ f.number = 10 -> Val(<<f.v[1] % 2 ^ IntBits>>)
          [] f.wire = 0 /\ f.number = 11 -> Val(f.v)
          [] f.wire = 0 /\ f.number = 14 -> Val(<<IF f.v[1] # 0 THEN 1 ELSE 0>>)
          [] f.wire = 2 /\ f.number = 1  -> [Set([acc.m EXCEPT !.name = f.v]) EXCEPT !.ok = @ /\ Text(f.v)]
          [] f.wire = 2 /\ f.number = 15 -> [Val(f.v) EXCEPT !.ok = @ /\ Text(f.v)]
          [] f.wire = 2 /\ f.number = 16 -> Val(f.v)
          [] f.wire = 5 /\ f.number = 12 -> Val(f.v)
          [] f.wire = 1 /\ f.number = 13 -> Val(f.v)
          [] OTHER                       -> acc

WithValue(acc, r) == [ok |-> acc.ok /\ r.ok, m |-> [acc.m EXCEPT !.value = r.v]]
MetricOf(acc) ==
    IF acc.number = 0 \/ acc.m.null THEN [ok |-> acc.ok, m |-> acc.m]
    ELSE WithValue(acc, DecodeValueField(acc.m.datatype, acc.number, acc.raw))
MetricFrom(f) ==
    MetricOf(FoldLeft(MetricField, [ok |-> f.ok, m |-> NoMetric, number |-> 0, raw |-> <<>>], f.fs))
DecodeMetric(data) == MetricFrom(Fields(data))

AddMetric(acc, d) == [acc EXCEPT !.ok = @ /\ d.ok, !.p.metrics = Append(@, d.m)]
PayloadField(acc, f) ==
    CASE f.wire = 0 /\ f.number = 1 -> [acc EXCEPT !.p.timestamp = f.v]
      [] f.wire = 0 /\ f.number = 3 -> [acc EXCEPT !.p.seq = f.v]
      [] f.wire = 2 /\ f.number = 2 -> AddMetric(acc, DecodeMetric(f.v))
      [] f.wire = 2 /\ f.number = 4 -> [acc EXCEPT !.ok = @ /\ Text(f.v), !.p.uuid = f.v]
      [] f.wire = 2 /\ f.number = 5 -> [acc EXCEPT !.p.body = f.v]
      [] OTHER                      -> acc

PayloadFrom(f) == FoldLeft(PayloadField, [ok |-> f.ok, p |-> NoPayload], f.fs)
DecodePayload(data) == PayloadFrom(Fields(data))

-----------------------------------------------------------------------------
(* The message arrives without its last bytes.                             *)
Receive(parts, cut) ==
    LET all == FlattenSeq(parts)
    IN  /\ pcParts' = parts /\ pcCut' = cut
        /\ pcRead' = DecodePayload(SubSeq(all, 1, Len(all) - cut))

PcEncode(p, typed, extra) ==
    /\ pcParts = <<>> /\ pcForeign = <<>> /\ Encodable(p)
    /\ pcPayload' = p /\ pcTyped' = typed /\ pcExtra' = extra
    /\ Receive(EncodePayload(p, typed, extra), 0) /\ UNCHANGED pcForeign

Untouched == pcCut = 0 /\ pcExtra = <<>> /\ \A j \in DOMAIN pcParts : pcParts[j] \notin Strangers

(* A newer encoder adds a field of its own.                                *)
PcInsert(i, s) ==
    /\ Untouched /\ Receive(InsertAt(pcParts, i, s), 0)
    /\ UNCHANGED <<pcPayload, pcTyped, pcExtra, pcForeign>>

(* The message is cut short.                                               *)
PcCut(n) ==
    /\ Untouched /\ Receive(pcParts, n)
    /\ UNCHANGED <<pcPayload, pcTyped, pcExtra, pcForeign>>

PcForeign(f) ==
    /\ pcForeign = <<>> /\ pcParts = <<>>
    /\ pcForeign' = <<f>> /\ UNCHANGED <<pcPayload, pcTyped, pcExtra, pcParts, pcCut, pcRead>>

PcInit ==
    /\ pcPayload = NoPayload /\ pcTyped = TRUE /\ pcExtra = <<>>
    /\ pcParts = <<>> /\ pcCut = 0 /\ pcForeign = <<>> /\ pcRead = [ok |-> TRUE, p |-> NoPayload]

PcNext ==
    \/ \E p \in Payloads, t \in BOOLEAN, x \in Strangers \cup {<<>>} : PcEncode(p, t, x)
    \/ \E i \in 1 .. Len(pcParts) + 1, s \in Strangers : pcParts # <<>> /\ PcInsert(i, s)
    \/ \E n \in 1 .. Len(FlattenSeq(pcParts)) : PcCut(n)
    \/ \E f \in Foreign : PcForeign(f)

-----------------------------------------------------------------------------
(* Properties.                                                             *)

(* A metric as it is read back: without its datatype the value stays as it *)
(* was on the wire.                                                        *)
AsRead(m) ==
    LET v == IF m.null THEN <<>> ELSE IF pcTyped THEN m.value ELSE Wire(m.datatype, m.value)
    IN  [m EXCEPT !.value = v, !.datatype = IF pcTyped THEN @ ELSE 0]
Expected == [pcPayload EXCEPT !.metrics = [i \in DOMAIN @ |-> AsRead(@[i])]]

(* What is encoded is read back, whatever unknown fields a newer encoder   *)
(* put in between; of a message that is cut short nothing is read that was *)
(* not sent; and an integer another encoder put into the other field or in *)
(* its narrow form has its value.                                          *)
PayloadExact ==
    /\ pcParts # <<>> /\ pcCut = 0 => pcRead.ok /\ pcRead.p = Expected
    /\ pcCut > 0 /\ pcRead.ok => /\ IsPrefix(pcRead.p.metrics, Expected.metrics)
                                 /\ pcRead.p.seq \in {<<>>, Expected.seq}
    /\ pcForeign # <<>> =>
         LET f     == pcForeign[1]
             field == IF f.form = "long" THEN 11 ELSE 10
             raw   == f.n % 2 ^ (CASE f.form = "long" -> LongBits [] f.form = "int" -> IntBits
                                   [] f.form = "narrow" -> Bits(f.d))
         IN  DecodeValueField(f.d, field, <<raw>>) = [ok |-> TRUE, v |-> <<f.n>>]

=============================================================================
