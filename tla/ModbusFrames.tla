---------------------------- MODULE ModbusFrames ----------------------------
(***************************************************************************)
(* app/engine/modbus.py: RTU frames and their CRC, Modbus/TCP frames out   *)
(* of a stream, packed coils, register values and the check of a slave's   *)
(* answer to a write.  In RTU frames and coils a byte is the set of its    *)
(* one bits; elsewhere bytes are numbers below Base, and a register holds  *)
(* two of them.                                                            *)
(***************************************************************************)
EXTENDS Integers, Sequences, SequencesExt, FiniteSets

CONSTANTS
    RtuBodies,     \* unit and PDU of the RTU frames
    MaxFlips,      \* bound: bits the line turns over
    TcpStreams,    \* streams of Modbus/TCP bytes: the frames and what follows them
    MaxPdu,        \* MAX_PDU: 253
    Base,          \* values of a byte: 256
    MaxCoils,      \* bound: coils of one write
    MfScales,      \* scales, as <<numerator, denominator>>
    MfValues,      \* values to write
    Writes         \* write requests: records

VARIABLES
    mfBody,        \* what was wrapped
    mfFrame,       \* the RTU frame as it arrives
    mfFlips,       \* bits turned over on the way
    mfTcp,         \* the stream that is sent: its frames and its bytes
    mfArrived,     \* bytes of it that have arrived
    mfBuf,         \* the gateway's buffer
    mfGot,         \* frames taken from it
    mfDropped,     \* the peer was dropped for a framing error
    mfItem         \* a value, coils or a write being converted

mfVars == <<mfBody, mfFrame, mfFlips, mfTcp, mfArrived, mfBuf, mfGot, mfDropped, mfItem>>

NoItem == [kind |-> "none"]

-----------------------------------------------------------------------------
(* RTU.                                                                    *)
Xor(a, b) == (a \ b) \cup (b \ a)

\* Variant: the low byte of the polynomial is left out.
CrcBitShort(crc) ==
    LET half == {i - 1 : i \in crc \ {0}} IN IF 0 \in crc THEN Xor(half, {15}) ELSE half
(* One shift of crc16; 0xA001 has the bits 15, 13 and 0.                   *)
CrcBit(crc) ==
    LET half == {i - 1 : i \in crc \ {0}} IN IF 0 \in crc THEN Xor(half, {15, 13, 0}) ELSE half

CrcByte(crc, byte) == FoldLeft(LAMBDA c, i : CrcBit(c), Xor(crc, byte), [i \in 1 .. 8 |-> i])
Crc16(data) == FoldLeft(CrcByte, 0 .. 15, data)

RtuWrap(body) ==
    LET crc == Crc16(body) IN body \o <<crc \cap (0 .. 7), {i - 8 : i \in crc \cap (8 .. 15)}>>

(* rtu_unwrap: unit and PDU, or <<>> for a frame that is refused.          *)
RtuUnwrap(frame) ==
    LET n    == Len(frame)
        body == SubSeq(frame, 1, n - 2)
    IN  IF n < 4 \/ Crc16(body) # frame[n - 1] \cup {i + 8 : i \in frame[n]} THEN <<>> ELSE body

MfWrap(body) ==
    /\ mfFrame = <<>> /\ mfTcp.bytes = <<>> /\ mfItem = NoItem
    /\ mfBody' = body /\ mfFrame' = RtuWrap(body)
    /\ UNCHANGED <<mfFlips, mfTcp, mfArrived, mfBuf, mfGot, mfDropped, mfItem>>

(* Noise on the line, the bits of a frame in order.                        *)
MfFlip(i, bit) ==
    /\ Cardinality(mfFlips) < MaxFlips /\ \A f \in mfFlips : 8 * f[1] + f[2] < 8 * i + bit
    /\ mfFlips' = mfFlips \cup {<<i, bit>>}
    /\ mfFrame' = [mfFrame EXCEPT ![i] = Xor(@, {bit})]
    /\ UNCHANGED <<mfBody, mfTcp, mfArrived, mfBuf, mfGot, mfDropped, mfItem>>

-----------------------------------------------------------------------------
(* Modbus/TCP.                                                             *)
Word(hi, lo) == hi * Base + lo
Bytes(n)     == <<(n \div Base) % Base, n % Base>>

(* build_tcp_adu.                                                          *)
BuildTcpAdu(f) == Bytes(f.txn) \o <<0, 0>> \o Bytes(Len(f.pdu) + 1) \o <<f.unit>> \o f.pdu

(* take_tcp_adu: a frame and the rest, "wait" or "bad".                    *)
TakeTcpAdu(buf) ==
    LET length == Word(buf[5], buf[6])
        total  == 7 + (length - 1)
    IN  IF Len(buf) < 7 THEN [is |-> "wait"]
        ELSE IF Word(buf[3], buf[4]) # 0 \/ length \notin 1 .. MaxPdu + 1 THEN [is |-> "bad"]
        ELSE IF Len(buf) < total THEN [is |-> "wait"]
        ELSE [is |-> "frame", rest |-> SubSeq(buf, total + 1, Len(buf)),
              f |-> [txn |-> Word(buf[1], buf[2]), unit |-> buf[7], pdu |-> SubSeq(buf, 8, total)]]

RECURSIVE TakeAll(_, _)
(* The loop of the gateway's client handler around take_tcp_adu.           *)
TakeAll(buf, got) ==
    LET t == TakeTcpAdu(buf)
    IN  IF t.is = "frame" THEN TakeAll(t.rest, Append(got, t.f))
        ELSE [buf |-> buf, got |-> got, bad |-> t.is = "bad"]

MfSend(s) ==
    /\ mfTcp.bytes = <<>> /\ mfFrame = <<>> /\ mfItem = NoItem
    /\ mfTcp' = [frames |-> s.frames, junk |-> s.junk # <<>>,
                 bytes  |-> FlattenSeq([i \in DOMAIN s.frames |-> BuildTcpAdu(s.frames[i])]) \o s.junk]
    /\ UNCHANGED <<mfBody, mfFrame, mfFlips, mfArrived, mfBuf, mfGot, mfDropped, mfItem>>

MfReceive(n) ==
    /\ ~mfDropped /\ mfArrived + n <= Len(mfTcp.bytes)
    /\ LET r == TakeAll(mfBuf \o SubSeq(mfTcp.bytes, mfArrived + 1, mfArrived + n), mfGot)
       IN  mfBuf' = r.buf /\ mfGot' = r.got /\ mfDropped' = r.bad
    /\ mfArrived' = mfArrived + n
    /\ UNCHANGED <<mfBody, mfFrame, mfFlips, mfTcp, mfItem>>

-----------------------------------------------------------------------------
(* Values and coils.                                                       *)
Registers(dtype) == IF dtype \in {"uint16", "int16"} THEN 1 ELSE 2
Width(dtype)     == Base ^ (2 * Registers(dtype))
Lowest(dtype)    == IF dtype \in {"int16", "int32"} THEN -(Width(dtype) \div 2) ELSE 0

(* round(): to the nearest, ties to even.                                  *)
Round(num, den) ==
    LET q == num \div den  r == num % den
    IN  IF 2 * r > den \/ (2 * r = den /\ q % 2 = 1) THEN q + 1 ELSE q

(* encode_value for integers: the registers, or <<>> when out of range.    *)
EncodeValue(value, dtype, scale) ==
    LET raw == Round(value * scale[2], scale[1])
        n   == raw % Width(dtype)
        reg == Base * Base
    IN  IF raw < Lowest(dtype) \/ raw >= Lowest(dtype) + Width(dtype) THEN <<>>
        ELSE IF Registers(dtype) = 1 THEN <<n>> ELSE <<n \div reg, n % reg>>

(* decode_value, before it is multiplied by the scale.                     *)
DecodeValue(regs, dtype) ==
    LET n == IF Registers(dtype) = 1 THEN regs[1] ELSE regs[1] * Base * Base + regs[2]
    IN  IF n >= Lowest(dtype) + Width(dtype) THEN n - Width(dtype) ELSE n

(* write_multiple_coils_pdu packs, decode_bits unpacks.                    *)
PackCoils(states) ==
    [b \in 1 .. (Len(states) + 7) \div 8 |-> {i \in 0 .. 7 : 8 * (b - 1) + i + 1 \in DOMAIN states
                                                               /\ states[8 * (b - 1) + i + 1]}]
DecodeBits(data, count) == [i \in 1 .. count |-> (i - 1) % 8 \in data[(i - 1) \div 8 + 1]]

(* The write PDUs: function, address, then the value or the quantity.      *)
WriteSingle(w) == <<w.fc>> \o Bytes(w.addr) \o Bytes(w.data[1])
WriteRegisters(w) ==
    <<w.fc>> \o Bytes(w.addr) \o Bytes(Len(w.data)) \o <<2 * Len(w.data)>>
      \o FlattenSeq([i \in DOMAIN w.data |-> Bytes(w.data[i])])
WritePdu(w) == IF w.fc \in {5, 6} THEN WriteSingle(w) ELSE WriteRegisters(w)

(* What a slave answers: the request, its first five bytes, or an error.   *)
Echo(w) == IF w.fc \in {5, 6} THEN WritePdu(w) ELSE SubSeq(WritePdu(w), 1, 5)
Exception(w) == <<128 + w.fc, 2>>

(* check_write_response.                                                   *)
CheckWriteResponse(pdu, w) ==
    LET request == WritePdu(w)
    IN  /\ pdu # <<>> /\ pdu[1] = request[1]
        /\ pdu = IF w.fc \in {5, 6} THEN request ELSE SubSeq(request, 1, 5)

MfConvert(item) ==
    /\ mfItem = NoItem /\ mfFrame = <<>> /\ mfTcp.bytes = <<>> /\ mfItem' = item
    /\ UNCHANGED <<mfBody, mfFrame, mfFlips, mfTcp, mfArrived, mfBuf, mfGot, mfDropped>>

-----------------------------------------------------------------------------
MfInit ==
    /\ mfBody = <<>> /\ mfFrame = <<>> /\ mfFlips = {}
    /\ mfTcp = [frames |-> <<>>, junk |-> FALSE, bytes |-> <<>>]
    /\ mfArrived = 0 /\ mfBuf = <<>> /\ mfGot = <<>> /\ mfDropped = FALSE /\ mfItem = NoItem

MfNext ==
    \/ \E body \in RtuBodies : MfWrap(body)
    \/ \E i \in DOMAIN mfFrame, bit \in 0 .. 7 : MfFlip(i, bit)
    \/ \E s \in TcpStreams : MfSend(s)
    \/ \E n \in 1 .. 4 : MfReceive(n)
    \/ \E v \in MfValues, d \in {"uint16", "int16", "uint32", "int32"}, s \in MfScales :
         MfConvert([kind |-> "value", value |-> v, dtype |-> d, scale |-> s])
    \/ \E n \in 1 .. MaxCoils : \E c \in [1 .. n -> BOOLEAN] : MfConvert([kind |-> "coils", states |-> c])
    \/ \E w, o \in Writes : MfConvert([kind |-> "write", w |-> w, other |-> o])

-----------------------------------------------------------------------------
(* Properties.                                                             *)

(* An RTU frame is accepted as it was sent and with no one, two or three of*)
(* its bits turned over.                                                   *)
RtuExact ==
    mfFrame # <<>> => RtuUnwrap(mfFrame) = IF mfFlips = {} THEN mfBody ELSE <<>>

(* However the stream is cut, the frames taken are those sent, in order,   *)
(* all of them once the bytes have arrived; the peer is dropped only for   *)
(* bytes that begin no frame.                                              *)
TcpExact ==
    /\ IsPrefix(mfGot, mfTcp.frames)
    /\ mfDropped => mfTcp.junk
    /\ mfArrived = Len(mfTcp.bytes) => mfGot = mfTcp.frames

(* A value that is written reads back as the nearest one the registers can *)
(* hold, and is refused exactly when it does not fit; coils come back as   *)
(* they were; the answer to another write is not taken for this one's.     *)
ValuesExact ==
    CASE mfItem.kind = "value" ->
           LET s == mfItem.scale
               r == EncodeValue(mfItem.value, mfItem.dtype, s)
               Off(raw) == LET d == raw * s[1] - mfItem.value * s[2] IN IF d < 0 THEN -d ELSE d
           IN  IF r # <<>> THEN 2 * Off(DecodeValue(r, mfItem.dtype)) <= s[1]
               ELSE \A raw \in {Lowest(mfItem.dtype), Lowest(mfItem.dtype) + Width(mfItem.dtype) - 1} :
                      2 * Off(raw) >= s[1]
      [] mfItem.kind = "coils" -> DecodeBits(PackCoils(mfItem.states), Len(mfItem.states)) = mfItem.states
      [] mfItem.kind = "write" ->
           /\ CheckWriteResponse(Echo(mfItem.w), mfItem.w) /\ ~CheckWriteResponse(Exception(mfItem.w), mfItem.w)
           /\ CheckWriteResponse(Echo(mfItem.other), mfItem.w) =>
                /\ mfItem.other.fc = mfItem.w.fc /\ mfItem.other.addr = mfItem.w.addr
                /\ mfItem.w.fc \in {5, 6} => mfItem.other.data = mfItem.w.data
      [] OTHER -> TRUE

(* Frames, streams of frames and register values together.                 *)
FramesExact == RtuExact /\ TcpExact /\ ValuesExact

=============================================================================
