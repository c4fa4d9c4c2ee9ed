----------------------------- MODULE FrameCodec ------------------------------
(***************************************************************************)
(* What goes over the wire: RPC payloads and the frames around them        *)
(* (src/codec.c), in the byte order of src/io.c. A buffer is the sequence  *)
(* of its bytes; positions count from 0, as in the code.                   *)
(***************************************************************************)
EXTENDS Naturals, Sequences

CONSTANT Crc(_)  \* axtp_crc16_ccitt_false: the checksum of a sequence of bytes

At(data, offset) == data[offset + 1]

\* `count` bytes of a buffer, from a position on.
Part(data, offset, count) == SubSeq(data, offset + 1, offset + count)

WriteU16(v) == <<(v \div 256) % 256, v % 256>>
WriteU32(v) == <<(v \div 16777216) % 256, (v \div 65536) % 256, (v \div 256) % 256, v % 256>>

ReadU16(data, offset) == 256 * At(data, offset) + At(data, offset + 1)
ReadU32(data, offset) == 65536 * ReadU16(data, offset) + ReadU16(data, offset + 2)

-----------------------------------------------------------------------------
(* RPC payloads.                                                           *)

RpcHeaderSize == 11

RpcHeader(rpc) ==
  <<rpc.encoding, rpc.op>> \o WriteU32(rpc.id) \o WriteU16(rpc.method)
    \o WriteU16(rpc.status) \o <<rpc.bodyEncoding>>

EncodeRpc(rpc) == RpcHeader(rpc) \o rpc.body

RpcDecodes(data) == Len(data) >= RpcHeaderSize

DecodeRpc(data) ==
  [encoding |-> At(data, 0), op |-> At(data, 1), id |-> ReadU32(data, 2),
   method |-> ReadU16(data, 6), status |-> ReadU16(data, 8), bodyEncoding |-> At(data, 10),
   body |-> Part(data, RpcHeaderSize, Len(data) - RpcHeaderSize)]

-----------------------------------------------------------------------------
(* Frames. Source, destination and the place among fragments are not the   *)
(* sender's to choose.                                                     *)

HeaderSize == 12
CrcSize == 2

Encodable(payload) == Len(payload) <= 65535

\* No message has the id 0.
WireId(messageId) == IF messageId = 0 THEN 1 ELSE messageId

Header(type, length, messageId) ==
  <<65, 88, 1, type>> \o WriteU16(length) \o <<0, 0>> \o WriteU16(WireId(messageId)) \o <<0, 1>>

EncodeFrame(type, payload, messageId) ==
  LET checked == Header(type, Len(payload), messageId) \o payload
  IN checked \o WriteU16(Crc(checked))

PayloadLength(data) == ReadU16(data, 4)

\* The bytes that the checksum is of.
CheckedLength(data) == HeaderSize + PayloadLength(data)

\* A buffer decodes when it begins with a frame; what follows is not looked at.
FrameDecodes(data) ==
  /\ Len(data) >= HeaderSize + CrcSize
  /\ Part(data, 0, 3) = <<65, 88, 1>>
  /\ Len(data) >= CheckedLength(data) + CrcSize
  /\ ReadU16(data, CheckedLength(data)) = Crc(Part(data, 0, CheckedLength(data)))

DecodeFrame(data) ==
  [type |-> At(data, 3), source |-> At(data, 6), destination |-> At(data, 7),
   messageId |-> ReadU16(data, 8), index |-> At(data, 10), count |-> At(data, 11),
   payload |-> Part(data, HeaderSize, PayloadLength(data))]

=============================================================================
