------------------------------ MODULE MCFrames -------------------------------
(***************************************************************************)
(* FrameCodec over small buffers, with the checksum that the code uses.    *)
(* TLC evaluates these assumptions in the runs of the modules that extend  *)
(* this one.                                                               *)
(***************************************************************************)
EXTENDS FrameChecksum, SequencesExt

Codec == INSTANCE FrameCodec WITH Crc <- CrcCcittFalse

\* tests/codec_test.c:7: the checksum of "123456789" is 0x29B1.
ASSUME ChecksumOfTheTest == CrcCcittFalse(<<49, 50, 51, 52, 53, 54, 55, 56, 57>>) = 10673

\* The loops of io.c compute the remainder of a division, which is a word.
ASSUME ChecksumIsTheRemainder ==
  \A data \in SeqOf({0, 1, 128, 255}, 3) :
    CrcCcittFalse(data) = Remainder(data) /\ CrcCcittFalse(data) \in 0..65535

Rpcs == [encoding : {1}, op : {255}, id : {65537, 16909060}, method : {0, 65535}, status : {256},
         bodyEncoding : {2}, body : {<<>>, <<65, 88, 1>>}]

SmallFrames == {Codec!EncodeFrame(2, p, id) : p \in {<<>>, <<65, 88, 1>>}, id \in {0, 258}}

ASSUME RpcsComeBack == \A rpc \in Rpcs : Codec!DecodeRpc(Codec!EncodeRpc(rpc)) = rpc

\* The first of two frames decodes as it does alone.
ASSUME FirstFrameIsTaken ==
  \A f, g \in SmallFrames :
    Codec!FrameDecodes(f \o g) /\ Codec!DecodeFrame(f \o g) = Codec!DecodeFrame(f)

\* Two frames with a bit of the first flipped: nothing decodes.
ASSUME DamageIsDetected ==
  \A f \in SmallFrames : \A i \in DOMAIN f, k \in 0..7 :
    ~Codec!FrameDecodes([f EXCEPT ![i] = IF Bit(@, k) = 1 THEN @ - 2^k ELSE @ + 2^k] \o f)
=============================================================================
