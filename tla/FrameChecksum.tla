--------------------------- MODULE FrameChecksum -----------------------------
(***************************************************************************)
(* The checksum of src/io.c, bit by bit as the code computes it, and by    *)
(* its definition: the remainder of a division of polynomials.             *)
(***************************************************************************)
EXTENDS Integers, Sequences, FiniteSetsExt

Bit(v, k) == (v \div 2^k) % 2

Xor(v, w) == MapThenSumSet(LAMBDA k : IF Bit(v, k) # Bit(w, k) THEN 2^k ELSE 0, 0..15)

\* One turn of the inner loop, in sixteen bits.
Shift(crc) ==
  LET shifted == (2 * crc) % 65536
  IN IF Bit(crc, 15) = 1 THEN Xor(shifted, 4129) ELSE shifted

TakeByte(crc, byte) ==
  LET after[k \in 0..8] == IF k = 0 THEN Xor(crc, 256 * byte) ELSE Shift(after[k - 1])
  IN after[8]

CrcCcittFalse(data) ==
  LET take[crc \in 0..65535, byte \in 0..255] == TakeByte(crc, byte)
      crc[i \in 0..Len(data)] == IF i = 0 THEN 65535 ELSE take[crc[i - 1], data[i]]
  IN crc[Len(data)]

-----------------------------------------------------------------------------

\* The bits of a buffer, the first sixteen of them inverted, with sixteen
\* zeros behind: the polynomial that CRC-16/CCITT-FALSE divides.
Dividend(data) ==
  [i \in 1..(8 * Len(data) + 16) |->
     LET bit == IF i <= 8 * Len(data) THEN Bit(data[(i + 7) \div 8], 7 - ((i + 7) % 8)) ELSE 0
     IN IF i <= 16 THEN 1 - bit ELSE bit]

\* x^16 + x^12 + x^5 + 1.
Divisor == {0, 4, 11, 16}

\* Long division: where the leading bit is set, the divisor is subtracted.
Remainder(data) ==
  LET count == 8 * Len(data)
      rest[i \in 0..count] ==
        IF i = 0 THEN Dividend(data)
        ELSE LET before == rest[i - 1]
             IN IF before[i] = 0 THEN before
                ELSE [j \in DOMAIN before |->
                        IF j - i \in Divisor THEN 1 - before[j] ELSE before[j]]
  IN MapThenSumSet(LAMBDA k : 2^k * rest[count][count + 16 - k], 0..15)

=============================================================================
