---------------------------- MODULE ByteStrings ----------------------------
(***************************************************************************)
(* Uint8Arrays, and the arithmetic on them that util.js and the checksum   *)
(* of ASCII armor do: a byte string is a sequence over 0..255, and a shift *)
(* out of a byte is lost.                                                  *)
(***************************************************************************)
EXTENDS Integers, Sequences, SequencesExt, FiniteSetsExt, Bitwise

Zeros(n) == [i \in 1..n |-> 0]
Larger(a, b) == IF a > b THEN a ELSE b

(* TypedArray.subarray with non-negative bounds, clipped.                  *)
Slice(s, begin, end) == SubSeq(s, begin + 1, IF end > Len(s) THEN Len(s) ELSE end)
Remainder(s, begin) == Slice(s, begin, Len(s))
(* TypedArray.subarray(-n).                                                *)
LastBytes(s, n) == Remainder(s, Larger(0, Len(s) - n))
ButLast(s, n) == Slice(s, 0, Larger(0, Len(s) - n))

Nibbles == [a \in 0..15, b \in 0..15 |-> a ^^ b]
XorByte(a, b) == 16 * Nibbles[a \div 16, b \div 16] + Nibbles[a % 16, b % 16]

(* The same sequence, as a tuple that TLC does not compute again.          *)
Tuple(s) == SubSeq(s, 1, Len(s))

(* xor and xorMut: the bytes that T lacks are undefined, and count as 0.   *)
xor(S, T) == Tuple([i \in DOMAIN S |-> IF i \in DOMAIN T THEN XorByte(S[i], T[i]) ELSE S[i]])

(* The bit length of x, but 1 of 0.                                        *)
nbits(x) == IF x = 0 THEN 1 ELSE CHOOSE r \in 1..31 : 2 ^ (r - 1) =< x /\ (r < 31 => x < 2 ^ r)

double(data) ==
    Tuple([i \in DOMAIN data |->
        XorByte((2 * data[i]) % 256,
                IF i < Len(data) THEN data[i + 1] \div 128 ELSE (data[1] \div 128) * 135)])

(* By 1 to 8 bits.                                                         *)
shiftRight(array, bits) ==
    [i \in DOMAIN array |->
        (array[i] \div 2 ^ bits) + IF i > 1 THEN (array[i - 1] * 2 ^ (8 - bits)) % 256 ELSE 0]

(* Bytes that are not longer than the length: others throw.                *)
leftPad(bytes, length) == Zeros(length - Len(bytes)) \o bytes

(* A byte behind the end is undefined, and counts as 0.                    *)
ByteAt(bytes, i) == IF i \in DOMAIN bytes THEN bytes[i] ELSE 0

(* Both are read at every index; where one is shorter, that reads as 0,    *)
(* and the result is as long as the one selected.                          *)
selectUint8Array(cond, a, b) ==
    LET mask(i, s, on) == IF on /\ i \in DOMAIN s THEN s[i] ELSE 0
        end == Cardinality({i \in 1..Larger(Len(a), Len(b)) : (cond /\ i =< Len(a)) \/ (~cond /\ i =< Len(b))})
    IN  [i \in 1..end |-> mask(i, a, cond) | mask(i, b, ~cond)]

(***************************************************************************)
(* Multiprecision integers: a bit count of two octets, and the bytes.      *)
(***************************************************************************)
uint8ArrayBitLength(bin) ==
    LET i == Min({Len(bin) + 1} \cup {k \in DOMAIN bin : bin[k] # 0})
    IN  IF i = Len(bin) + 1 THEN 0 ELSE (Len(bin) - i) * 8 + nbits(bin[i])

(* A zero throws.                                                          *)
uint8ArrayToMPI(bin) ==
    LET bitSize == uint8ArrayBitLength(bin)
    IN  <<(bitSize \div 256) % 256, bitSize % 256>> \o LastBytes(bin, (bitSize + 7) \div 8)
readMPI(bytes) == Slice(bytes, 2, 2 + ((256 * ByteAt(bytes, 1) + ByteAt(bytes, 2) + 7) \div 8))

(* The sum of a text's bytes, modulo 2^16.                                 *)
writeChecksum(text) ==
    LET s == FoldLeft(LAMBDA n, b : (n + b) % 65536, 0, text) IN <<s \div 256, s % 256>>

(***************************************************************************)
(* createcrc24: a checksum is its low, middle and high byte, which are the *)
(* most, middle and least significant byte of the CRC.                     *)
(***************************************************************************)
Poly == <<134, 76, 251>>
ShiftedLeft(v) == [k \in 1..3 |-> ((2 * v[k]) % 256) + IF k < 3 THEN v[k + 1] \div 128 ELSE 0]
(* crc_table[0][i]: eight steps of the division of i * 2^16.               *)
CrcStep(v) == IF v[1] >= 128 THEN xor(ShiftedLeft(v), Poly) ELSE ShiftedLeft(v)
CrcTable0 == [i \in 0..255 |-> FoldLeft(LAMBDA v, j : CrcStep(v), <<i, 0, 0>>, [j \in 1..8 |-> j])]
NextTable(t) == [i \in 0..255 |-> xor(<<t[i][2], t[i][3], 0>>, CrcTable0[t[i][1]])]
CrcTable1 == NextTable(CrcTable0)
CrcTable2 == NextTable(CrcTable1)
CrcTable3 == NextTable(CrcTable2)

CrcByte(crc, byte) == xor(<<crc[2], crc[3], 0>>, CrcTable0[XorByte(crc[1], byte)])
CrcWordSwapped(crc, word) ==
    LET x == xor(word, crc)
    IN  xor(xor(CrcTable0[x[1]], CrcTable1[x[2]]), xor(CrcTable2[x[3]], CrcTable3[x[4]]))
(* Four bytes at a time, as a little-endian word.                          *)
CrcWord(crc, word) ==
    LET x == xor(word, crc)
    IN  xor(xor(CrcTable0[x[4]], CrcTable1[x[3]]), xor(CrcTable2[x[2]], CrcTable3[x[1]]))

CrcStart == <<183, 4, 206>>
CrcValue(crc, value) ==
    LET len32 == Len(value) \div 4
        words == FoldLeft(LAMBDA c, i : CrcWord(c, Slice(value, 4 * i - 4, 4 * i)), crc, [i \in 1..len32 |-> i])
    IN  FoldLeft(CrcByte, words, Remainder(value, 4 * len32))
============================================================================
