------------------------------ MODULE Framing ------------------------------
(***************************************************************************)
(* How packets are framed as bytes (packet/packet.js, packetlist.js): the  *)
(* tag and the length, and for data that are streamed a sequence of partial*)
(* lengths whose sum nobody knows when the first is written.  Pure         *)
(* operators; Transport runs them chunk by chunk.                          *)
(***************************************************************************)
EXTENDS Integers, Sequences

CONSTANT MinLength  \* bytes that must be there for a partial length: 512

ASSUME MinLengthAssumption == MinLength \in Nat \ {0}

(* util.readNumber and util.writeNumber, big endian.                       *)
readNumber(bytes) ==
    LET value[i \in 0..Len(bytes)] == IF i = 0 THEN 0 ELSE 256 * value[i - 1] + bytes[i]
    IN  value[Len(bytes)]
writeNumber(n, bytes) == [i \in 1..bytes |-> (n \div (256 ^ (bytes - i))) % 256]

(* Four octets assembled with << and |: an Int32, negative from 2^31 on.   *)
readInt32(b) ==
    (IF b[1] < 128 THEN b[1] ELSE b[1] - 256) * 2 ^ 24 + b[2] * 2 ^ 16 + b[3] * 2 ^ 8 + b[4]

(***************************************************************************)
(* Lengths.                                                                *)
(***************************************************************************)

writeSimpleLength(length) ==
    CASE length < 192 -> <<length>>
      [] length > 191 /\ length < 8384 -> <<((length - 192) \div 256) + 192, (length - 192) % 256>>
      [] OTHER -> <<255>> \o writeNumber(length, 4)

(* Of subpackets: no partial lengths, so that two octets go up to 254.     *)
readSimpleLength(bytes) ==
    CASE bytes[1] < 192 -> [len |-> bytes[1], offset |-> 1]
      [] bytes[1] \in 192..254 -> [len |-> (bytes[1] - 192) * 256 + bytes[2] + 192, offset |-> 2]
      [] bytes[1] = 255 -> [len |-> readNumber(SubSeq(bytes, 2, 5)), offset |-> 5]

writePartialLength(power) == <<224 + power>>
writeTag(tag) == <<192 + tag>>
writeHeader(tag, length) == writeTag(tag) \o writeSimpleLength(length)

(* literal, compressed, symmetrically encrypted, with integrity protection *)
(* and AEAD-encrypted data.                                                *)
supportsStreaming(tag) == tag \in {11, 8, 9, 18, 20}

(* The largest power of two in a length, at most 2^30: one partial chunk.  *)
PowerOf2(n) == CHOOSE p \in 0..30 : 2 ^ p =< n /\ (p < 30 => n < 2 ^ (p + 1))

(* PacketList.write's transform of a value: the buffer, and what it emits. *)
FrameValueAll(buffer, value) ==
    IF Len(buffer \o value) < MinLength THEN [buffer |-> buffer \o value, bytes |-> <<>>]
    ELSE [buffer |-> <<>>, bytes |-> writePartialLength(PowerOf2(Len(buffer \o value))) \o buffer \o value]

FrameValue(buffer, value) ==
    LET all == buffer \o value IN
    IF Len(all) < MinLength THEN [buffer |-> all, bytes |-> <<>>]
    ELSE LET size == 2 ^ PowerOf2(Len(all))
         IN  [buffer |-> SubSeq(all, size + 1, Len(all)),
              bytes |-> writePartialLength(PowerOf2(Len(all))) \o SubSeq(all, 1, size)]
FrameEnd(buffer) == writeSimpleLength(Len(buffer)) \o buffer

(***************************************************************************)
(* readPackets.  A header is its tag, its format and, in the old format,   *)
(* the type of its length; a length says how many octets it takes, whether *)
(* it is partial, and is `Endless' when the packet ends with the input.    *)
(* readByte returns undefined at the end of the input, which nothing looks *)
(* at: an octet that is missing counts as 0 where octets are shifted, and  *)
(* makes a sum NaN, a length no more greater than 0 than 0 is.             *)
(***************************************************************************)
Endless == -1
IsHeader(bytes) == Len(bytes) >= 2 /\ bytes[1] >= 128
NewFormat(byte) == (byte \div 64) % 2 = 1
HeaderTag(byte) == IF NewFormat(byte) THEN byte % 64 ELSE (byte % 64) \div 4
AsRead(bytes) == bytes \o <<0, 0, 0, 0, 0>>

OldLength(type, bytes) ==
    CASE type = 0 -> [length |-> AsRead(bytes)[1], octets |-> 1, partial |-> FALSE]
      [] type = 1 -> [length |-> readNumber(SubSeq(AsRead(bytes), 1, 2)), octets |-> 2, partial |-> FALSE]
      [] type = 2 -> [length |-> readInt32(AsRead(bytes)), octets |-> 4, partial |-> FALSE]
      [] type = 3 -> [length |-> Endless, octets |-> 0, partial |-> FALSE]

TwoOctets(bytes) == IF Len(bytes) < 2 THEN 0 ELSE (bytes[1] - 192) * 256 + bytes[2] + 192
NewLength(bytes) ==
    LET first == AsRead(bytes)[1] IN
    CASE first < 192 -> [length |-> first, octets |-> 1, partial |-> FALSE]
      [] first \in 192..223 -> [length |-> TwoOctets(bytes), octets |-> 2, partial |-> FALSE]
      [] first \in 224..254 -> [length |-> 2 ^ (first % 32), octets |-> 1, partial |-> TRUE]
      [] first = 255 -> [length |-> readInt32(AsRead(Tail(bytes))), octets |-> 5, partial |-> FALSE]

PacketLength(header, bytes) == IF NewFormat(header) THEN NewLength(bytes) ELSE OldLength(header % 4, bytes)
============================================================================
