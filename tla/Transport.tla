----------------------------- MODULE Transport -----------------------------
(***************************************************************************)
(* A text on its way from literal.setText() to literal.getText(): line     *)
(* ends are made canonical, the literal data packet is framed, armored,    *)
(* carried, read line by line, decoded, read as a packet, and its line     *)
(* ends are made native again.  Each stage is a stream transform (external:*)
(* web-stream-tools) whose callback is given one value after the other,    *)
(* cut wherever the sender, the network or the stage before happened to    *)
(* cut, and once the end.  A stage sees only its own input, so that the    *)
(* stages are run here one after the other.                                *)
(*                                                                         *)
(* A cleartext message takes the same way without literal data packet; the *)
(* lines of its text stand before the armored body.                        *)
(***************************************************************************)
EXTENDS Framing, Armor

CONSTANTS Messages,    \* what may be sent
          PieceSizes   \* how long the values of a stream may be

VARIABLES message,  \* what is sent, and how
          stage,    \* the transform that is running
          input,    \* what it has not been given yet
          buf,      \* its buffer
          carry,    \* a carriage return is carried over
          output,   \* what it has written
          lines,    \* the lines of the armor not yet read
          head,     \* what unarmor has made of those it has read
          checksum, \* the checksum at the end of the armor
          body      \* of readPackets: header, bytes of the body to come; and
                    \* whether a length was `short', which no action reads

vars == <<message, stage, input, buf, carry, output, lines, head, checksum, body>>

(***************************************************************************)
(* A message is a record of                                                *)
(*   text        what setText is given (bytes)                             *)
(*   framing     who wrote the packet: "stream" and "whole" are            *)
(*               PacketList.write, the others old formats (by others)      *)
(*   kind        the type of the armor, or "binary"                        *)
(*   options     further armor headers                                     *)
(*   before      lines that stand before the armor                         *)
(*   clear       the lines of a cleartext message                          *)
(*   wrap        digits per line, if another writer has broken the lines   *)
(*   sum         "right", "wrong" or "none": the checksum of the armor     *)
(*   required    config.checksumRequired                                   *)
(*   cut         how many bytes or characters are lost at the end          *)
(***************************************************************************)
LiteralTag == 11
LiteralHeader == <<117, 0>> \o writeNumber(1000, 4)  \* format, no file name, date

RightSum == <<1, 1, 1, 1>>
WrongSum == <<2, 2, 2, 2>>
ChecksumText(sum) ==
    CASE sum = "right" -> <<EQ>> \o RightSum \o <<NL>>
      [] sum = "wrong" -> <<EQ>> \o WrongSum \o <<NL>>
      [] sum = "none" -> <<>>

Uncut(s) == SubSeq(s, 1, Len(s) - message.cut)

Init ==
    /\ message \in Messages
    /\ stage = "canonical"
    /\ input = message.text
    /\ buf = <<>> /\ carry = FALSE /\ output = <<>>
    /\ lines = <<>> /\ head = NoHeaders /\ checksum = <<>>
    /\ body = [header |-> 0, left |-> 0, partial |-> FALSE, short |-> FALSE, at |-> "header"]

(* The next value of a stream.                                             *)
Piece(k) == SubSeq(input, 1, k)
Drop(k) == SubSeq(input, k + 1, Len(input))
Pieces == {k \in PieceSizes : k =< Len(input)}

(* One stage ends and the next one starts on `s'.                          *)
Enter(next, s) ==
    /\ stage' = next
    /\ input' = s
    /\ buf' = <<>> /\ carry' = FALSE /\ output' = <<>>

Fail ==
    /\ stage' = "failed"
    /\ UNCHANGED <<message, input, buf, carry, output, lines, head, checksum, body>>

(***************************************************************************)
(* Writing.                                                                *)
(***************************************************************************)
CanonicalizeValue ==
    /\ stage = "canonical"
    /\ \E k \in Pieces :
        /\ output' = output \o canonicalizeValue(carry, Piece(k))
        /\ carry' = CanonicalCarry(carry, Piece(k))
        /\ input' = Drop(k)
    /\ UNCHANGED <<message, stage, buf, lines, head, checksum, body>>

(* LiteralDataPacket.write puts the header in front.                       *)
CanonicalizeEnd ==
    /\ stage = "canonical" /\ input = <<>>
    /\ Enter("frame", LiteralHeader \o output \o CarryEnd(carry))
    /\ UNCHANGED <<message, lines, head, checksum, body>>

FrameStream ==
    /\ stage = "frame" /\ message.framing = "stream"
    /\ \E k \in Pieces : \E framed \in {FrameValue(buf, Piece(k))} :
        /\ buf' = framed.buffer
        /\ output' = output \o framed.bytes
        /\ input' = Drop(k)
    /\ UNCHANGED <<message, stage, carry, lines, head, checksum, body>>

(* The whole packet, framed.                                               *)
Framed ==
    CASE message.framing = "stream" -> writeTag(LiteralTag) \o output \o FrameEnd(buf)
      [] message.framing = "whole" -> writeHeader(LiteralTag, Len(input)) \o input
      [] message.framing = "old1" -> <<128 + 4 * LiteralTag>> \o writeNumber(Len(input), 1) \o input
      [] message.framing = "old2" -> <<129 + 4 * LiteralTag>> \o writeNumber(Len(input), 2) \o input
      [] message.framing = "old4" -> <<130 + 4 * LiteralTag>> \o writeNumber(Len(input), 4) \o input
      [] message.framing = "endless" -> <<131 + 4 * LiteralTag>> \o input

FrameDone ==
    /\ stage = "frame"
    /\ message.framing = "stream" => input = <<>>
    /\ IF message.kind = "binary" THEN Enter("packets", Uncut(Framed)) ELSE Enter("encode", Framed)
    /\ UNCHANGED <<message, lines, head, checksum, body>>

EncodeValue ==
    /\ stage = "encode"
    /\ \E k \in Pieces : \E encoded \in {encodeValue(buf, Piece(k))} :
        /\ buf' = encoded.buf
        /\ output' = output \o encoded.text
        /\ input' = Drop(k)
    /\ UNCHANGED <<message, stage, carry, lines, head, checksum, body>>

(* Lines that another writer has broken elsewhere.                         *)
Rewrapped(text) ==
    LET digits == SelectSeq(text, LAMBDA c : c # NL)
    IN  FlattenSeq([i \in DOMAIN digits |-> IF i % message.wrap = 0 \/ i = Len(digits) THEN <<digits[i], NL>> ELSE <<digits[i]>>])
ArmorBody(text) == IF message.wrap = 0 THEN text ELSE Rewrapped(text)

(* The armor: its lines, and the body that is still to be read.            *)
EncodeEnd ==
    /\ stage = "encode" /\ input = <<>>
    /\ Enter("lines", Uncut(ArmorBody(output \o encodeEnd(buf)) \o ChecksumText(message.sum) \o <<END, NL>>))
    /\ lines' = message.before \o ArmorLines(message.kind, message.options, message.clear)
    /\ UNCHANGED <<message, head, checksum, body>>

(***************************************************************************)
(* unarmor().                                                              *)
(***************************************************************************)
(* reader.readLine(); without a further line, 'Misformed armored text'.    *)
ReadLine ==
    /\ stage = "lines" /\ lines # <<>>
    /\ head' = OnLine(head, removeTrailingSpaces(Head(lines)))
    /\ lines' = Tail(lines)
    /\ stage' = CASE head'.state = "resolved" -> "body" [] head'.state = "rejected" -> "failed" [] OTHER -> stage
    /\ UNCHANGED <<message, input, buf, carry, output, checksum, body>>

NoMoreLines ==
    /\ stage = "lines" /\ lines = <<>>
    /\ Fail

BodyPiece ==
    /\ stage = "body"
    /\ \E k \in Pieces :
        /\ ~HasMark(Piece(k))
        /\ output' = output \o Piece(k)
        /\ input' = Drop(k)
    /\ UNCHANGED <<message, stage, buf, carry, lines, head, checksum, body>>

(* The piece with the mark, and the remainder of the stream.               *)
BodyEnd ==
    /\ stage = "body"
    /\ \E k \in Pieces : HasMark(Piece(k))
    /\ HasEnd(input)
    /\ \E split \in {splitChecksum(BeforeEnd(input))} :
        /\ Enter("decode", output \o split.body)
        /\ checksum' = split.checksum
    /\ UNCHANGED <<message, lines, head, body>>

BodyWaits ==
    /\ stage = "body"
    /\ (\E k \in Pieces : HasMark(Piece(k))) /\ ~HasEnd(input)
    /\ Fail

(* The stream is done, or its remainder has no line of dashes.             *)
BodyMisformed ==
    /\ stage = "body"
    /\ input = <<>> \/ ((\E k \in Pieces : HasMark(Piece(k))) /\ ~HasEnd(input))
    /\ Fail

DecodeValue ==
    /\ stage = "decode"
    /\ \E k \in Pieces : \E all \in {buf \o Piece(k)} : \E n \in {DecodeLength(all)} :
        \E decoded \in {decodeChunk(SubSeq(all, 1, n))} :
            /\ decoded.ok
            /\ output' = output \o decoded.bytes
            /\ buf' = SubSeq(all, n + 1, Len(all))
            /\ input' = Drop(k)
    /\ UNCHANGED <<message, stage, carry, lines, head, checksum, body>>

DecodeThrows ==
    /\ stage = "decode"
    /\ \/ input = <<>> /\ ~decodeChunk(buf).ok
       \/ \E k \in Pieces : \E all \in {buf \o Piece(k)} : ~decodeChunk(SubSeq(all, 1, DecodeLength(all))).ok
    /\ Fail

(* The checksum is compared once everything is decoded; what was decoded   *)
(* before has been passed on, and fails with it.                           *)
ChecksumIfPresent == checksum = RightSum \/ checksum = <<>>
ChecksumAccepted == checksum = RightSum \/ (checksum = <<>> /\ ~message.required)

DecodeEnd ==
    /\ stage = "decode" /\ input = <<>> /\ decodeChunk(buf).ok
    /\ IF ChecksumAccepted
       THEN Enter("packets", output \o decodeChunk(buf).bytes) /\ UNCHANGED <<message, lines, head, checksum, body>>
       ELSE Fail

(***************************************************************************)
(* readPackets() and LiteralDataPacket.read().                             *)
(***************************************************************************)
ReadHeader ==
    /\ stage = "packets" /\ body.at = "header"
    /\ IsHeader(input)
    /\ supportsStreaming(HeaderTag(input[1]))
    /\ body' = [body EXCEPT !.header = input[1], !.at = "length"]
    /\ input' = Tail(input)
    /\ UNCHANGED <<message, stage, buf, carry, output, lines, head, checksum>>

(* Also at the end of the input, where a length is short of octets.        *)
ReadLength ==
    /\ stage = "packets" /\ body.at = "length"
    /\ \E read \in {PacketLength(body.header, input)} :
        /\ body' = [body EXCEPT !.left = read.length, !.partial = read.partial, !.short = read.octets > Len(input),
                                !.at = IF read.length > 0 \/ read.length = Endless THEN "body"
                                       ELSE IF read.partial THEN "length" ELSE "end"]
        /\ input' = Drop(read.octets)
    /\ UNCHANGED <<message, stage, buf, carry, output, lines, head, checksum>>

(* A value may hold more than the rest of this part: that is unshifted.    *)
ReadBody ==
    /\ stage = "packets" /\ body.at = "body"
    /\ \E k \in Pieces :
        LET n == IF body.left = Endless THEN k ELSE Min({k, body.left}) IN
        /\ output' = output \o Piece(n)
        /\ input' = Drop(n)
        /\ body' = IF body.left = Endless THEN body
                   ELSE [body EXCEPT !.left = @ - n,
                                     !.at = IF body.left > n THEN "body" ELSE IF body.partial THEN "length" ELSE "end"]
    /\ UNCHANGED <<message, stage, buf, carry, lines, head, checksum>>

(* No packet, or 'Unexpected end of packet'.                               *)
ReadThrows ==
    /\ stage = "packets"
    /\ \/ body.at = "header" /\ ~IsHeader(input)
       \/ body.at = "body" /\ input = <<>> /\ body.left # Endless
    /\ Fail

(* read() of the packet takes the header off the body.  A date may be short*)
(* of bytes, but not be missing: readDate throws on undefined.             *)
PacketRead ==
    /\ stage = "packets"
    /\ body.at = "end" \/ (body.at = "body" /\ body.left = Endless /\ input = <<>>)
    /\ IF Len(output) < 3
       THEN Fail
       ELSE Enter("native", SubSeq(output, Len(LiteralHeader) + 1, Len(output)))
            /\ UNCHANGED <<message, lines, head, checksum, body>>

NativeValue ==
    /\ stage = "native"
    /\ \E k \in Pieces :
        /\ output' = output \o nativeValue(carry, Piece(k))
        /\ carry' = NativeCarry(carry, Piece(k))
        /\ input' = Drop(k)
    /\ UNCHANGED <<message, stage, buf, lines, head, checksum, body>>

NativeEnd ==
    /\ stage = "native" /\ input = <<>>
    /\ stage' = "done"
    /\ output' = output \o CarryEnd(carry)
    /\ UNCHANGED <<message, input, buf, carry, lines, head, checksum, body>>

Write == CanonicalizeValue \/ CanonicalizeEnd \/ FrameStream \/ FrameDone \/ EncodeValue \/ EncodeEnd
Unarmor == ReadLine \/ NoMoreLines \/ BodyPiece \/ BodyEnd \/ BodyMisformed \/ DecodeValue \/ DecodeThrows \/ DecodeEnd
Read == ReadHeader \/ ReadLength \/ ReadBody \/ ReadThrows \/ PacketRead \/ NativeValue \/ NativeEnd

Next == Write \/ Unarmor \/ Read

(* Values keep arriving and their callbacks run.                           *)
Spec == Init /\ [][Next]_vars /\ WF_vars(Next)

----------------------------------------------------------------------------
(* Every stage works on bytes, or on the characters of the armor.          *)
TypeOK ==
    /\ stage \in {"canonical", "frame", "encode", "lines", "body", "decode", "packets", "native", "done", "failed"}
    /\ \A s \in {input, buf, output} : \A i \in DOMAIN s : s[i] \in 0..255
    /\ carry \in BOOLEAN
    /\ head.state \in {"reading", "resolved", "rejected"} /\ head.type \in -2..6
    /\ body.at \in {"header", "length", "body", "end"} /\ body.left \in Int /\ body.short \in BOOLEAN

(* The text with its line ends made canonical, and made native, as if it   *)
(* were in one piece.                                                      *)
IsBare(s, i) == s[i] = LF /\ ~(i > 1 /\ s[i - 1] = CR)
CanonicalText(s) == FlattenSeq([i \in DOMAIN s |-> IF IsBare(s, i) THEN <<CR, LF>> ELSE <<s[i]>>])
NativeText(s) == FlattenSeq([i \in DOMAIN s |-> IF s[i] = CR /\ i < Len(s) /\ s[i + 1] = LF THEN <<>> ELSE <<s[i]>>])

(* A packet may be accepted from an armor with this checksum.              *)
ChecksumHolds == message.sum = "right" \/ (message.sum = "none" /\ ~message.required)

(* The text of a cleartext message survives dash-escaping, and no line of  *)
(* it is taken for the end of the text; only white space at the end of a   *)
(* line is lost.                                                           *)
ClearTextRight ==
    message.kind = "S" /\ stage \in {"body", "decode", "packets", "native", "done"} =>
        /\ head.text = [i \in DOMAIN message.clear |-> removeTrailingSpaces(message.clear[i])]
        /\ head.textDone

(* A text that arrives is the one that was sent, up to line ends, or is    *)
(* the start of it, and that only in two cases, both without armor: an old *)
(* packet of indeterminate length has no end to lose; and of a packet of   *)
(* partial lengths the end is lost where a length should have followed,    *)
(* which readPackets takes for the last part.  Every other lost end is     *)
(* noticed, by the lengths, by the armor's last line or by its checksum,   *)
(* and no byte is lost or changed anywhere else.  Whatever the values are  *)
(* cut into, canonicalizeEOL gives what it would give on the whole text,   *)
(* no packet is accepted from an armor with another checksum or without    *)
(* one that is required, and cleartext is kept.                            *)
StartOf(text) == {NativeText(SubSeq(CanonicalText(text), 1, n)) : n \in 0..Len(CanonicalText(text))}
EndUnnoticed ==
    /\ message.kind = "binary" /\ message.cut > 0
    /\ message.framing = "endless" \/ (message.framing = "stream" /\ body.short)
ArrivesWhole ==
    /\ TypeOK
    /\ stage = "frame" /\ message.framing # "stream" => input = LiteralHeader \o CanonicalText(message.text)
    /\ stage = "done" => \/ output = NativeText(CanonicalText(message.text))
                         \/ EndUnnoticed /\ output \in StartOf(message.text)
    /\ stage = "done" /\ message.kind # "binary" => ChecksumHolds
    /\ ClearTextRight

(* Undamaged, and as the library writes it, or with lines of another       *)
(* length that is a multiple of four digits.                               *)
WellFormed ==
    /\ message.wrap % 4 = 0
    /\ message.cut = 0 /\ message.sum # "wrong" /\ (message.sum = "none" => ~message.required)
    /\ message.kind \notin {"N", "?"} /\ verifyHeaders(message.options)
    /\ \A i \in DOMAIN message.before : ~IsDelimiter(message.before[i])

(* Every message is read or refused, and what the library itself wrote is  *)
(* read back, if it was not damaged.                                       *)
Settles ==
    /\ <>(stage \in {"done", "failed"})
    /\ WellFormed ~> stage = "done"
============================================================================
