------------------------------- MODULE Armor -------------------------------
(***************************************************************************)
(* ASCII armor (encoding/armor.js, encoding/base64.js) and the line ending *)
(* conversions of util.js, as operators on the values that arrive and on   *)
(* the state each transform keeps between two of them.                     *)
(*                                                                         *)
(* A character of the body is a base64 digit 0..63, a line end, the `=' of *)
(* padding and checksum, or a line of dashes.  A line before the body is a *)
(* sequence of one-letter strings; a delimiter has two dashes on each side *)
(* (five in the code) around the letter of its type.                       *)
(***************************************************************************)
EXTENDS Integers, Sequences, SequencesExt, FiniteSetsExt

CONSTANT LineBytes  \* bytes per line of base64: 45

ASSUME LineBytesAssumption == LineBytes \in Nat \ {0} /\ LineBytes % 3 = 0

NL == 64
EQ == 65
END == 66

Failed == [ok |-> FALSE, bytes |-> <<>>]

(***************************************************************************)
(* base64.js.                                                              *)
(***************************************************************************)
encodeChunk(bytes) ==
    LET At(i) == IF i \in DOMAIN bytes THEN bytes[i] ELSE 0
        Digit(g, k) ==
            CASE k = 1 -> At(3 * g + 1) \div 4
              [] k = 2 -> (At(3 * g + 1) % 4) * 16 + (At(3 * g + 2) \div 16)
              [] k = 3 -> IF 3 * g + 2 > Len(bytes) THEN EQ ELSE (At(3 * g + 2) % 16) * 4 + (At(3 * g + 3) \div 64)
              [] k = 4 -> IF 3 * g + 3 > Len(bytes) THEN EQ ELSE At(3 * g + 3) % 64
    IN  [i \in 1..(4 * ((Len(bytes) + 2) \div 3)) |-> Digit((i - 1) \div 4, ((i - 1) % 4) + 1)]

(* atob: white space goes, then up to two `=' of a multiple of four        *)
(* characters; a single character left over, or any other one, throws.     *)
Unpadded(s) ==
    IF Len(s) % 4 # 0 \/ s = <<>> \/ Last(s) # EQ THEN s
    ELSE IF s[Len(s) - 1] = EQ THEN SubSeq(s, 1, Len(s) - 2) ELSE Front(s)
decodeChunk(text) ==
    LET s == Unpadded(SelectSeq(text, LAMBDA c : c # NL))
        Byte(j) ==  \* byte j of the group of four digits it lies in
            LET d == 4 * ((j - 1) \div 3)
            IN  CASE (j - 1) % 3 = 0 -> s[d + 1] * 4 + (s[d + 2] \div 16)
                  [] (j - 1) % 3 = 1 -> (s[d + 2] % 16) * 16 + (s[d + 3] \div 4)
                  [] (j - 1) % 3 = 2 -> (s[d + 3] % 4) * 64 + s[d + 4]
    IN  IF Len(s) % 4 = 1 \/ \E i \in DOMAIN s : s[i] \notin 0..63 THEN Failed
        ELSE [ok |-> TRUE, bytes |-> [j \in 1..((Len(s) * 6) \div 8) |-> Byte(j)]]

(* encode: whole lines leave the buffer.                                   *)
EncodedLines(bytes) ==
    FlattenSeq([i \in 1..(Len(bytes) \div LineBytes) |->
        Append(encodeChunk(SubSeq(bytes, (i - 1) * LineBytes + 1, i * LineBytes)), NL)])
encodeValue(buf, value) ==
    LET all == buf \o value
    IN  [buf |-> SubSeq(all, (Len(all) \div LineBytes) * LineBytes + 1, Len(all)), text |-> EncodedLines(all)]
encodeEnd(buf) == IF buf = <<>> THEN <<>> ELSE Append(encodeChunk(buf), NL)

(* decode: how much of the buffer is decoded now.  The loop looks at the   *)
(* character after the one it drops.                                       *)
Spaces(buf) == Len(SelectSeq(buf, LAMBDA c : c = NL))
DecodeLength(buf) ==
    LET n == Len(buf)
        back[l \in 0..n, spaces \in 0..n] ==
            IF l = 0 \/ (l - spaces) % 4 = 0 THEN l
            ELSE back[l - 1, IF l < n /\ buf[l + 1] = NL THEN spaces - 1 ELSE spaces]
    IN  back[n, Spaces(buf)]

(***************************************************************************)
(* armor().                                                                *)
(***************************************************************************)
Delimiter(letter) == <<"-", "-", letter, "-", "-">>
HashLine == <<"H">>
addheader(options) == options \o <<<<>>>>   \* Version:, Comment:, and the blank line

(* A line of the text that starts with a dash is escaped.                  *)
DashEscaped(line) == IF line # <<>> /\ Head(line) = "-" THEN <<"-", " ">> \o line ELSE line

ArmorLines(kind, options, text) ==
    IF kind = "S"
    THEN <<Delimiter("S"), HashLine, <<>>>> \o [i \in DOMAIN text |-> DashEscaped(text[i])]
         \o <<Delimiter("G")>> \o addheader(options)
    ELSE <<Delimiter(kind)>> \o addheader(options)

(***************************************************************************)
(* unarmor(): the lines before the body.                                   *)
(***************************************************************************)
(* reSplit: dashes around something without any.                           *)
IsDelimiter(line) ==
    /\ Len(line) > 4
    /\ \A i \in {1, 2, Len(line) - 1, Len(line)} : line[i] = "-"
    /\ \A i \in 3..(Len(line) - 2) : line[i] # "-"

(* The types of getType, by the letter of their delimiter.                 *)
ArmorTypes == [M |-> 3, S |-> 2, G |-> 6, P |-> 4, R |-> 5, N |-> 0, L |-> 1]
getType(line) == IF line[3] \in DOMAIN ArmorTypes THEN ArmorTypes[line[3]] ELSE -1

(* verifyHeaders: "H" is a header, whether known or not, "x" is none.      *)
verifyHeaders(headers) == \A i \in DOMAIN headers : headers[i][1] = "H"

removeTrailingSpaces(line) ==
    SubSeq(line, 1, Max({0} \cup {i \in DOMAIN line : line[i] # " "}))
Undashed(line) == IF Len(line) >= 2 /\ line[1] = "-" /\ line[2] = " " THEN SubSeq(line, 3, Len(line)) ELSE line

NoHeaders == [type |-> -2, headersDone |-> FALSE, textDone |-> FALSE, headers |-> <<>>, text |-> <<>>, state |-> "reading"]

(* One turn of the first loop; `state' becomes "resolved" when the body    *)
(* follows, or "rejected".  A delimiter among the headers rejects, without *)
(* ending the loop.                                                        *)
OnFirstLine(p, line) ==
    IF ~IsDelimiter(line) THEN p
    ELSE IF getType(line) = -1 THEN [p EXCEPT !.state = "rejected"] ELSE [p EXCEPT !.type = getType(line)]
OnHeaderLine(p, line) ==
    LET q == IF IsDelimiter(line) THEN [p EXCEPT !.state = "rejected"] ELSE p IN
    IF line # <<>> THEN [q EXCEPT !.headers = Append(@, line)]
    ELSE IF ~verifyHeaders(q.headers) THEN [q EXCEPT !.state = "rejected"]
    ELSE [q EXCEPT !.headersDone = TRUE,
                   !.state = IF q.state = "reading" /\ (q.textDone \/ q.type # 2) THEN "resolved" ELSE @]
OnTextLine(p, line) ==
    IF ~IsDelimiter(line) THEN [p EXCEPT !.text = Append(@, Undashed(line))]
    ELSE [p EXCEPT !.textDone = TRUE, !.headersDone = FALSE, !.headers = <<>>]
(* A type of 0 counts as none yet: `if (!type)'.                           *)
OnLine(p, line) ==
    CASE p.type \in {-2, 0} -> OnFirstLine(p, line)
      [] p.type \notin {-2, 0} /\ ~p.headersDone -> OnHeaderLine(p, line)
      [] p.type = 2 /\ p.headersDone /\ ~p.textDone -> OnTextLine(p, line)

(***************************************************************************)
(* unarmor(): the body, up to the first piece with an `=' or a dash; all   *)
(* that follows is then read.                                              *)
(***************************************************************************)
HasMark(piece) == \E i \in DOMAIN piece : piece[i] \in {EQ, END}

(* splitChecksum: an `=' that is not the last character starts a checksum. *)
splitChecksum(text) ==
    LET at == Max({0} \cup {i \in DOMAIN text : text[i] = EQ})
    IN  IF at = 0 \/ at = Len(text) THEN [body |-> text, checksum |-> <<>>]
        ELSE [body |-> SubSeq(text, 1, at - 1), checksum |-> SubSeq(text, at + 1, Min({at + 4, Len(text)}))]

(* What stands before the line of dashes; without one, misformed.          *)
BeforeEnd(text) ==
    LET at == Min({Len(text) + 1} \cup {i \in DOMAIN text : text[i] = END})
    IN  SubSeq(text, 1, at - 2)
HasEnd(text) == \E i \in DOMAIN text : text[i] = END

(***************************************************************************)
(* util.canonicalizeEOL and util.nativeEOL on one value, given whether a   *)
(* carriage return was carried over from the value before.                 *)
(***************************************************************************)
CR == 13
LF == 10

(* A carriage return at the end is kept back.                              *)
KeptBack(bytes) == bytes # <<>> /\ Last(bytes) = CR
Without(bytes) == IF KeptBack(bytes) THEN Front(bytes) ELSE bytes

canonicalizeValue(carry, value) ==
    LET bytes == Without((IF carry THEN <<CR>> ELSE <<>>) \o value)
        Bare(i) == bytes[i] = LF /\ (i = 1 \/ bytes[i - 1] # CR)
    IN  FlattenSeq([i \in DOMAIN bytes |-> IF Bare(i) THEN <<CR, LF>> ELSE <<bytes[i]>>])
CanonicalCarry(carry, value) == KeptBack((IF carry THEN <<CR>> ELSE <<>>) \o value)

NativeCarried(carry, value) == (IF carry /\ (value = <<>> \/ Head(value) # LF) THEN <<CR>> ELSE <<>>) \o value
nativeValue(carry, value) ==
    LET bytes == Without(NativeCarried(carry, value))
        Dropped(i) == bytes[i] = CR /\ i < Len(bytes) /\ bytes[i + 1] = LF
    IN  FlattenSeq([i \in DOMAIN bytes |-> IF Dropped(i) THEN <<>> ELSE <<bytes[i]>>])
NativeCarry(carry, value) == KeptBack(NativeCarried(carry, value))
CarryEnd(carry) == IF carry THEN <<CR>> ELSE <<>>
============================================================================
