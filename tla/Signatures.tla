----------------------------- MODULE Signatures ----------------------------
(***************************************************************************)
(* The signature packet (packet/signature.js): its subpackets, the bytes   *)
(* that are signed, and what of a packet can change on its way.  Subpackets*)
(* whose content is plain are in `sub' by their type, a text in them as a  *)
(* sequence of code points; a number of seconds is its four bytes.  The    *)
(* signature on a digest is external.                                      *)
(***************************************************************************)
EXTENDS PacketBodies

issuer == 16
notationData == 20
reasonForRevocation == 29
signatureTarget == 31
embeddedSignature == 32
issuerFingerprint == 33
Texts == {24, 26, 28}
Plain == {2, 3, 4, 5, 7, 9, 11, 12, 21, 22, 23, 25, 27, 30, 34} \cup Texts \cup {reasonForRevocation}
(* The order of writeHashedSubPackets, and the subpackets it marks as      *)
(* critical; notations say it themselves, and the fingerprint by version.  *)
HashedOrder == <<2, 3, 4, 5, 7, 9, 11, 12, 16, 20, 21, 22, 23, 24, 25, 26, 27, 28, 29, 30, 32, 33, 34>>
Critical == {2, 3, 4, 5, 7, 9, 16, 27, 29, 32}
Unhashed == {issuer, issuerFingerprint, embeddedSignature}

NewSignature(type, publicKeyAlgorithm, hashAlgorithm) ==
    [ok |-> TRUE, version |-> 0, signatureType |-> type, publicKeyAlgorithm |-> publicKeyAlgorithm, hashAlgorithm |-> hashAlgorithm,
     sub |-> [t \in Plain |-> Null], notations |-> <<>>, embedded |-> <<>>,
     issuerKeyID |-> <<>>, issuerKeyVersion |-> 0, fingerprint |-> Null,
     unhashed |-> <<>>, signatureData |-> <<>>, signedHashValue |-> <<>>, params |-> <<>>, verified |-> FALSE]

(* UTF-8 of code points up to 2047: TextEncoder and TextDecoder.           *)
encodeUTF8(s) == FlattenSeq(Tuple([i \in DOMAIN s |-> IF s[i] < 128 THEN <<s[i]>> ELSE <<192 + (s[i] \div 64), 128 + (s[i] % 64)>>]))
decodeUTF8(b) ==
    FoldLeft(LAMBDA s, x : IF x \in 128..191 THEN [s EXCEPT ![Len(s)] = 64 * @ + x - 128] ELSE Append(s, IF x > 191 THEN x - 192 ELSE x),
             <<>>, b)

(***************************************************************************)
(* Subpackets.                                                             *)
(***************************************************************************)
writeSubPacket(type, critical, data) ==
    writeSimpleLength(Len(data) + 1) \o <<(IF critical THEN 128 ELSE 0) + type>> \o data

(* A reason for revocation is written byte by byte but read as UTF-8.      *)
Encoded(type, value) ==
    CASE type \in Texts -> encodeUTF8(value)
      [] type = reasonForRevocation -> Tuple([i \in DOMAIN value |-> value[i] % 256])
      [] OTHER -> value
Decoded(type, bytes) ==
    CASE type \in Texts -> decodeUTF8(bytes)
      [] type = reasonForRevocation -> <<bytes[1]>> \o decodeUTF8(Tail(bytes))
      [] type \in {4, 7} -> <<IF bytes[1] = 1 THEN 1 ELSE 0>>
      [] type = 25 -> <<IF bytes[1] # 0 THEN 1 ELSE 0>>
      [] type = 5 -> Slice(bytes, 0, 2)
      [] type = 12 -> Slice(bytes, 0, 22)
      [] OTHER -> bytes

writeNotation(n) ==
    LET name == encodeUTF8(n.name)
    IN  writeSubPacket(notationData, n.critical,
            <<IF n.humanReadable THEN 128 ELSE 0, 0, 0, 0>> \o writeNumber(Len(name), 2) \o writeNumber(Len(n.value), 2) \o name \o n.value)
readNotation(bytes, critical) ==
    LET m == readNumber(Slice(bytes, 4, 6))
        n == readNumber(Slice(bytes, 6, 8))
    IN  [name |-> decodeUTF8(Slice(bytes, 8, 8 + m)), value |-> Slice(bytes, 8 + m, 8 + m + n),
         humanReadable |-> bytes[1] >= 128, critical |-> critical]

writeUnhashedSubPackets(sig) ==
    LET result == FlattenSeq(Tuple([i \in DOMAIN sig.unhashed |-> writeSimpleLength(Len(sig.unhashed[i])) \o sig.unhashed[i]]))
    IN  writeNumber(Len(result), 2) \o result
WriteSignature(sig) ==
    sig.signatureData \o writeUnhashedSubPackets(sig) \o sig.signedHashValue
      \o serializeParams(SignatureLayout(sig.publicKeyAlgorithm), sig.params)

(* What writeHashedSubPackets makes of a type.                             *)
HashedSubPacket(sig, type) ==
    CASE type = issuer ->
            IF sig.issuerKeyID # <<>> /\ sig.issuerKeyVersion # 5 THEN writeSubPacket(issuer, TRUE, sig.issuerKeyID) ELSE <<>>
      [] type = notationData -> FlattenSeq(Tuple([i \in DOMAIN sig.notations |-> writeNotation(sig.notations[i])]))
      [] type = embeddedSignature ->
            IF sig.embedded # <<>> THEN writeSubPacket(embeddedSignature, TRUE, WriteSignature(sig.embedded[1])) ELSE <<>>
      [] type = issuerFingerprint ->
            IF sig.fingerprint # Null
            THEN writeSubPacket(issuerFingerprint, sig.version = 5, <<sig.issuerKeyVersion>> \o sig.fingerprint) ELSE <<>>
      [] OTHER -> IF sig.sub[type] # Null THEN writeSubPacket(type, type \in Critical, Encoded(type, sig.sub[type])) ELSE <<>>
writeHashedSubPackets(sig) ==
    LET result == FlattenSeq(Tuple([i \in DOMAIN HashedOrder |-> HashedSubPacket(sig, HashedOrder[i])]))
    IN  writeNumber(Len(result), 2) \o result

(* Of an unhashed subpacket everything is kept, but only what needs no     *)
(* signature is believed.                                                  *)
IgnoredNone(hashed, type) == FALSE
Ignored(hashed, type) == ~hashed /\ type \notin Unhashed
RECURSIVE readSubPackets(_, _, _), ReadSignature(_)
WithEmbedded(sig, embedded) == IF embedded.ok THEN [sig EXCEPT !.embedded = <<embedded>>] ELSE [sig EXCEPT !.ok = FALSE]
BelievedSubPacket(sig, type, critical, content) ==
    CASE type \in Plain -> [sig EXCEPT !.sub[type] = Decoded(type, content)]
      [] type = issuer -> [sig EXCEPT !.issuerKeyID = Slice(content, 0, 8)]
      [] type = notationData -> [sig EXCEPT !.notations = Append(@, readNotation(content, critical))]
      [] type = embeddedSignature -> WithEmbedded(sig, ReadSignature(content))
      [] type = issuerFingerprint ->
            [sig EXCEPT !.issuerKeyVersion = content[1], !.fingerprint = Tail(content),
                        !.issuerKeyID = IF content[1] = 5 THEN Slice(Tail(content), 0, 8) ELSE LastBytes(Tail(content), 8)]
      [] type = signatureTarget -> [sig EXCEPT !.ok = FALSE]
      [] OTHER -> IF critical THEN [sig EXCEPT !.ok = FALSE] ELSE sig
Kept(sig, bytes, hashed) == IF hashed THEN sig ELSE [sig EXCEPT !.unhashed = Append(@, bytes)]
readSubPacket(sig, bytes, hashed) ==
    IF Ignored(hashed, bytes[1] % 128) THEN Kept(sig, bytes, hashed)
    ELSE BelievedSubPacket(Kept(sig, bytes, hashed), bytes[1] % 128, bytes[1] >= 128, Tail(bytes))
readSubPackets(sig, bytes, hashed) ==
    IF bytes = <<>> \/ ~sig.ok THEN sig
    ELSE LET l == readSimpleLength(bytes)
         IN  readSubPackets(readSubPacket(sig, Slice(bytes, l.offset, l.offset + l.len), hashed), Remainder(bytes, l.offset + l.len), hashed)
ReadArea(sig, area, hashed) == readSubPackets(sig, Slice(area, 2, 2 + readNumber(Slice(area, 0, 2))), hashed)
WithParams(sig, p) == IF p.ok THEN [sig EXCEPT !.params = p.params] ELSE Broken
(* After the areas there are the start of the digest and the parameters.   *)
ReadEnd(sig, signatureData, bytes) ==
    IF ~sig.ok THEN Broken
    ELSE WithParams([sig EXCEPT !.signatureData = signatureData, !.signedHashValue = Slice(bytes, 0, 2)],
                    ParseParams(SignatureLayout(sig.publicKeyAlgorithm), Remainder(bytes, 2)))
ReadUnhashed(sig, signatureData, rest) ==
    IF ~sig.ok \/ sig.sub[2] = Null THEN Broken
    ELSE ReadEnd(ReadArea(sig, rest, FALSE), signatureData, Remainder(rest, 2 + readNumber(Slice(rest, 0, 2))))
ReadSignature(bytes) ==
    LET area == Remainder(bytes, 4)
        end == 6 + readNumber(Slice(area, 0, 2))
        new == [NewSignature(bytes[2], bytes[3], bytes[4]) EXCEPT !.version = bytes[1]]
    IN  IF bytes[1] \notin {4, 5} \/ bytes[3] \notin SigningAlgorithms THEN Broken
        ELSE ReadUnhashed(ReadArea(new, area, TRUE), Slice(bytes, 0, end), Remainder(bytes, end))

(***************************************************************************)
(* What is signed.  Data are a literal packet [text, bytes, header], of    *)
(* which getText keeps the text; or a key with a user ID or attribute      *)
(* [key, tag, bytes], with a subkey [key, bind], or alone [key].           *)
(***************************************************************************)
Canonical(bytes) == FoldLeft(LAMBDA s, b : IF b = 10 /\ (s = <<>> \/ Last(s) # 13) THEN s \o <<13, 10>> ELSE Append(s, b), <<>>, bytes)
Native(bytes) == FoldLeft(LAMBDA s, b : IF b = 10 /\ s # <<>> /\ Last(s) = 13 THEN Append(Front(s), b) ELSE Append(s, b), <<>>, bytes)
TextLiteral(text) == [text |-> text, bytes |-> Canonical(encodeUTF8(text)), header |-> <<117, 0, 0, 0, 0, 1>>]
BytesLiteral(bytes) == [text |-> Null, bytes |-> bytes, header |-> <<98, 0, 0, 0, 0, 1>>]
GotText(data) == IF data.text = Null THEN [data EXCEPT !.text = decodeUTF8(Native(data.bytes))] ELSE data

KeyAlone(data, version) == writeForHash(data.key, version)
Certified(data) == <<data.tag>> \o writeNumber(Len(data.bytes), 4) \o data.bytes
toSign(type, data, version) ==
    CASE type = 0 -> IF data.text # Null THEN encodeUTF8(data.text) ELSE data.bytes
      [] type = 1 -> Canonical(data.bytes)
      [] type \in {2, 64} -> <<>>
      [] type \in {16, 17, 18, 19, 48} -> KeyAlone(data, version) \o Certified(data)
      [] type \in {24, 25, 40} -> KeyAlone(data, version) \o writeForHash(data.bind, version)
      [] type \in {31, 32} -> KeyAlone(data, version)

calculateTrailer(sig, data, detached) ==
    (IF sig.version = 5 /\ sig.signatureType \in {0, 1} THEN (IF detached THEN Zeros(6) ELSE data.header) ELSE <<>>)
      \o <<sig.version, 255>> \o (IF sig.version = 5 THEN Zeros(4) ELSE <<>>) \o writeNumber(Len(sig.signatureData), 4)
toHash(sig, type, data, detached) == toSign(type, data, sig.version) \o sig.signatureData \o calculateTrailer(sig, data, detached)

(* The signature on a digest with a key, in the form the algorithm returns *)
(* it: numbers are as long as the modulus or a coordinate.                 *)
SignatureBytes(k, hash, n) == Tuple([Digest(<<k.secret>> \o hash, n) EXCEPT ![1] = (@ % 4) * (@ % 2)])
SignatureOf(k, hash) ==
    LET algo == k.algorithm
        half == IF algo = ecdsa THEN payloadSize(k.publicParams[1]) ELSE 32
    IN  CASE algo \in RSA -> <<SignatureBytes(k, hash, Len(k.publicParams[1]))>>
          [] algo = dsa -> <<<<9>> \o hash, <<8>> \o hash>>
          [] algo \in {ecdsa, eddsaLegacy} -> <<SignatureBytes(k, hash, half), SignatureBytes(k, <<1>> \o hash, half)>>
          [] algo = ed25519 -> <<SignatureBytes(k, hash, 64)>>

(* What was not hashed goes, what was embedded is now hashed.              *)
SignPrologue(sig) == [sig EXCEPT !.unhashed = <<>>]
Issued(sig, k, created) ==
    [SignPrologue(sig) EXCEPT !.version = IF k.version = 5 THEN 5 ELSE 4, !.sub[2] = created,
                              !.issuerKeyVersion = k.version, !.fingerprint = fingerprint(k), !.issuerKeyID = keyID(k)]
Hashed(sig) ==
    [sig EXCEPT !.signatureData = <<sig.version, sig.signatureType, sig.publicKeyAlgorithm, sig.hashAlgorithm>> \o writeHashedSubPackets(sig)]
SignedDigest(sig, k, hash) == [sig EXCEPT !.signedHashValue = Slice(hash, 0, 2), !.params = SignatureOf(k, hash),
                                                    !.verified = TRUE]
DigestOf(sig, data, detached) == Digest(toHash(sig, sig.signatureType, data, detached), 32)
SignHashed(sig, k, data, detached) == SignedDigest(sig, k, DigestOf(sig, data, detached))
Sign(sig, k, data, created, detached) == SignHashed(Hashed(Issued(sig, k, created)), k, data, detached)

(* verify, as far as the signature goes.  A signature that was made here,  *)
(* or has verified, is cached as valid, whatever key and data it is given  *)
(* next; only those of messages are checked again.                         *)
SameStart(sig, hash) == sig.signedHashValue = Slice(hash, 0, 2)
ValidFor(sig, k, hash) == SameStart(sig, hash) /\ VerifiedParams(k.algorithm, sig.params, k.publicParams) = SignatureOf(k, hash)
SkipCached(sig) == sig.verified
SkipVerify(sig) == sig.verified /\ sig.signatureType \notin {0, 1}
VerifyHashed(sig, k, hash) ==
    [sig |-> IF SameStart(sig, hash) THEN [sig EXCEPT !.verified = ValidFor(sig, k, hash)] ELSE sig, verified |-> ValidFor(sig, k, hash)]
Verify(sig, k, data, detached) ==
    CASE sig.issuerKeyID # keyID(k) \/ sig.publicKeyAlgorithm # k.algorithm -> [sig |-> sig, verified |-> FALSE]
      [] sig.issuerKeyID = keyID(k) /\ sig.publicKeyAlgorithm = k.algorithm /\ SkipVerify(sig) -> [sig |-> sig, verified |-> TRUE]
      [] OTHER -> VerifyHashed(sig, k, DigestOf(sig, data, detached))
============================================================================
