------------------------------ MODULE Padding ------------------------------
(***************************************************************************)
(* PKCS #1 v1.5 and PKCS #5 padding (crypto/pkcs1.js, crypto/pkcs5.js).    *)
(***************************************************************************)
EXTENDS CipherModes

(* Zeros among the random bytes are dropped, and as many are drawn again.  *)
getPKCS1Padding(length, draws) == Slice(SelectSeq(FlattenSeq(draws), LAMBDA b : b # 0), 0, length)

emeEncode(message, keyLength, draws) ==
    IF Len(message) > keyLength - 11 THEN Thrown
    ELSE Returned(<<0, 2>> \o getPKCS1Padding(keyLength - Len(message) - 3, draws) \o <<0>> \o message)

(* What is selected on an error is randomPayload, or an error.             *)
NoPayload == <<-1>>
emeDecode(encoded, randomPayload) ==
    LET separator == Min({Len(encoded) + 1} \cup {j \in 3..Len(encoded) : encoded[j] = 0})
        psLen == separator - 3
        payload == Remainder(encoded, separator)
        isValidPadding == encoded[1] = 0 /\ encoded[2] = 2 /\ psLen >= 8 /\ separator =< Len(encoded)
    IN  IF randomPayload # NoPayload THEN Returned(selectUint8Array(isValidPadding, payload, randomPayload))
        ELSE IF isValidPadding THEN Returned(payload) ELSE Thrown

(* By the length of the hash's ASN.1 prefix and of the hash.               *)
emsaEncode(hashPrefix, hashed, hashLength, emLen) ==
    LET tLen == Len(hashPrefix) + Len(hashed)
    IN  IF Len(hashed) # hashLength \/ emLen < tLen + 11 THEN Thrown
        ELSE Returned(<<0, 1>> \o [i \in 1..(emLen - tLen - 3) |-> 255] \o <<0>> \o hashPrefix \o hashed)

pkcs5Encode(message) ==
    LET c == 8 - (Len(message) % 8) IN message \o [i \in 1..c |-> c]

(* subarray(len - c) counts from the end when the last byte is too large.  *)
pkcs5Decode(message) ==
    LET len == Len(message)
        c == IF len > 0 THEN message[len] ELSE 0
        provided == IF c =< len THEN LastBytes(message, c) ELSE LastBytes(message, c - len)
    IN  IF c >= 1 /\ provided = [i \in 1..c |-> c] THEN Returned(ButLast(message, c)) ELSE Thrown
============================================================================
