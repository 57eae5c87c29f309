---------------------------- MODULE PacketBodies ---------------------------
(***************************************************************************)
(* The bodies of key, user, one-pass signature and session key packets     *)
(* (packet/): what is written, and what is read back from it.  A packet    *)
(* that could not be read has ok = FALSE.  Hashes, elliptic curves and     *)
(* symmetric encryption under a key are external: toy functions that keep  *)
(* apart what the runs compare.                                            *)
(***************************************************************************)
EXTENDS KeyMaterial, Padding, Framing

CONSTANT ExpBias    \* of the count byte of an iterated S2K: 6

ASSUME ExpBiasAssumption == ExpBias \in Nat

Null == <<-1>>
Broken == [ok |-> FALSE]

Digest(data, n) ==
    LET chunks == (Len(data) + 31) \div 32
        mixed(h, i) == (31 * h + data[i] + 1) % 65521
        chunk[i \in 0..Len(data)] == mixed(IF (i - 1) % 32 = 0 THEN 7 ELSE chunk[i - 1], i)
        total[k \in 0..chunks] == IF k = 0 THEN n ELSE (29 * total[k - 1] + chunk[IF k = chunks THEN Len(data) ELSE 32 * k]) % 65521
        h == total[chunks]
    IN  Tuple([i \in 1..n |-> ((h * ((2 * i) + 27)) \div (3 + (i % 5))) % 256])
(* Encryption under a key, with and without authentication.                *)
Ciphered(key, iv, data) == xor(data, Digest(key \o iv, Len(data)))
Sealed(key, iv, adata, data) == Ciphered(key, iv, data) \o Digest(key \o iv \o adata \o data, 16)
Authentic(key, iv, adata, c, data) == IF Sealed(key, iv, adata, data) = c THEN Returned(data) ELSE Thrown
Unsealed(key, iv, adata, c) == Authentic(key, iv, adata, c, Ciphered(key, iv, ButLast(c, 16)))
(* Multiplication of a point: some products have zeros at an end.          *)
Point(d) == <<64, (7 * d) % 251>>
Product(d, point) == LET n == (d * point[2]) % 251 IN <<(n % 2) * n, n, (n % 3) * n>>
XPoint(d) == Zeros(30) \o Point(d)
XProduct(d, point) == Product(d, LastBytes(point, 2))

(* enums.symmetric and enums.hash: bytes of a key and of a digest.         *)
KeySizes == [a \in {2, 3, 4, 7, 8, 9, 10} |-> CASE a \in {3, 4, 7} -> 16 [] a \in {2, 8} -> 24 [] a \in {9, 10} -> 32]
HashLengths == [a \in {1, 2, 3, 8, 9, 10, 11} |-> CASE a = 1 -> 16 [] a \in {2, 3} -> 20 [] a = 8 -> 32 [] a = 9 -> 48 [] a = 10 -> 64 [] a = 11 -> 28]
Symmetric == {0, 1} \cup DOMAIN KeySizes
isAES(a) == a \in {7, 8, 9}

(***************************************************************************)
(* Public keys.                                                            *)
(***************************************************************************)
writeKey(k) ==
    LET params == serializeParams(PublicLayout(k.algorithm), k.publicParams)
    IN  <<k.version>> \o k.created \o <<k.algorithm>>
          \o (IF k.version = 5 THEN writeNumber(Len(params), 4) ELSE <<>>) \o params
writeForHash(k, version) ==
    LET bytes == writeKey(k)
    IN  IF version = 5 THEN <<154>> \o writeNumber(Len(bytes), 4) \o bytes
        ELSE <<153>> \o writeNumber(Len(bytes), 2) \o bytes
fingerprint(k) == Digest(writeForHash(k, k.version), IF k.version = 5 THEN 32 ELSE 20)
keyID(k) == Slice(fingerprint(k), IF k.version = 5 THEN 0 ELSE 12, IF k.version = 5 THEN 8 ELSE 20)
hasSameFingerprintAs(k, other) == k.version = other.version /\ writeKey(k) = writeKey(other)

KeyStart(bytes) == IF bytes[1] = 5 THEN 10 ELSE 6
KeyOf(bytes, p) ==
    IF ~p.ok THEN Broken
    ELSE [ok |-> TRUE, version |-> bytes[1], created |-> Slice(bytes, 1, 5), algorithm |-> bytes[6],
          publicParams |-> p.params, read |-> KeyStart(bytes) + p.read]
readKey(bytes) ==
    IF bytes[1] \notin {4, 5} \/ bytes[6] \notin EncryptionAlgorithms \cup SigningAlgorithms THEN Broken
    ELSE KeyOf(bytes, ParseParams(PublicLayout(bytes[6]), Remainder(bytes, KeyStart(bytes))))

(***************************************************************************)
(* One-pass signatures, user attributes.                                   *)
(***************************************************************************)
writeOnePass(p) == <<3, p.signatureType, p.hashAlgorithm, p.publicKeyAlgorithm>> \o p.issuerKeyID \o <<p.flags>>
readOnePass(bytes) ==
    IF bytes[1] # 3 THEN Broken
    ELSE [ok |-> TRUE, signatureType |-> bytes[2], hashAlgorithm |-> bytes[3], publicKeyAlgorithm |-> bytes[4],
          issuerKeyID |-> Slice(bytes, 4, 12), flags |-> bytes[13]]

writeAttributes(attributes) == FlattenSeq(Tuple([i \in DOMAIN attributes |-> writeSimpleLength(Len(attributes[i])) \o attributes[i]]))
RECURSIVE readAttributes(_)
readAttributes(bytes) ==
    IF bytes = <<>> THEN <<>>
    ELSE LET l == readSimpleLength(bytes)
         IN  <<Slice(bytes, l.offset, l.offset + l.len)>> \o readAttributes(Remainder(bytes, l.offset + l.len))

(***************************************************************************)
(* String-to-key specifiers.                                               *)
(***************************************************************************)
getCount(c) == (16 + (c % 16)) * 2 ^ ((c \div 16) + ExpBias)
writeS2K(s) ==
    CASE s.type = "gnu-dummy" -> <<101, 0, 71, 78, 85, 1>>
      [] s.type = "simple" -> <<0, s.algorithm>>
      [] s.type = "salted" -> <<1, s.algorithm>> \o s.salt
      [] s.type = "iterated" -> <<3, s.algorithm>> \o s.salt \o <<s.c>>
readS2K(bytes) ==
    LET S(type, salt, c, read) == [ok |-> TRUE, type |-> type, algorithm |-> bytes[2], salt |-> salt, c |-> c, read |-> read]
    IN  CASE bytes[1] = 0 -> S("simple", Null, 0, 2)
          [] bytes[1] = 1 -> S("salted", Slice(bytes, 2, 10), 0, 10)
          [] bytes[1] = 3 -> S("iterated", Slice(bytes, 2, 10), bytes[11], 11)
          [] bytes[1] = 101 /\ Slice(bytes, 2, 6) = <<71, 78, 85, 1>> -> S("gnu-dummy", Null, 0, 6)
          [] OTHER -> Broken

(* The text is doubled until its end passes the count, not the count and   *)
(* the prefix; what is then still missing is zero.                         *)
Filled(d, prefixlen, count) == Min({d * 2 ^ k : k \in {j \in 0..10 : prefixlen + d * 2 ^ j >= count}})
S2KText(s, passphrase, prefixlen) ==
    LET data == IF s.type = "simple" THEN passphrase ELSE s.salt \o passphrase
        count == Larger(getCount(s.c), Len(data))
        filled == Filled(Len(data), prefixlen, count)
    IN  IF s.type # "iterated" THEN Zeros(prefixlen) \o data
        ELSE [i \in 1..(prefixlen + count) |->
                 IF i =< prefixlen \/ i > prefixlen + filled THEN 0 ELSE data[((i - prefixlen - 1) % Len(data)) + 1]]
produceKey(s, passphrase, numBytes) ==
    LET size == HashLengths[s.algorithm]
        blocks == (numBytes + size - 1) \div size
    IN  Slice(FlattenSeq(Tuple([j \in 1..blocks |-> Digest(S2KText(s, passphrase, j - 1), size)])), 0, numBytes)

(***************************************************************************)
(* Session keys under a passphrase.                                        *)
(***************************************************************************)
AdataOf(p) == <<195, p.version, p.keyAlgorithm, p.aead>>
IvLength(aead) == CASE aead = 1 -> 16 [] aead = 2 -> 15 [] aead = 100 -> 12
EncryptedUnder(k, p, iv, session) ==
    IF p.version = 5 THEN Sealed(k, iv, AdataOf(p), session.key) ELSE Ciphered(k, <<>>, <<session.algorithm>> \o session.key)
encryptSKESK(p, iv, passphrase, session) ==
    [version |-> p.version, keyAlgorithm |-> p.keyAlgorithm, algorithm |-> session.algorithm, aead |-> p.aead, s2k |-> p.s2k, iv |-> iv,
     encrypted |-> EncryptedUnder(produceKey(p.s2k, passphrase, KeySizes[p.keyAlgorithm]), p, iv, session)]
writeSKESK(p) ==
    <<p.version, IF p.encrypted = Null THEN p.algorithm ELSE p.keyAlgorithm>> \o (IF p.version = 5 THEN <<p.aead>> ELSE <<>>)
      \o writeS2K(p.s2k) \o p.iv \o (IF p.encrypted = Null THEN <<>> ELSE p.encrypted)
(* What a version 5 packet does not say stays as the constructor left it:  *)
(* AES-256.                                                                *)
SKESKOf(bytes, s2k, offset) ==
    LET v5 == bytes[1] = 5
        start == IF v5 THEN offset + IvLength(bytes[3]) ELSE offset
        encrypted == v5 \/ start < Len(bytes)
    IN  [ok |-> TRUE, version |-> bytes[1], aead |-> IF v5 THEN bytes[3] ELSE 0, s2k |-> s2k, iv |-> Slice(bytes, offset, start),
         keyAlgorithm |-> IF encrypted THEN bytes[2] ELSE 0, algorithm |-> IF encrypted THEN 9 ELSE bytes[2],
         encrypted |-> IF encrypted THEN Remainder(bytes, start) ELSE Null]
readSKESK(bytes) ==
    LET start == IF bytes[1] = 5 THEN 3 ELSE 2
        s2k == readS2K(Remainder(bytes, start))
    IN  IF bytes[1] \notin {4, 5} \/ ~s2k.ok THEN Broken ELSE SKESKOf(bytes, s2k, start + s2k.read)
Session(algorithm, key) == [ok |-> TRUE, algorithm |-> algorithm, key |-> key]
SealedSession(p, opened) == IF opened.ok THEN Session(p.algorithm, opened.bytes) ELSE Broken
PlainSession(decrypted) == IF decrypted[1] \in Symmetric THEN Session(decrypted[1], Remainder(decrypted, 1)) ELSE Broken
DecryptedUnder(p, k) ==
    CASE p.version = 5 -> SealedSession(p, Unsealed(k, p.iv, AdataOf(p), p.encrypted))
      [] p.version = 4 /\ p.encrypted # Null -> PlainSession(Ciphered(k, <<>>, p.encrypted))
      [] OTHER -> Session(p.algorithm, k)
decryptSKESK(p, passphrase) ==
    DecryptedUnder(p, produceKey(p.s2k, passphrase, KeySizes[IF p.keyAlgorithm # 0 THEN p.keyAlgorithm ELSE p.algorithm]))

(***************************************************************************)
(* Session keys for a public key.                                          *)
(***************************************************************************)
NoSession == [algorithm |-> 0, key |-> <<>>]

encodeSessionKey(keyAlgo, session) ==
    IF keyAlgo = x25519 THEN session.key
    ELSE <<session.algorithm>> \o session.key \o writeChecksum(Remainder(session.key, Len(session.key) % 8))
(* Without a random session key, what is invalid throws; with one, the     *)
(* algorithm and the length must be its own.                               *)
ChecksumOfAll(result) == writeChecksum(result)
ComputedChecksum(result) == writeChecksum(Remainder(result, Len(result) % 8))
SessionOf(result, isValidChecksum, random) ==
    LET decrypted == [algorithm |-> ByteAt(result, 1), key |-> Remainder(result, 1)]
        isValidPayload == /\ isValidChecksum
                          /\ IF random = NoSession THEN decrypted.algorithm \in Symmetric
                             ELSE decrypted.algorithm = random.algorithm /\ Len(decrypted.key) = Len(random.key)
    IN  CASE random # NoSession -> Session(IF isValidPayload THEN decrypted.algorithm ELSE random.algorithm,
                                           selectUint8Array(isValidPayload, decrypted.key, random.key))
          [] random = NoSession /\ isValidPayload -> Session(decrypted.algorithm, decrypted.key)
          [] OTHER -> Broken
decodeSessionKey(keyAlgo, data, random) ==
    IF keyAlgo = x25519 THEN Session(0, data)
    ELSE SessionOf(ButLast(data, 2), ComputedChecksum(ButLast(data, 2)) = LastBytes(data, 2), random)

buildEcdhParam(k) ==
    <<Len(k.publicParams[1])>> \o k.publicParams[1] \o <<ecdh, 3, 1>> \o k.publicParams[3] \o Zeros(20) \o Slice(fingerprint(k), 0, 20)
Stripped(X, leading, trailing) ==
    LET kept == {i \in DOMAIN X : X[i] # 0}
    IN  SubSeq(X, IF leading THEN Min(kept \cup {Len(X) + 1}) ELSE 1, IF trailing THEN Max(kept \cup {0}) ELSE Len(X))
kdf(k, X, leading, trailing) ==
    Slice(Digest(<<0, 0, 0, 1>> \o Stripped(X, leading, trailing) \o buildEcdhParam(k), HashLengths[k.publicParams[3][1]]),
          0, KeySizes[k.publicParams[3][2]])
(* The key wrap of CipherModes, under a key: what another key wrapped throws.*)
WrappedUnder(Z, m) == Sealed(Z, <<>>, <<>>, m)
UnwrappedUnder(Z, c) == Unsealed(Z, <<>>, <<>>, c)

(* hkdf over the two points and their product.                             *)
XKeyOf(V, A, shared) == Digest(V \o A \o shared, 16)

(* An RSA or ElGamal ciphertext hides an encoded message of the modulus'   *)
(* length; `draw' is what the algorithm draws at random.  Other writers    *)
(* strip zeros off the shared secret.                                      *)
publicKeyEncrypt(k, cipherAlgo, data, draw, writer) ==
    LET length == Len(k.publicParams[1])
        encoded == emeEncode(data, length, <<Tuple([i \in 1..length |-> (i % 255) + 1])>>).bytes
        X == Product(draw, k.publicParams[2])
        Z == kdf(k, X, writer = "go", writer = "old")
        A == k.publicParams[1]
    IN  CASE k.algorithm \in {1, 2} -> <<Ciphered(<<k.publicParams[2][1]>>, <<>>, encoded)>>
          [] k.algorithm = elgamal -> <<Point(draw), Ciphered(Product(draw, k.publicParams[3]), <<>>, encoded)>>
          [] k.algorithm = ecdh -> <<Point(draw), WrappedUnder(Z, pkcs5Encode(data))>>
          [] k.algorithm = x25519 ->
                <<XPoint(draw), <<cipherAlgo>> \o WrappedUnder(XKeyOf(XPoint(draw), A, XProduct(draw, A)), data)>>
(* The attempts of ecdh.decrypt: as it is, without leading zeros, without  *)
(* trailing zeros.                                                         *)
Attempts(k, X) == <<kdf(k, X, FALSE, FALSE), kdf(k, X, TRUE, FALSE), kdf(k, X, FALSE, TRUE)>>
Unpadded(u) == IF u.ok THEN pkcs5Decode(u.bytes) ELSE u
FirstGood(m) == LET good == {i \in DOMAIN m : m[i].ok} IN IF good = {} THEN Thrown ELSE m[Min(good)]
UnwrappedEach(Z, C) == Tuple([i \in DOMAIN Z |-> Unpadded(UnwrappedUnder(Z[i], C))])
ecdhDecrypt(k, V, C) == FirstGood(UnwrappedEach(Attempts(k, Product(k.secret, V)), C))
publicKeyDecrypt(k, params, randomPayload) ==
    LET length == Len(k.publicParams[1])
        Number(c) == leftPad(c, Larger(length, Len(c)))
    IN  CASE k.algorithm \in {1, 2} -> emeDecode(Ciphered(<<k.secret>>, <<>>, Number(params[1])), randomPayload)
          [] k.algorithm = elgamal -> emeDecode(Ciphered(Product(k.secret, params[1]), <<>>, Number(params[2])), randomPayload)
          [] k.algorithm = ecdh -> ecdhDecrypt(k, params[1], params[2])
          [] k.algorithm = x25519 ->
                IF ~isAES(params[2][1]) THEN Thrown
                ELSE UnwrappedUnder(XKeyOf(params[1], k.publicParams[1], XProduct(k.secret, params[1])), Tail(params[2]))

encryptPKESK(k, session, draw, writer) ==
    [ok |-> ~(k.algorithm = x25519 /\ ~isAES(session.algorithm)), keyID |-> keyID(k), algorithm |-> k.algorithm, cipher |-> session.algorithm,
     encrypted |-> publicKeyEncrypt(k, session.algorithm, encodeSessionKey(k.algorithm, session), draw, writer)]
writePKESK(p) == <<3>> \o p.keyID \o <<p.algorithm>> \o serializeParams(SessionLayout(p.algorithm), p.encrypted)
PKESKOf(bytes, p) ==
    IF ~p.ok \/ (bytes[10] = x25519 /\ p.params[2][1] \notin Symmetric \ {0}) THEN Broken
    ELSE [ok |-> TRUE, keyID |-> Slice(bytes, 1, 9), algorithm |-> bytes[10],
          cipher |-> IF bytes[10] = x25519 THEN p.params[2][1] ELSE 0, encrypted |-> p.params]
readPKESK(bytes) ==
    IF bytes[1] # 3 \/ bytes[10] \notin EncryptionAlgorithms THEN Broken
    ELSE PKESKOf(bytes, ParseParams(SessionLayout(bytes[10]), Remainder(bytes, 10)))
WithCipher(p, session) == IF session.ok /\ p.algorithm = x25519 THEN [session EXCEPT !.algorithm = p.cipher] ELSE session
SessionFrom(p, data, random) == IF data.ok THEN WithCipher(p, decodeSessionKey(p.algorithm, data.bytes, random)) ELSE Broken
decryptPKESK(p, k, random) ==
    IF p.algorithm # k.algorithm THEN Broken
    ELSE SessionFrom(p, publicKeyDecrypt(k, p.encrypted, IF random = NoSession THEN NoPayload ELSE encodeSessionKey(p.algorithm, random)), random)
============================================================================
