------------------------------ MODULE Formats ------------------------------
(***************************************************************************)
(* Packets on their way: keys and their parameters, session keys and       *)
(* signatures are written, read by someone else and used.  What is on its  *)
(* way is in `obj'; a signature can be given unhashed subpackets by anyone,*)
(* a session key packet can be damaged.                                    *)
(***************************************************************************)
EXTENDS Algorithms, Signatures

CONSTANTS
    FormatKeys,     \* records of a version, a time, an algorithm and its parameters
    ParamCases,     \* [kind, k, params]: parameters to write
    S2Ks,           \* [s2k, passphrase, numBytes]
    Sessions,       \* [algorithm, key]
    PasswordCases,  \* [version, keyAlgorithm, aead, s2k]
    SignatureCases, \* what is signed, by whom, with which subpackets
    Attachments,    \* sequences of subpackets that are added on the way
    OtherData       \* what a signature is compared with besides its own data

(***************************************************************************)
(* Keys, parameters, small packets.                                        *)
(***************************************************************************)
LayoutOf(c) ==
    CASE c.kind = "public" -> PublicLayout(c.k.algorithm)
      [] c.kind = "private" -> PrivateLayout(c.k.algorithm, c.k.publicParams)
      [] c.kind = "signature" -> SignatureLayout(c.k.algorithm)
ReadParams(c) ==
    /\ obj = Nothing /\ call = NoCall
    /\ \E bytes \in {serializeParams(LayoutOf(c), c.params)} :
          \E p \in {ParseParams(LayoutOf(c), bytes \o <<9, 9>>)} :
             Called("params", <<c>>, c.kind,
                    [ok |-> p.ok /\ p.read = Len(bytes),
                     params |-> IF p.ok /\ c.kind = "signature" THEN VerifiedParams(c.k.algorithm, p.params, c.k.publicParams) ELSE p.params])
    /\ UNCHANGED obj

(* A key packet with the private part behind it.                           *)
ReadKey(k) ==
    /\ obj = Nothing /\ call = NoCall
    /\ \E r \in {readKey(writeKey(k) \o <<255, 9>>)} :
          Called("key", <<k>>, "none", [read |-> r, same |-> {o \in FormatKeys : r.ok /\ hasSameFingerprintAs(o, r)}])
    /\ UNCHANGED obj

ReadOnePass(type, k, flags) ==
    /\ obj = Nothing /\ call = NoCall
    /\ \E p \in {[signatureType |-> type, hashAlgorithm |-> 8, publicKeyAlgorithm |-> k.algorithm, issuerKeyID |-> keyID(k), flags |-> flags]} :
          Called("onePass", <<p>>, "none", readOnePass(writeOnePass(p)))
    /\ UNCHANGED obj
ReadAttributes(lengths) ==
    /\ obj = Nothing /\ call = NoCall
    /\ \E attributes \in {Tuple([i \in DOMAIN lengths |-> Tuple(Bytes(lengths[i], i))])} :
          Called("attributes", <<attributes>>, "none", [attributes |-> readAttributes(writeAttributes(attributes))])
    /\ UNCHANGED obj

(* A specifier that is read in another packet derives the key.             *)
DeriveKey(c) ==
    /\ obj = Nothing /\ call = NoCall
    /\ \E s \in {readS2K(writeS2K(c.s2k) \o <<7>>)} :
          Called("s2k", <<c>>, "none",
                 [read |-> s, key |-> IF s.ok /\ s.type # "gnu-dummy" THEN produceKey(s, c.passphrase, c.numBytes) ELSE Null])
    /\ UNCHANGED obj

(***************************************************************************)
(* Session keys, for a key or under a passphrase.                          *)
(***************************************************************************)
SendSession(k, session, draw, writer) ==
    /\ obj = Nothing /\ call = NoCall
    /\ \E p \in {encryptPKESK(k, session, draw, writer)} :
          IF p.ok THEN /\ obj' = [kind |-> "pkesk", k |-> k, session |-> session, intact |-> TRUE, bytes |-> writePKESK(p)]
                       /\ UNCHANGED call
          ELSE Called("pkesk.encrypt", <<k, session>>, "none", Thrown) /\ UNCHANGED obj
(* A byte changes, counted from the end.                                   *)
Damage(i) ==
    /\ obj.kind = "pkesk" /\ call = NoCall /\ obj.intact
    /\ obj' = [obj EXCEPT !.bytes = Flip(@, Len(@) - i), !.intact = FALSE]
    /\ UNCHANGED call
(* With a key that fits; `random' is what is returned in place of an error.*)
ReceiveSession(k, random) ==
    /\ obj.kind = "pkesk" /\ call = NoCall
    /\ Called("pkesk", <<k, random>>, "none", decryptPKESK(readPKESK(obj.bytes), k, random))
    /\ UNCHANGED obj

SendUnderPassword(c, session, passphrase) ==
    /\ obj = Nothing /\ call = NoCall
    /\ obj' = [kind |-> "skesk", passphrase |-> passphrase, session |-> session, version |-> c.version,
               bytes |-> writeSKESK(encryptSKESK(c, Bytes(IF c.version = 5 THEN IvLength(c.aead) ELSE 0, 4), passphrase, session))]
    /\ UNCHANGED call
(* Other writers leave out the encrypted key: the passphrase gives it.     *)
SendWithoutKey(c, passphrase) ==
    /\ obj = Nothing /\ call = NoCall /\ c.version = 4
    /\ obj' = [kind |-> "skesk", passphrase |-> passphrase, version |-> 4,
               session |-> [algorithm |-> c.keyAlgorithm, key |-> produceKey(c.s2k, passphrase, KeySizes[c.keyAlgorithm])],
               bytes |-> writeSKESK([version |-> 4, algorithm |-> c.keyAlgorithm, s2k |-> c.s2k, iv |-> <<>>, encrypted |-> Null])]
    /\ UNCHANGED call
ReceiveUnderPassword(passphrase) ==
    /\ obj.kind = "skesk" /\ call = NoCall
    /\ Called("skesk", <<passphrase>>, "none", decryptSKESK(readSKESK(obj.bytes), passphrase))
    /\ UNCHANGED obj

(***************************************************************************)
(* Signatures.  `meant' is what the signer said, `foreign' whether someone *)
(* else has put another key's ID among the unhashed subpackets.            *)
(***************************************************************************)
Prepared(c) ==
    [NewSignature(c.type, c.k.algorithm, 8) EXCEPT
        !.sub = [t \in Plain |-> IF t \in DOMAIN c.sub THEN c.sub[t] ELSE Null], !.notations = c.notations, !.embedded = c.embedded]
Signed(s, c, data) ==
    [kind |-> "signature", sig |-> s, c |-> c, made |-> data, data |-> data, got |-> FALSE, travelled |-> FALSE, foreign |-> FALSE,
     meant |-> [sub |-> s.sub, notations |-> s.notations, embedded |-> Len(s.embedded)]]
SignData(c) ==
    /\ obj = Nothing /\ call = NoCall
    /\ obj' = Signed(Sign(Prepared(c), c.k, c.data, <<90, 0, 0, 1>>, c.detached), c, c.data)
    /\ UNCHANGED call
IsForeign(k, subpacket) == subpacket[1] = issuer /\ Tail(subpacket) # keyID(k)
(* A literal packet arrives as bytes.                                      *)
Travel(attached) ==
    /\ obj.kind = "signature" /\ call = NoCall /\ ~obj.travelled /\ obj.sig.ok
    /\ obj' = [obj EXCEPT !.sig = ReadSignature(WriteSignature([@ EXCEPT !.unhashed = @ \o attached])), !.travelled = TRUE,
                          !.data = IF obj.c.type \in {0, 1} THEN [@ EXCEPT !.text = Null] ELSE @,
                          !.foreign = \E i \in DOMAIN attached : IsForeign(obj.c.k, attached[i]),
                          !.meant.embedded = IF \E i \in DOMAIN attached : attached[i][1] = embeddedSignature THEN 1 ELSE @]
    /\ UNCHANGED call
GetText ==
    /\ obj.kind = "signature" /\ call = NoCall /\ obj.c.type \in {0, 1} /\ ~obj.got /\ obj.travelled
    /\ obj' = [obj EXCEPT !.data = GotText(@), !.got = TRUE]
    /\ UNCHANGED call
SignAgain ==
    /\ obj.kind = "signature" /\ call = NoCall /\ obj.travelled /\ obj.sig.ok /\ ~obj.got /\ obj.sig.sub[2] # <<90, 0, 0, 2>>
    /\ obj' = Signed(Sign(obj.sig, obj.c.k, obj.data, <<90, 0, 0, 2>>, obj.c.detached), obj.c, obj.data)
    /\ UNCHANGED call
VerifySignature(k, data, detached) ==
    /\ obj.kind = "signature" /\ call = NoCall /\ obj.sig.ok
    /\ \E r \in {Verify(obj.sig, k, data, detached)} :
          /\ obj' = [obj EXCEPT !.sig = r.sig]
          /\ Called("verify", <<k, data, detached>>, IF obj.sig.verified THEN "cached" ELSE "none", [verified |-> r.verified])

Materials ==
    \/ \E c \in ParamCases : ReadParams(c)
    \/ \E k \in FormatKeys : ReadKey(k)
    \/ \E type \in {0, 1}, k \in FormatKeys, flags \in {0, 1} : ReadOnePass(type, k, flags)
    \/ \E lengths \in {<<>>, <<0>>, <<191, 3>>, <<192>>, <<1, 8384, 2>>} : ReadAttributes(lengths)
    \/ \E c \in S2Ks : DeriveKey(c)
SessionKeyPackets ==
    \/ \E k \in FormatKeys : k.algorithm \in EncryptionAlgorithms
          /\ \E session \in Sessions, draw \in {2, 9}, writer \in {"own", "go", "old"} : SendSession(k, session, draw, writer)
    \/ \E i \in {0, 9, 21, 33} : Damage(i)
    \/ \E k \in FormatKeys, random \in Sessions \cup {NoSession} : k.algorithm \in EncryptionAlgorithms /\ ReceiveSession(k, random)
    \/ \E c \in PasswordCases, session \in Sessions, passphrase \in {<<1>>, <<2, 3>>} : SendUnderPassword(c, session, passphrase)
    \/ \E c \in PasswordCases, passphrase \in {<<1>>, <<2, 3>>} : SendWithoutKey(c, passphrase)
    \/ \E passphrase \in {<<1>>, <<2, 3>>} : ReceiveUnderPassword(passphrase)
SignaturePackets ==
    \/ \E c \in SignatureCases : SignData(c)
    \/ \E attached \in Attachments : Travel(attached)
    \/ GetText
    \/ SignAgain
    \/ obj.kind = "signature" /\ \E detached \in BOOLEAN :
          \/ \E k \in FormatKeys : VerifySignature(k, obj.data, detached)
          \/ \E data \in OtherData[obj.c.type] : VerifySignature(obj.c.k, data, detached)

FormatsNext == Next \/ Materials \/ SessionKeyPackets \/ SignaturePackets
FormatsSpec == Init /\ [][FormatsNext]_vars

(***************************************************************************)
(* Properties.                                                             *)
(***************************************************************************)
(* RFC 4880: the hash of the salt and passphrase over and over, up to the  *)
(* count, behind as many zeros as there are earlier blocks.                *)
RefS2K(s, passphrase, numBytes) ==
    LET data == IF s.type = "simple" THEN passphrase ELSE s.salt \o passphrase
        count == IF s.type = "iterated" THEN Larger(getCount(s.c), Len(data)) ELSE Len(data)
        size == HashLengths[s.algorithm]
        block(j) == Digest(Zeros(j) \o Tuple([i \in 1..count |-> data[((i - 1) % Len(data)) + 1]]), size)
    IN  Slice(block(0) \o (IF numBytes > size THEN block(1) ELSE <<>>), 0, numBytes)
(* The one length at which produceKey leaves out the last byte of a second *)
(* block.                                                                  *)
LastByteLost(c) == c.s2k.type = "iterated" /\ Len(c.passphrase) + 8 = getCount(c.s2k.c) - 1

(* What is written is read back with what follows left alone: parameters   *)
(* whose numbers have leading zeros come back in the length the algorithms *)
(* expect, a key is the same key and no other, and a specifier derives the *)
(* key that its definition says.                                           *)
MaterialRight ==
    /\ call.op = "params" => call.out = [ok |-> TRUE, params |-> call.in[1].params]
    /\ call.op = "key" =>
          LET k == call.in[1]
              r == call.out.read
          IN  /\ r.ok /\ r.read = Len(writeKey(k))
              /\ [version |-> r.version, created |-> r.created, algorithm |-> r.algorithm, publicParams |-> r.publicParams, secret |-> k.secret] = k
              /\ call.out.same = {k}
    /\ call.op = "onePass" => \A field \in DOMAIN call.in[1] : call.out[field] = call.in[1][field]
    /\ call.op = "attributes" => call.out.attributes = call.in[1]
    /\ call.op = "s2k" =>
          LET c == call.in[1]
              r == call.out.read
          IN  /\ r.ok /\ r.type = c.s2k.type /\ r.read = Len(writeS2K(c.s2k))
              /\ c.s2k.type # "gnu-dummy" /\ ~LastByteLost(c) => call.out.key = RefS2K(c.s2k, c.passphrase, c.numBytes)

(* A session key packet gives its session key to the right secret, from    *)
(* whatever writer, and to no other.  If a random session key is to hide   *)
(* errors, RSA and ElGamal packets give that one instead of every error:   *)
(* another key, damage, or another algorithm or length than its own.       *)
(* X25519 takes AES only, and what a version 5 packet leaves out is        *)
(* AES-256.                                                                *)
Opened(session) == Session(session.algorithm, session.key)
Hides(k, random) == random # NoSession /\ k.algorithm \in {1, 2, elgamal}
Fits(session, random) == session.algorithm = random.algorithm /\ Len(session.key) = Len(random.key)
SessionKeysRight ==
    /\ call.op = "pkesk.encrypt" => call.in[1].algorithm = x25519 /\ call.in[2].algorithm \notin {7, 8, 9}
    /\ call.op = "pkesk" =>
          LET k == call.in[1]
              random == call.in[2]
              own == IF obj.k.algorithm = x25519 \/ random = NoSession \/ Fits(obj.session, random) THEN obj.session ELSE random
          IN  CASE obj.intact /\ k = obj.k -> call.out = Opened(own)
                [] ~(obj.intact /\ k = obj.k) /\ k.algorithm = obj.k.algorithm /\ Hides(k, random) ->
                      call.out \in {Opened(random)} \cup (IF k = obj.k THEN {Opened(own)} ELSE {})
                [] OTHER -> call.out \in {Broken} \cup (IF k = obj.k THEN {Opened(own)} ELSE {})
    /\ call.op = "skesk" =>
          LET expected == Opened(IF obj.version = 5 THEN [obj.session EXCEPT !.algorithm = 9] ELSE obj.session)
          IN  IF call.in[1] = obj.passphrase THEN call.out = expected
              ELSE call.out # expected /\ (obj.version = 5 => call.out = Broken)

(* What the signer said is what is believed, whatever others add on the    *)
(* way; and a signature verifies for the key that made it on what it was   *)
(* made for, up to line ends in a text, and on nothing else: neither with  *)
(* the ID of another key in front, nor on another tag, key or header.  One *)
(* over keys and users that was just made, or has verified, is cached as   *)
(* valid (signature.js:679), and verifies for its key on any data; one over*)
(* a message, or just read, never does.  Left out is a binary signature on *)
(* a packet that someone has asked for its text, which toSign prefers to   *)
(* the bytes, if the text has other line ends.                             *)
RefNative(bytes) == SelectSeq([i \in DOMAIN bytes |-> IF bytes[i] = 13 /\ i < Len(bytes) /\ bytes[i + 1] = 10 THEN -1 ELSE bytes[i]], LAMBDA b : b # -1)
Meaning(type, data) ==
    CASE type = 0 -> data.bytes
      [] type = 1 -> RefNative(data.bytes)
      [] type \in {2, 64} -> Null
      [] OTHER -> data
OnItsData(data) == Meaning(obj.c.type, data) = Meaning(obj.c.type, obj.made)
ByItsSigner(k, data, detached) ==
    /\ k = obj.c.k /\ ~obj.foreign
    /\ obj.c.type \in {0, 1} /\ k.version = 5 => detached = obj.c.detached /\ (detached \/ data.header = obj.made.header)
OtherLineEnds(data) == obj.c.type = 0 /\ data.text # Null /\ RefNative(data.bytes) # data.bytes
SignaturesHold ==
    /\ obj.kind = "signature" =>
          /\ obj.sig.ok
          /\ [sub |-> obj.sig.sub, notations |-> obj.sig.notations, embedded |-> Len(obj.sig.embedded)] = obj.meant
    /\ call.op = "verify" =>
          LET data == call.in[2]
              known == call.mark = "cached" /\ obj.c.type \notin {0, 1}
          IN  /\ call.out.verified => ByItsSigner(call.in[1], data, call.in[3])
              /\ ~OtherLineEnds(data) =>
                    (call.out.verified <=> ByItsSigner(call.in[1], data, call.in[3]) /\ (known \/ OnItsData(data)))
============================================================================
