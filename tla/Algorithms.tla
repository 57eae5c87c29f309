----------------------------- MODULE Algorithms ----------------------------
(***************************************************************************)
(* The pure algorithms of crypto/ under the calls the library makes: an    *)
(* object that keeps state between calls (an OCB instance, a CFB transform,*)
(* a CRC, a search for a prime) or a key, and the last call on it with its *)
(* outcome.  Each is compared with a definition that goes about it in      *)
(* another way.                                                            *)
(***************************************************************************)
EXTENDS Padding, PublicKeys

CONSTANTS
    Lengths,        \* of texts and associated data
    OCBCases,       \* a text's and the data's length, and the nonce's last byte
    Shapes,         \* [block, length] of CFB streams
    Pieces,         \* lengths of the values of a stream
    Keys,           \* lengths of the keys that are wrapped, in 8 bytes
    KeyLength,      \* bytes of an RSA modulus, for padding
    Payloads,       \* byte strings that are padded
    MaxData,        \* bytes a CRC is computed over at most
    Bits,           \* lengths of primes
    Exponent,       \* the public exponent, 65537
    Primes,         \* primes that RSA keys are made of
    DSAKeys, ElGamalKeys

VARIABLES
    obj,    \* the object called, by its kind
    call    \* the last call: what was asked, with what, and what came of it

vars == <<obj, call>>

Nothing == [kind |-> "none"]
NoCall == [op |-> "none", out |-> Returned(<<>>)]
Bytes(n, seed) == [i \in 1..n |-> (37 * i + 101 * seed) % 256]
Flip(s, i) == [s EXCEPT ![i] = XorByte(s[i], 64)]
Nonce(last) == Append(Bytes(14, 3), last)

Init == obj = Nothing /\ call = NoCall

(***************************************************************************)
(* References.                                                             *)
(***************************************************************************)
BitsOf(s) == Tuple([i \in 1..(8 * Len(s)) |-> (s[((i - 1) \div 8) + 1] \div 2 ^ (7 - ((i - 1) % 8))) % 2])
FromBits(b) ==
    Tuple([k \in 1..(Len(b) \div 8) |-> FoldLeft(LAMBDA n, i : 2 * n + b[8 * (k - 1) + i], 0, [i \in 1..8 |-> i])])

(* Doubling in GF(2^128) on bits, with x^128 = x^7 + x^2 + x + 1.          *)
Doubled(b) ==
    Tuple([i \in 1..128 |-> ((IF i < 128 THEN b[i + 1] ELSE 0) + IF i \in {121, 126, 127, 128} THEN b[1] ELSE 0) % 2])
(* OCB's L with index j, and the offset of block i by the Gray code of i.  *)
LBlock(j) == FromBits(FoldLeft(LAMBDA b, k : Doubled(b), BitsOf(encipher(ZeroBlock)), [k \in 1..(j + 2) |-> k]))
LBlocks == [j \in 0..3 |-> LBlock(j)]
GrayOffset(start, i) ==
    FoldLeft(LAMBDA o, j : IF (i \div 2 ^ j) % 2 # (i \div 2 ^ (j + 1)) % 2 THEN xor(o, LBlocks[j]) ELSE o,
             start, <<0, 1, 2, 3>>)
StretchedOffset(nonce) ==
    LET top == <<0>> \o <<1>> \o nonce
        bottom == top[17] % 64
        ktop == encipher(Append(SubSeq(top, 2, 16), top[17] - bottom))
        stretch == BitsOf(ktop \o [i \in 1..8 |-> XorByte(ktop[i], ktop[i + 1])])
    IN  FromBits(SubSeq(stretch, bottom + 1, bottom + 128))

XorAll(blocks) == FoldLeft(xor, ZeroBlock, blocks)
RefOCBHash(a) ==
    XorAll([i \in 1..((Len(a) + 15) \div 16) |->
        IF Len(BlockOf(a, i, 16)) = 16 THEN encipher(xor(BlockOf(a, i, 16), GrayOffset(ZeroBlock, i)))
        ELSE encipher(xor(Pad10(BlockOf(a, i, 16)), xor(GrayOffset(ZeroBlock, i - 1), encipher(ZeroBlock))))])
RefOCB(p, nonce, a) ==
    LET m == Len(p) \div 16
        start == StretchedOffset(nonce)
        offset == [i \in 0..m |-> GrayOffset(start, i)]
        rest == Remainder(p, 16 * m)
        star == xor(offset[m], encipher(ZeroBlock))
        c == FlattenSeq([i \in 1..m |-> xor(encipher(xor(BlockOf(p, i, 16), offset[i])), offset[i])])
        sum == XorAll([i \in 1..m |-> BlockOf(p, i, 16)] \o IF rest = <<>> THEN <<>> ELSE <<Pad10(rest)>>)
        final == xor(xor(sum, IF rest = <<>> THEN offset[m] ELSE star), FromBits(Doubled(BitsOf(encipher(ZeroBlock)))))
    IN  c \o xor(rest, encipher(star)) \o xor(encipher(final), RefOCBHash(a))

(* CFB: every byte is xored with the enciphered block of ciphertext before *)
(* its own.                                                                *)
RefCFB(iv, p) ==
    FlattenSeq(Tail(FoldLeft(LAMBDA c, i : Append(c, xor(BlockOf(p, i, Len(iv)), encipher(Last(c)))),
                             <<iv>>, [i \in 1..((Len(p) + Len(iv) - 1) \div Len(iv)) |-> i])))

(* The wrap with registers that move by one place at every step.           *)
Moved(r, b, t) == <<xor(SubSeq(b, 1, 8), Zeros(7) \o <<t>>)>> \o SubSeq(r, 3, Len(r)) \o <<SubSeq(b, 9, 16)>>
RefWrap(key) ==
    FlattenSeq(FoldLeft(LAMBDA r, t : Moved(r, encipher(r[1] \o r[2]), t), <<WrapIV>> \o Semiblocks(key),
                        [t \in 1..(6 * (Len(key) \div 8)) |-> t]))

(* CRC-24 as a shift register over the bits of the data.                   *)
Taps == {1, 6, 7, 10, 13, 14, 17, 18, 19, 20, 21, 23, 24}
RefCRC(data) ==
    LET bits == BitsOf(data)
        Shift(v, d) == Tuple([i \in 1..24 |-> ((IF i < 24 THEN v[i + 1] ELSE 0) + IF i \in Taps THEN v[1] + d ELSE 0) % 2])
    IN  FromBits(FoldLeft(Shift, BitsOf(<<183, 4, 206>>), bits))

IsPrime(n) == n > 1 /\ \A d \in 2..(n - 1) : n % d # 0

(***************************************************************************)
(* Calls.  `mark' says what was done to the input on its way.              *)
(***************************************************************************)
Called(op, in, mark, out) == call' = [op |-> op, in |-> in, mark |-> mark, out |-> out]

Return == call # NoCall /\ call' = NoCall /\ UNCHANGED obj

NewOCB ==
    /\ obj = Nothing /\ call = NoCall
    /\ obj' = [kind |-> "OCB", ocb |-> OCB]
    /\ UNCHANGED call

(* encrypt and decrypt of one instance: crypt extends the masks first.     *)
EncryptOCB(n, a, b) ==
    /\ obj.kind = "OCB" /\ call = NoCall
    /\ \E text \in {Bytes(n, 1)}, adata \in {Bytes(a, 2)} :
          \E ocb \in {extendKeyVariables(obj.ocb, text, adata)} :
             /\ obj' = [obj EXCEPT !.ocb = ocb]
             /\ Called("ocb.encrypt", <<text, Nonce(b), adata>>, "none", OCBEncrypt(ocb, text, Nonce(b), adata))
DecryptOCB(n, a, b, mark) ==
    /\ obj.kind = "OCB" /\ call = NoCall
    /\ \E text \in {Bytes(n, 1)}, adata \in {Bytes(a, 2)} : \E c \in {RefOCB(text, Nonce(b), adata)} :
          \E ocb \in {extendKeyVariables(obj.ocb, text, adata)} :
             /\ obj' = [obj EXCEPT !.ocb = ocb]
             /\ Called("ocb.decrypt", <<text, Nonce(b), adata>>, mark,
                       OCBDecrypt(ocb, CASE mark = "none" -> c [] mark = "first" -> Flip(c, 1) [] mark = "last" -> Flip(c, Len(c))
                                         [] mark = "cut" -> Slice(c, 0, 15), Nonce(b), adata))

EncryptEAX(n, a, mark) ==
    /\ obj = Nothing /\ call = NoCall
    /\ \E text \in {Bytes(n, 1)}, adata \in {Bytes(a, 2)} : \E c \in {EAXEncrypt(text, Nonce(9), adata).bytes} :
          Called("eax", <<text>>, mark,
                 CASE mark = "none" -> EAXDecrypt(c, Nonce(9), adata)
                   [] mark = "first" -> EAXDecrypt(Flip(c, 1), Nonce(9), adata)
                   [] mark = "last" -> EAXDecrypt(Flip(c, Len(c)), Nonce(9), adata)
                   [] mark = "cut" -> EAXDecrypt(Slice(c, 0, 15), Nonce(9), adata)
                   [] mark = "swapped" -> EAXDecrypt(c, adata, Nonce(9)))
    /\ UNCHANGED obj

(* A chunk's nonce: no two chunk indices may share one.                    *)
ChunkNonces(i, j) ==
    /\ obj = Nothing /\ call = NoCall
    /\ Called("getNonce", <<i, j>>, "none",
              Returned(getNonce(Bytes(12, 1), Zeros(6) \o i) \o getNonce(Bytes(12, 1), Zeros(6) \o j)))
    /\ UNCHANGED obj

NewCFB(shape, fn) ==
    /\ obj = Nothing /\ call = NoCall
    /\ \E iv \in {Bytes(shape.block, 5)}, p \in {Bytes(shape.length, 6)} :
          obj' = [kind |-> "CFB", fn |-> fn, iv |-> iv, p |-> p, cfb |-> CFB(iv), out |-> <<>>,
                  left |-> IF fn = "encrypt" THEN p ELSE RefCFB(iv, p)]
    /\ UNCHANGED call
FeedCFB(n) ==
    /\ obj.kind = "CFB" /\ n =< Len(obj.left)
    /\ \E r \in {process(obj.fn, obj.cfb, Slice(obj.left, 0, n), FALSE)} :
          obj' = [obj EXCEPT !.cfb = r.cfb, !.out = @ \o r.bytes, !.left = Remainder(@, n)]
    /\ UNCHANGED call
EndCFB ==
    /\ obj.kind = "CFB" /\ obj.left = <<>>
    /\ \E r \in {process(obj.fn, obj.cfb, <<>>, TRUE)} :
          Called("cfb", <<obj.iv, obj.p>>, obj.fn, Returned(obj.out \o r.bytes))
    /\ obj' = Nothing
WebCFB(shape) ==
    /\ obj = Nothing /\ call = NoCall
    /\ \E iv \in {Bytes(shape.block, 5)}, p \in {Bytes(shape.length, 6)} :
          Called("cfb", <<iv, p>>, "encrypt", Returned(webEncrypt(p, iv)))
    /\ UNCHANGED obj

Wrap(n) ==
    /\ obj = Nothing /\ call = NoCall
    /\ Called("wrap", <<Bytes(8 * n, 4)>>, "none", wrap(Bytes(8 * n, 4)))
    /\ UNCHANGED obj
Unwrap(n, mark) ==
    /\ obj = Nothing /\ call = NoCall
    /\ \E c \in {RefWrap(Bytes(8 * n, 4))} :
          Called("unwrap", <<Bytes(8 * n, 4)>>, mark, unwrap(IF mark = "none" THEN c ELSE Flip(c, IF mark = "first" THEN 1 ELSE Len(c))))
    /\ UNCHANGED obj

(* The random bytes come with as many zeros in front as `zeros'.           *)
EncodeEME(m, zeros) ==
    /\ obj = Nothing /\ call = NoCall
    /\ \E e \in {emeEncode(m, KeyLength, <<Zeros(zeros) \o Bytes(KeyLength, 7)>>)} :
          Called("eme", <<m>>, "none", IF e.ok THEN emeDecode(e.bytes, NoPayload) ELSE Thrown)
    /\ UNCHANGED obj
(* Any encoding: its first two bytes, and where zeros follow.              *)
DecodeEME(first, second, zeros, payload) ==
    /\ obj = Nothing /\ call = NoCall
    /\ \E e \in {[i \in 1..KeyLength |-> CASE i = 1 -> first [] i = 2 -> second [] i \in zeros -> 0 [] OTHER -> 100 + i]} :
          Called("emeDecode", <<e, payload>>, "none", emeDecode(e, payload))
    /\ UNCHANGED obj
EncodeEMSA(hashed) ==
    /\ obj = Nothing /\ call = NoCall
    /\ Called("emsa", <<hashed>>, "none", emsaEncode(<<48, 33>>, hashed, 2, KeyLength))
    /\ UNCHANGED obj
PadPKCS5(m, last) ==
    /\ obj = Nothing /\ call = NoCall
    /\ \E e \in {[pkcs5Encode(m) EXCEPT ![Len(pkcs5Encode(m))] = IF last = 0 THEN @ ELSE last]} :
          Called("pkcs5", <<m, e>>, "none", pkcs5Decode(e))
    /\ UNCHANGED obj

NewCRC ==
    /\ obj = Nothing /\ call = NoCall
    /\ obj' = [kind |-> "CRC", crc |-> CrcStart, data |-> <<>>]
    /\ UNCHANGED call
UpdateCRC(n) ==
    /\ obj.kind = "CRC" /\ Len(obj.data) + n =< MaxData
    /\ \E value \in {Bytes(n, Len(obj.data))} :
          obj' = [obj EXCEPT !.crc = CrcValue(@, value), !.data = @ \o value]
    /\ UNCHANGED call

(* A number as an MPI with bytes behind it, and one left-padded.           *)
NumberMPI(bin) ==
    /\ obj = Nothing /\ call = NoCall
    /\ bin # Zeros(Len(bin))
    /\ \E mpi \in {uint8ArrayToMPI(bin)} :
          Called("mpi", <<bin, mpi>>, "none", Returned(leftPad(readMPI(mpi \o <<255>>), Len(bin))))
    /\ UNCHANGED obj
Select(cond, a, b) ==
    /\ obj = Nothing /\ call = NoCall
    /\ Called("select", <<a, b>>, IF cond THEN "a" ELSE "b", Returned(selectUint8Array(cond, a, b)))
    /\ UNCHANGED obj

(***************************************************************************)
(* Calls on numbers.                                                       *)
(***************************************************************************)
NewSearch(bits, start) ==
    /\ obj = Nothing /\ call = NoCall
    /\ obj' = [kind |-> "prime", search |-> Search(bits, start)]
    /\ UNCHANGED call
(* The loop of randomProbablePrime, with the witnesses it drew.            *)
StepSearch(as) ==
    /\ obj.kind = "prime"
    /\ \E s \in {NextCandidate(obj.search)} :
          IF isProbablePrime(s.n, Exponent, as)
          THEN obj' = Nothing /\ Called("prime", <<s.n, s.bits>>, "none", Returned(<<>>))
          ELSE obj' = [obj EXCEPT !.search = s] /\ UNCHANGED call

GenerateRSA(bits, p, q) ==
    /\ obj = Nothing /\ call = NoCall
    /\ \E k \in {rsaGenerate(bits, Exponent, p, q)} :
          /\ k.n # None
          /\ obj' = [kind |-> "rsa", key |-> k]
    /\ UNCHANGED call
CallRSA(m, r) ==
    /\ obj.kind = "rsa" /\ call = NoCall
    /\ \E k \in {obj.key} : r < k.n /\ gcd(r, k.n) = 1 /\
          Called("rsa", <<m>>, "none",
                 [plain |-> bnDecrypt(k, bnEncrypt(k, m), r), verified |-> bnVerify(k, m, bnSign(k, m)),
                  other |-> bnVerify(k, m + 1, bnSign(k, m))])
    /\ UNCHANGED obj
ValidateRSA(field, r) ==
    /\ obj.kind = "rsa" /\ call = NoCall /\ r \in BlindingsOfRSA(obj.key)
    /\ \E k \in {IF field = "none" THEN obj.key ELSE [obj.key EXCEPT ![field] = @ + 1]} :
          Called("rsa.validate", <<r>>, field, [valid |-> rsaValidateParams(k, r)])
    /\ UNCHANGED obj

SignDSA(k, hashed, nonce) ==
    /\ obj = Nothing /\ call = NoCall
    /\ \E sig \in {SignOnce(k, hashed, nonce)} :
          /\ ~TriedAgain(sig)
          /\ Called("dsa.sign", <<k, hashed>>, "none", [verified |-> dsaVerify(k, hashed, sig)])
    /\ UNCHANGED obj
VerifyDSA(k, hashed, r, s) ==
    /\ obj = Nothing /\ call = NoCall
    /\ Called("dsa.verify", <<k, hashed, [r |-> r, s |-> s]>>, "none", [verified |-> dsaVerify(k, hashed, [r |-> r, s |-> s])])
    /\ UNCHANGED obj
ValidateDSA(k, r) ==
    /\ obj = Nothing /\ call = NoCall
    /\ Called("dsa.validate", <<k>>, "none", [valid |-> dsaValidateParams(k, r, {2})])
    /\ UNCHANGED obj
CallElGamal(k, m, nonce) ==
    /\ obj = Nothing /\ call = NoCall
    /\ Called("elgamal", <<m>>, "none", [plain |-> elgamalDecrypt(k, elgamalEncrypt(k, m, nonce))])
    /\ UNCHANGED obj
ValidateElGamal(k, r) ==
    /\ obj = Nothing /\ call = NoCall
    /\ Called("elgamal.validate", <<k>>, "none", [valid |-> elgamalValidateParams(k, r)])
    /\ UNCHANGED obj

Modes ==
    \/ NewOCB
    \/ \E c \in OCBCases : EncryptOCB(c[1], c[2], c[3])
    \/ \E c \in OCBCases, mark \in {"none", "first", "last", "cut"} : DecryptOCB(c[1], c[2], c[3], mark)
    \/ \E n, a \in Lengths, mark \in {"none", "first", "last", "cut", "swapped"} : EncryptEAX(n, a, mark)
    \/ \E i, j \in {<<0, 1>>, <<1, 0>>, <<1, 1>>, <<0, 255>>, <<255, 0>>} : ChunkNonces(i, j)
    \/ \E shape \in Shapes, fn \in {"encrypt", "decrypt"} : NewCFB(shape, fn)
    \/ \E n \in Pieces : FeedCFB(n)
    \/ EndCFB
    \/ \E shape \in Shapes : WebCFB(shape)
    \/ \E n \in Keys : Wrap(n)
    \/ \E n \in Keys, mark \in {"none", "first", "last"} : Unwrap(n, mark)
Paddings ==
    \/ \E m \in Payloads, zeros \in 0..2 : EncodeEME(m, zeros)
    \/ \E first \in {0, 1}, second \in {1, 2}, payload \in Payloads \cup {NoPayload} :
          \E zeros \in {z \in SUBSET (3..KeyLength) : Cardinality(z) =< 2} : DecodeEME(first, second, zeros, payload)
    \/ \E hashed \in Payloads : EncodeEMSA(hashed)
    \/ \E m \in Payloads, last \in {0, 1, 2, 7, 9, 17, 200} : PadPKCS5(m, last)
    \/ NewCRC
    \/ \E n \in Pieces : UpdateCRC(n)
    \/ \E bin \in Payloads : NumberMPI(bin)
    \/ \E cond \in BOOLEAN, a, b \in Payloads : Select(cond, a, b)
(* Keys to sign or encrypt with: the public key belongs to the private one.*)
Valid(keys) == {k \in keys : k.g > 1 /\ k.y = modExp(k.g, k.x, k.p) /\ ("q" \in DOMAIN k => IsPrime(k.q) /\ modExp(k.g, k.q, k.p) = 1)}
Numbers ==
    \/ \E bits \in Bits : \E start \in (2 ^ (bits - 1))..(2 ^ bits - 1) : NewSearch(bits, start)
    \/ \E as \in {{2}, {3, 5}} : StepSearch(as)
    \/ \E p, q \in Primes : GenerateRSA(12, p, q)
    \/ \E m \in {0, 1, 2, 1000, 2046}, r \in {2, 3, 1001, 2047} : CallRSA(m, r)
    \/ \E field \in {"none", "n", "d", "p", "q", "u"}, r \in {2, 7, 31} : ValidateRSA(field, r)
    \/ \E k \in Valid(DSAKeys) : \E nonce \in 1..(k.q - 1), h \in {0, 5, 200} : SignDSA(k, <<h>>, nonce)
    \/ \E k \in Valid(DSAKeys) : \E r, s \in 0..k.q : VerifyDSA(k, <<5>>, r, s)
    \/ \E k \in DSAKeys, r \in {0, 1} : ValidateDSA(k, 2 ^ bitLength(k.q) + r)
    \/ \E k \in Valid(ElGamalKeys) : \E nonce \in 1..(k.p - 2), m \in {1, 2, k.p - 1} : CallElGamal(k, m, nonce)
    \/ \E k \in ElGamalKeys, r \in {0, 1} : ValidateElGamal(k, 2 ^ bitLength(k.p) + r)

Next == Modes \/ Paddings \/ Numbers \/ Return
Spec == Init /\ [][Next]_vars

(***************************************************************************)
(* Properties.                                                             *)
(***************************************************************************)
(* Whatever an OCB instance was used for before (it keeps its masks), it   *)
(* encrypts as RFC 7253 says and decrypts what was so encrypted, and       *)
(* rejects a ciphertext with a byte changed or cut off.                    *)
OCBRight ==
    /\ call.op = "ocb.encrypt" => call.out = Returned(RefOCB(call.in[1], call.in[2], call.in[3]))
    /\ call.op = "ocb.decrypt" => call.out = IF call.mark = "none" THEN Returned(call.in[1]) ELSE Thrown

(* EAX decrypts what it encrypted, and rejects it with a byte changed, cut *)
(* off, or with nonce and associated data exchanged; the nonces of two     *)
(* chunks (gcm, getNonce) differ.                                          *)
EAXRight ==
    /\ call.op = "eax" => call.out = IF call.mark = "none" THEN Returned(call.in[1]) ELSE Thrown
    /\ call.op = "getNonce" => (call.in[1] = call.in[2] <=> Slice(call.out.bytes, 0, 12) = Remainder(call.out.bytes, 12))

(* However a stream is cut into values, CFB holds back less than a block   *)
(* and gives what it gives on the whole text, and so does the detour over  *)
(* CBC (webEncrypt).                                                       *)
CFBRight ==
    /\ obj.kind = "CFB" => Len(obj.cfb.rest) < Len(obj.iv)
    /\ call.op = "cfb" => call.out.bytes = IF call.mark = "encrypt" THEN RefCFB(call.in[1], call.in[2]) ELSE call.in[2]

(* A wrapped key is RFC 3394's, unwraps to itself, and not with a byte     *)
(* changed.                                                                *)
KeyWrapRight ==
    /\ call.op = "wrap" => call.out = Returned(RefWrap(call.in[1]))
    /\ call.op = "unwrap" => call.out = IF call.mark = "none" THEN Returned(call.in[1]) ELSE Thrown

(* The modes of crypto/mode and the key wrap compute what their standards  *)
(* say, in whatever pieces and after whatever earlier calls, and undo it.  *)
ModesRight == OCBRight /\ EAXRight /\ CFBRight /\ KeyWrapRight

(* What EME encodes decodes to itself, whatever random bytes were drawn;   *)
(* an encoding is decoded exactly when eight or more bytes without a zero  *)
(* stand between 0 2 and the first zero, and otherwise the payload given   *)
(* comes back, whole; PKCS #5 padding is taken off exactly when every byte *)
(* of it says how long it is.                                              *)
PaddingRight ==
    LET in == call.in IN
    /\ call.op = "eme" => call.out = IF Len(in[1]) > KeyLength - 11 THEN Thrown ELSE Returned(in[1])
    /\ call.op = "emeDecode" =>
          LET good == {z \in 11..KeyLength : in[1][1] = 0 /\ in[1][2] = 2 /\ in[1][z] = 0 /\ \A i \in 3..(z - 1) : in[1][i] # 0}
          IN  call.out = IF good # {} THEN Returned(SubSeq(in[1], Max(good) + 1, KeyLength))
                         ELSE IF in[2] = NoPayload THEN Thrown ELSE Returned(in[2])
    /\ call.op = "emsa" =>
          /\ call.out.ok <=> Len(in[1]) = 2
          /\ ~call.out.ok \/ (/\ Len(call.out.bytes) = KeyLength /\ LastBytes(call.out.bytes, 5) = <<0, 48, 33>> \o in[1]
                             /\ \A i \in 3..9 : call.out.bytes[i] = 255)
    /\ call.op = "pkcs5" =>
          LET good == {c \in 1..Len(in[2]) : \A i \in (Len(in[2]) - c + 1)..Len(in[2]) : in[2][i] = c}
          IN  call.out = IF good = {} THEN Thrown ELSE Returned(SubSeq(in[2], 1, Len(in[2]) - Max(good)))

(* The checksum of ASCII armor does not depend on how the data were cut    *)
(* into values, four bytes at a time or one, and is CRC-24.                *)
ChecksumRight == obj.kind = "CRC" => obj.crc = RefCRC(obj.data)

(* An MPI says its exact length in bits, has no leading zero, and is read  *)
(* back with what follows it left alone; selectUint8Array returns the one  *)
(* selected, whatever the length of the other.                             *)
NumbersRight ==
    /\ call.op = "mpi" =>
          LET bits == BitsOf(call.in[1])
              size == Len(bits) + 1 - Min({i \in DOMAIN bits : bits[i] = 1})
          IN  /\ call.out.bytes = call.in[1]
              /\ call.in[2][1] * 256 + call.in[2][2] = size
              /\ Len(call.in[2]) = 2 + ((size + 7) \div 8)
    /\ call.op = "select" => call.out.bytes = call.in[IF call.mark = "a" THEN 1 ELSE 2]

(* Paddings, checksums and numbers (pkcs1.js, pkcs5.js, armor.js, util.js) *)
(* are inverted exactly, and refused or replaced when they are malformed.  *)
EncodingsRight == PaddingRight /\ ChecksumRight /\ NumbersRight

(* A search for a prime stays among the numbers of the length asked for,   *)
(* also when it starts over, and knows their residues modulo 30; what      *)
(* randomProbablePrime returns suits the exponent, and is prime where so   *)
(* few witnesses tell.                                                     *)
PrimeRight ==
    /\ obj.kind = "prime" => bitLength(obj.search.n) = obj.search.bits /\ obj.search.i = obj.search.n % 30
    /\ call.op = "prime" => /\ IsPrime(call.in[1]) /\ bitLength(call.in[1]) = call.in[2]
                            /\ (call.in[1] - 1) % Exponent # 0

(* RSA: whichever prime is larger and whatever blinds the ciphertext,      *)
(* decryption inverts encryption and a signature verifies for what was     *)
(* signed only; a key that was generated is valid for every blinding, and  *)
(* with one parameter changed for none.                                    *)
RSARight ==
    /\ call.op = "rsa" => call.out = [plain |-> call.in[1], verified |-> TRUE, other |-> FALSE]
    /\ call.op = "rsa.validate" => (call.out.valid <=> call.mark = "none")

(* DSA accepts exactly the pairs that the key's owner could have made with *)
(* some nonce (zero included); ElGamal decrypts what it encrypted.  The    *)
(* validation of parameters accepts just those with a group that is large  *)
(* enough and a public key that belongs to the private one.                *)
Order(g, p) == Min({i \in 1..p : i = p \/ modExp(g, i, p) = 1})
DiscreteLogRight ==
    /\ call.op = "dsa.sign" => call.out.verified
    /\ call.op = "dsa.verify" =>
          LET k == call.in[1]
              sig == call.in[3]
          IN  call.out.verified <=>
                 /\ {sig.r, sig.s} \subseteq 1..(k.q - 1)
                 /\ \E nonce \in 0..(k.q - 1) : /\ sig.r = modExp(k.g, nonce, k.p) % k.q
                                               /\ (sig.s * nonce - call.in[2][1] - k.x * sig.r) % k.q = 0
    /\ call.op = "dsa.validate" =>
          LET k == call.in[1]
          IN  call.out.valid <=> /\ k.g \in 2..(k.p - 1) /\ IsPrime(k.q) /\ k.q >= 2 ^ (MinQBits - 1)
                                 /\ (k.p - 1) % k.q = 0 /\ Order(k.g, k.p) = k.q
                                 /\ k.y = modExp(k.g, k.x, k.p)
    /\ call.op = "elgamal" => call.out.plain = call.in[1]
    /\ call.op = "elgamal.validate" =>
          LET k == call.in[1]
          IN  call.out.valid <=> /\ k.g \in 2..(k.p - 1) /\ k.p >= 2 ^ (MinPBits - 1)
                                 /\ Order(k.g, k.p) > Threshold /\ (k.p - 1) % Order(k.g, k.p) = 0
                                 /\ k.y = modExp(k.g, k.x, k.p)

(* RSA, DSA, ElGamal and the search for primes (crypto/public_key): what   *)
(* was encrypted or signed is decrypted or verified, for every blinding,   *)
(* nonce and order of the primes, and validation accepts just good keys.   *)
PublicKeysRight == PrimeRight /\ RSARight /\ DiscreteLogRight
============================================================================
