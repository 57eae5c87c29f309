---------------------------- MODULE CipherModes ----------------------------
(***************************************************************************)
(* The modes of operation (crypto/mode/*.js, crypto/cmac.js) and the key   *)
(* wrap (crypto/aes_kw.js), over a block cipher that is any permutation of *)
(* blocks.  What AES_CFB, AES_CTR, AES_GCM and WebCrypto do is external    *)
(* and modelled by the modes' definitions.                                 *)
(***************************************************************************)
EXTENDS ByteStrings

BlockLength == 16
TagBytes == 16
ZeroBlock == Zeros(BlockLength)

(* A permutation of the blocks of every length, and its inverse: each byte *)
(* is chained to the one before, then from the other end.                  *)
Swapped(x) == 16 * (x % 16) + (x \div 16)
Chained(b) == FoldLeft(LAMBDA c, x : Append(c, (5 * x + 3 * Swapped(IF c = <<>> THEN Len(b) ELSE Last(c)) + 91) % 256), <<>>, b)
Unchained(c) == Tuple([i \in DOMAIN c |-> (205 * (c[i] - 3 * Swapped(IF i = 1 THEN Len(c) ELSE c[i - 1]) - 91)) % 256])
encipher(b) == Chained(Reverse(Chained(b)))
decipher(c) == Unchained(Reverse(Unchained(c)))

Thrown == [ok |-> FALSE, bytes |-> <<>>]
Returned(bytes) == [ok |-> TRUE, bytes |-> bytes]

(* The i-th block of n bytes, from 1; the last may be partial.             *)
BlockOf(text, i, n) == Slice(text, (i - 1) * n, i * n)

(***************************************************************************)
(* OCB.  An instance keeps the masks between calls.                        *)
(***************************************************************************)
ntz(n) == CHOOSE z \in 0..31 : n % 2 ^ z = 0 /\ n % 2 ^ (z + 1) # 0

OCB ==
    [maxNtz |-> 0, mask |-> <<double(double(encipher(ZeroBlock)))>>, x |-> encipher(ZeroBlock), dollar |-> double(encipher(ZeroBlock))]

MaskedLast(mask, i) == IF i \in DOMAIN mask THEN [mask EXCEPT ![i] = double(Last(mask))] ELSE Append(mask, double(Last(mask)))
(* mask[i] of the code is mask[i + 1].                                     *)
Masked(mask, i) == IF i \in DOMAIN mask THEN [mask EXCEPT ![i] = double(mask[i - 1])] ELSE Append(mask, double(mask[i - 1]))
extendKeyVariables(ocb, text, adata) ==
    LET newMaxNtz == nbits(Larger(Len(text), Len(adata)) \div BlockLength) - 1
    IN  [ocb EXCEPT !.maxNtz = newMaxNtz,
                    !.mask = FoldLeft(Masked, @, [k \in 1..Larger(0, newMaxNtz - ocb.maxNtz) |-> ocb.maxNtz + 1 + k])]

(* The offset before the first block, and after each whole one.            *)
Offsets(ocb, start, m) ==
    FoldLeft(LAMBDA o, i : Append(o, xor(Last(o), ocb.mask[ntz(i) + 1])), <<start>>, [i \in 1..m |-> i])

Pad10(bytes) == bytes \o <<128>> \o Zeros(BlockLength - Len(bytes) - 1)

OCBHash(ocb, adata) ==
    LET m == Len(adata) \div BlockLength
        offset == Offsets(ocb, ZeroBlock, m)
        sum == FoldLeft(LAMBDA s, i : xor(s, encipher(xor(offset[i + 1], BlockOf(adata, i, BlockLength)))),
                        ZeroBlock, [i \in 1..m |-> i])
        rest == Remainder(adata, m * BlockLength)
    IN  IF rest = <<>> THEN sum ELSE xor(sum, encipher(xor(Pad10(rest), xor(Last(offset), ocb.x))))

(* Offset_0: 128 bits of the stretched top from the bit the nonce ends in. *)
Offset0(nonce) ==
    LET padded == Zeros(14 - Len(nonce) + 1) \o <<1>> \o nonce
        bottom == padded[BlockLength] % 64
        kTop == encipher([padded EXCEPT ![BlockLength] = @ - bottom])
        stretched == kTop \o xor(Slice(kTop, 0, 8), Slice(kTop, 1, 9))
    IN  Tail(shiftRight(Slice(stretched, bottom \div 8, 17 + (bottom \div 8)), 8 - (bottom % 8)))

ChecksumBlock(fn, in, out) == IF fn = "encrypt" THEN in ELSE out

(* crypt: the text, and the tag; `ocb' has been extended.                  *)
OCBBlock(fn, in, offset) == xor(IF fn = "encrypt" THEN encipher(xor(offset, in)) ELSE decipher(xor(offset, in)), offset)
OCBCrypt(ocb, fn, text, nonce, adata) ==
    LET m == Len(text) \div BlockLength
        offset == Offsets(ocb, Offset0(nonce), m)
        In(i) == BlockOf(text, i, BlockLength)
        out == Tuple([i \in 1..m |-> OCBBlock(fn, In(i), offset[i + 1])])
        rest == Remainder(text, m * BlockLength)
        last == IF rest = <<>> THEN Last(offset) ELSE xor(Last(offset), ocb.x)
        restOut == xor(rest, encipher(last))
        whole == FoldLeft(LAMBDA s, i : xor(s, ChecksumBlock(fn, In(i), out[i])), ZeroBlock, [i \in 1..m |-> i])
        checksum == IF rest = <<>> THEN whole ELSE xor(whole, Pad10(ChecksumBlock(fn, rest, restOut)))
    IN  [text |-> FlattenSeq(out) \o restOut,
         tag |-> xor(encipher(xor(xor(checksum, last), ocb.dollar)), OCBHash(ocb, adata))]

OCBEncrypt(ocb, plaintext, nonce, adata) ==
    LET c == OCBCrypt(ocb, "encrypt", plaintext, nonce, adata) IN Returned(c.text \o c.tag)
OCBDecrypt(ocb, ciphertext, nonce, adata) ==
    IF Len(ciphertext) < TagBytes THEN Thrown
    ELSE LET c == OCBCrypt(ocb, "decrypt", ButLast(ciphertext, TagBytes), nonce, adata)
         IN  IF c.tag = LastBytes(ciphertext, TagBytes) THEN Returned(c.text) ELSE Thrown

(***************************************************************************)
(* CBC, CMAC and EAX.                                                      *)
(***************************************************************************)
CBC(pt, iv) ==
    FlattenSeq(Tail(FoldLeft(LAMBDA c, i : Append(c, encipher(xor(BlockOf(pt, i, Len(iv)), Last(c)))),
                             <<iv>>, [i \in 1..(Len(pt) \div Len(iv)) |-> i])))

rightXORMut(data, padding) == ButLast(data, BlockLength) \o xor(LastBytes(data, BlockLength), padding)
pad(data, padding, padding2) ==
    IF data # <<>> /\ Len(data) % BlockLength = 0 THEN rightXORMut(data, padding)
    ELSE rightXORMut(data \o <<128>> \o Zeros(BlockLength - (Len(data) % BlockLength) - 1), padding2)
CMAC(data) ==
    LET padding == double(CBC(ZeroBlock, ZeroBlock))
    IN  LastBytes(CBC(pad(data, padding, double(padding)), ZeroBlock), BlockLength)

OMAC(t, message) == CMAC(Append(Zeros(BlockLength - 1), t) \o message)

(* The counter is the whole block, big endian.                             *)
Counter(iv, k) ==
    LET sum[i \in 1..Len(iv)] == iv[i] + IF i = Len(iv) THEN k ELSE sum[i + 1] \div 256
    IN  [i \in DOMAIN iv |-> sum[i] % 256]
CTR(pt, iv) ==
    FlattenSeq([i \in 1..((Len(pt) + 15) \div 16) |-> xor(BlockOf(pt, i, 16), encipher(Counter(iv, i - 1)))])

EAXTag(ciphered, nonce, adata) == xor(OMAC(2, ciphered), xor(OMAC(1, adata), OMAC(0, nonce)))
EAXEncrypt(plaintext, nonce, adata) ==
    LET ciphered == CTR(plaintext, OMAC(0, nonce)) IN Returned(ciphered \o EAXTag(ciphered, nonce, adata))
EAXDecrypt(ciphertext, nonce, adata) ==
    IF Len(ciphertext) < TagBytes THEN Thrown
    ELSE LET ciphered == ButLast(ciphertext, TagBytes)
         IN  IF LastBytes(ciphertext, TagBytes) = EAXTag(ciphered, nonce, adata)
             THEN Returned(CTR(ciphered, OMAC(0, nonce))) ELSE Thrown

(* getNonce: the chunk index is xored into the last eight bytes of the iv. *)
getNonce(iv, chunkIndex) == Slice(iv, 0, Len(iv) - 8) \o xor(LastBytes(iv, 8), chunkIndex)

(***************************************************************************)
(* CFB.  `process' is called with each value of a stream and once at the   *)
(* end; it keeps the last block of ciphertext and the bytes short of one.  *)
(***************************************************************************)
CFB(iv) == [block |-> iv, rest |-> <<>>]

FedBack(fn, block, in, out) == IF fn = "encrypt" THEN out ELSE in

(* The feedback, and the output, after one more block.                     *)
ProcessBlock(fn, fed, in) ==
    LET out == xor(in, encipher(fed.block)) IN [block |-> FedBack(fn, fed.block, in, out), out |-> fed.out \o out]
process(fn, cfb, chunk, end) ==
    LET n == Len(cfb.block)
        text == cfb.rest \o chunk
        m == IF end THEN (Len(text) + n - 1) \div n ELSE Len(text) \div n
        fed == FoldLeft(LAMBDA f, i : ProcessBlock(fn, f, BlockOf(text, i, n)), [block |-> cfb.block, out |-> <<>>], [i \in 1..m |-> i])
    IN  [cfb |-> [block |-> fed.block, rest |-> Remainder(text, m * n)], bytes |-> fed.out]

(* CFB encryption as CBC of the text behind a block of zeros; CBC pads.    *)
webEncrypt(pt, iv) ==
    LET n == Len(iv)
        padded == Zeros(n) \o pt \o [i \in 1..(n - (Len(pt) % n)) |-> n - (Len(pt) % n)]
    IN  xor(Slice(CBC(padded, iv), 0, Len(pt)), pt)

(***************************************************************************)
(* AES key wrap: n semiblocks, six rounds.  A round and index count as t.  *)
(***************************************************************************)
WrapIV == [i \in 1..8 |-> 166]
XorCounter(A, t) == xor(A, Zeros(6) \o <<t \div 256, t % 256>>)

(* The step with t = n * j + (1 + i), from 1 to 6n.                        *)
WrapStep(state, n, t) ==
    LET i == ((t - 1) % n) + 1
        B == encipher(state.A \o state.R[i])
    IN  [A |-> XorCounter(Slice(B, 0, 8), t), R |-> [state.R EXCEPT ![i] = Slice(B, 8, 16)]]
UnwrapStep(state, n, t) ==
    LET i == ((t - 1) % n) + 1
        B == decipher(XorCounter(state.A, t) \o state.R[i])
    IN  [A |-> Slice(B, 0, 8), R |-> [state.R EXCEPT ![i] = Slice(B, 8, 16)]]

Semiblocks(data) == [i \in 1..(Len(data) \div 8) |-> BlockOf(data, i, 8)]
wrap(data) ==
    LET n == Len(data) \div 8
        last == FoldLeft(LAMBDA s, t : WrapStep(s, n, t), [A |-> WrapIV, R |-> Semiblocks(data)], [t \in 1..(6 * n) |-> t])
    IN  Returned(last.A \o FlattenSeq(last.R))
unwrap(data) ==
    LET n == (Len(data) \div 8) - 1
        last == FoldLeft(LAMBDA s, t : UnwrapStep(s, n, t),
                         [A |-> Slice(data, 0, 8), R |-> Semiblocks(Remainder(data, 8))], [k \in 1..(6 * n) |-> 6 * n + 1 - k])
    IN  IF last.A = WrapIV THEN Returned(FlattenSeq(last.R)) ELSE Thrown
============================================================================
