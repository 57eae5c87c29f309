# A TLA+ verification of OpenPGP.js

This directory specifies and checks the parts of OpenPGP.js (the library under
`src/src/`) whose correctness depends on the order in which things happen: calls
that overlap, promises that settle late, objects shared between calls, packet
lists in unusual order.  `PROJECT.json` lists for every definition the source
lines that it models.

## 1. Inventory of the system

OpenPGP.js is a library without threads or persistent state.  Its concurrency is
that of the JavaScript event loop: code runs in *turns*, a turn ends where an
`async` function awaits, and the turns of all calls in flight interleave.  Inside
a call, `Promise.all(xs.map(async ...))` runs one such function per packet,
passphrase, key or signature, and rejects at the first failure **while the others
go on**.  The state that matters is the key and message objects that the
application holds and passes to several calls.

| component | state | operations | interacts with |
|---|---|---|---|
| secret key packets (`packet/secret_key.js`) | `isEncrypted`, `s2kUsage`, `s2k` salt, `iv`, `keyMaterial`, `privateParams`, dummy and unparseable markers | `read`, `write`, `encrypt`, `decrypt`, `generate`, `makeDummy`, `clearPrivateParams`, `validate` | owned by key objects, shared by `Key.clone()` |
| key protection API (`openpgp.js`, `key/factory.js`, `key/private_key.js`) | none of its own | `encryptKey`, `decryptKey`, `generateKey`, `reformatKey`, `revokeKey` | all packets of a key concurrently |
| key objects (`key/*.js`) | users, subkeys, signature lists (arrays, shared by reference) | `packetListToStructure`, `toPacketList`, `clone`, `toPublic`, `update` | signatures, key packets |
| key selection (`key/key.js`, `key/helper.js`, `key/user.js`, `key/subkey.js`) | `verified` and `revoked` caches in signatures | `getPrimaryUser`, `verifyPrimaryKey`, `getSigningKey`, `getEncryptionKey`, `isRevoked`, `getExpirationTime`, `revoke`, `certify` | called by everything that signs or encrypts |
| session keys and messages (`message.js`, ESK and encrypted data packets) | `encrypted`, `packets`, `sessionKey` of the message's packets | `encrypt`, `encryptSessionKey`, `decrypt`, `decryptSessionKeys` | private keys, passwords; packets are used up |
| message signatures (`message.js`, `cleartext.js`, `signature.js`, `packet/signature.js`, `packet/one_pass_signature.js`) | `hashed`, `correspondingSig` promises | `sign`, `verify`, `signDetached`, `verifyDetached` | streams, keys |
| packet parser (`packet/packet.js`, `packet/packetlist.js`) | stream position | `readPackets`, `PacketList.read` | every packet class |
| AEAD pipeline (`packet/aead_encrypted_data.js`) | chunk index, bytes queued | `crypt` | streams |
| armor (`encoding/armor.js`) | line and checksum state | `armor`, `unarmor` | streams |
| cipher modes, ciphers, hashes, public key algorithms, big integers (`crypto/`, `biginteger/`) | none | pure functions | everything above |

Hard behaviours, by component, and what makes the component correct:

* **Secret key packets.**  `encrypt` draws the salt, awaits the key derivation,
  draws the iv, awaits the cipher and then stores the material; `decrypt` of one
  packet is raced with several passphrases; a call that rejects leaves other
  packets in flight.  Correct: the flag agrees with the params, a locked key opens
  with its passphrase, no secret is lost, the caller's key is not changed.
* **Key update.**  Signatures are checked concurrently and appended after an
  await; lists may become aliases of the source's arrays; several users may have
  the same ID.  Correct: complete, free of duplicates, nothing lost, the source
  untouched.
* **Key structure.**  Unparseable packets and unusual orders.  Correct: every
  signature belongs to the component it follows, and reading inverts writing.
* **Messages.**  Decryption consumes the message (ciphertext and encrypted session
  keys are dropped) while it races candidates and while other calls run.  Correct:
  the right secret decrypts, the plaintext is neither lost nor handed out twice.
* **Key selection.**  Latest valid signature under ties, expiry boundaries, sticky
  revocation.  Correct: no revoked, expired or unbound key is selected, and an
  answer for one date does not depend on questions about others.
* **Message signatures, parser, AEAD, armor.**  Streams: an input that ends early, a
  length at a limit, a chunk out of order must be noticed, and every promise settles.

The hazards, each at its source line, are listed in `PROJECT.json`.

## 2. Plan

Modules in order of importance.  All of them exist.

1. `SecretKeys` - passphrase protection.
2. `SessionKeys` - message encryption for passwords, and decryption.
3. `KeyUpdate` - merging keys.
4. `KeyStructure` - packets to key objects and back.
5. `KeySelection` - signature choice, revocation, expiry, and the keys selected,
   compared with declarative definitions of what may be selected.
6. `SignedStream`, `StreamedVerify` - what the result of `verify` promises while it still
   arrives, and the streaming pipeline of parser, literal data, one-pass matching and
   result that implements it: nothing is lost, nothing hangs.
7. `Framing`, `Armor`, `Transport` - a text from one application to another: lengths,
   partial bodies, base64, armor and cleartext framing, as streams cut anywhere.
8. `AuthenticatedStream`, `EncryptedData` - what an encrypted data packet promises to its
   reader, and the chunk pipeline that implements it.
9. `ByteStrings`, `CipherModes`, `Padding`, `PublicKeys` and `Algorithms` - the pure
   algorithms against reference definitions.
10. `KeyMaterial`, `PacketBodies`, `Signatures` and `Formats` - what packets consist of, and
    what survives being written, read and used.

The first six and `EncryptedData` have theorems (section 6): the inductive invariant of
module `M` is in `MInvariant`, a module that TLC can check on a run's instance, and the
proofs are in `MProofs`; `FoldProofs` has the lemmas on induction and folds that several of
them need.

Of the others, `Algorithms` and the modules on `ByteStrings` cannot be proved about, since they use
bitwise operators; what `Transport` promises rests on powers of two and on groups of base64
digits, nonlinear arithmetic that the SMT prover does not reason about.

## 3. Modules and the code

An action is everything a call does in one turn.  Ideal cryptography: encrypted
material opens with exactly the passphrase, salt and iv it was made with, random
values are all different, integrity-protected data never opens under a wrong
session key.

**`SecretKeys`.**  A key object is a handle; `owner` gives the heap slot where its
packets live, so that `Key.clone()` (shared packets) and `Key.clone(true)` (copies)
differ as in the code.  `packets[slot][pos]` is one secret key packet with the
fields above.  `task[call][pos][passphrase]` is one `packet.encrypt` or
`packet.decrypt` in flight.  `EncryptKey`, `DecryptKey`, `GenerateKey`, `ReformatKey`
and `RevokeKey` start calls; `EncryptDerived`/`EncryptHashed`/`EncryptCiphered` and
`DecryptDerived`/`DecryptCiphered` are the turns after the key derivation, after the hash
or the making of the AEAD mode (the cipher then reads `this.iv`), and after the cipher; `...Returns` and `...Throws` are the continuations of `Promise.all` and
the catch clauses; the `Wrap...` actions are `wrapKeyObject`.  `ClearPrivateParams`,
`MakeDummy` and `Write` are what the application does to a key at any time.  Nothing in
the code keeps a second `reformatKey` from starting on a key whose first is still at work
(`Reformatting`), and nothing does here.  The field `overlaps` of a call records that it
happened: it is history that no action reads, so that the properties can say what holds
of such a key (it is locked, under a passphrase that one of the calls was given) and
what holds of all others (it opens).

**`SessionKeys`.**  `Encrypt` and `TestDecrypt` are `encryptPassword` with its collision
check and its retry.  `DecryptWithPasswords`, `DecryptWithKeys` and
`DecryptWithSessionKeys` start a `decrypt` or `decryptSessionKeys` call;
`DecryptSkesk`, `Attempt` and `DropPkesk` are the concurrent attempts on the session
key packets, `SessionKeysFound` the choice of distinct candidates; `DecryptData`,
`TrySessionKey` and `DataDone` are the rest of `Message.decrypt`.  A version 4 SKESK may
be opened by a wrong password, to a bogus session key (`also`).  `RightSecretDecrypts` leaves
out the calls that come after an attempt that uses the message up (`Forestalls`).

**`KeyUpdate`.**  `arr` is a heap of arrays and `ref` says which array each signature
list is, since `mergeSignatures` assigns the source's array to an empty list.
`Dispatch` is one iteration of the loops over users and subkeys, `MergeNext` starts
`mergeSignatures` on a component's next list, `CheckDone` is the turn after one
signature's check.  What verifies, is expired, or was verified before (the cached
flag) are constants.  `NoDuplicates` leaves the lists of bindings out: the merge of a
newer binding replaces *every* entry of its issuer that is older (`key/subkey.js:147`), so
that a list with two entries, `early` and `late`, and another `late` becomes `late` twice.

**`KeyStructure`.**  `packetListToStructure` is a fold of `Step`, with one operator per
`case` of the code's switch; packets arrive one at a time so that every list up to
`MaxPackets` is a state.  The tag sets are those the code really builds: there is
no `enums.packet.privateKey`, so they contain `undefined`.

**`KeySelection`.**  `key` is a key as a value (users, subkeys and their signatures with
creation and expiration times, flags and issuers), `revoked` the set of signatures
whose `revoked` property `isDataRevoked` has set, `answer` the outcome of the query that
has just returned together with the one a key object just read would give (`fresh`).
The operators named like the methods are the queries; each also returns the marks it
leaves.  `getLatestValidSignature` is a fold from the end of the list, like the loop,
and the sort of users and subkeys is the order its comparison function defines.
`RevokeKey`, `RevokeSubkey`, `RevokeUser` and `ApplyRevocationCertificate` replace the key,
or a component, by the revoked copy, which shares its signatures, and so their marks.
A date of null (`NoDate`) is what `getExpirationTime`, and decryption, pass.  A third
party's verification key is external, and taken to be valid.

**`StreamedVerify`.**  The activities of section 1's streaming calls: `parser` (`readPackets`
inside `PacketList.read`), `callback` (for the literal data packet, which is called before
its body is read and awaited after it), `caller` (`PacketList.read` up to the data, then
`Message.verify`), `matcher` (the transform in `Message.verify`), `link` (`linkStreams`) and
one promise per signature (`createVerificationObject`).  `lit` and `list` are the two
streams between them; `corr` holds the `correspondingSig` promises, `hashed` how the copy
of the data that is digested ended, `data` what `linkStreams` builds and `Result` what
the application sees of it when `expectSigned` is set.  A message is a record of what
arrives and how it ends (`cut`, `fails`); `nested` tells the two shapes of the pipeline
apart: in an encrypted or compressed message nobody reads the matcher's stream, and an
error after the data reaches the application only because `readPackets` peeks at the
whole rest before it closes the data.  The streams are the library web-stream-tools,
external: a write is complete when its chunk is taken; its `pipe`s only add buffers.
That a signature is `good` stands for its digest, algorithms, dates and signing key
(`KeySelection`).  A second data packet in one message is left out.

**`SignedStream`.**  What the application may rely on while a signed message arrives: it is
given data chunk by chunk and one verdict per signature, each once and for good; "true" only
for a good signature and once all data were given; the data close only if all of them came
and nothing they depend on was broken, and where a signature is demanded only with one
verified.  `Stream == INSTANCE SignedStream WITH ...` in `StreamedVerify` maps `Origin` (what was
sent), `Status` (where the caller is, then `Result`), `delivered` and `verified`; the property
`ReadsSignedStream` is the abstract specification under this mapping.  What is `sound` depends on
`nested`: in an encrypted or compressed message a spoilt packet behind the data shows only in
the verdicts, since `linkStreams` waits for the packets around, and not for those inside.

**`Framing`, `Armor`, `Transport`.**  A message goes through stages, each a transform that
is given one value at a time: `canonical` (line ends), `frame`, `encode` (base64), `lines`
and `body` (`unarmor`), `decode`, `packets` (`readPackets`) and `native` (line ends again); `input`, `buf` and `output` are those of the stage that
runs.  A stage sees nothing of the others but their output, cut into pieces, so
that running one after the other loses no behaviour; how the output is cut is chosen
anew at every read (`PieceSizes`).  `Framing` holds the length formats of `packet.js` and
the steps of `PacketList.write` on a stream, which holds bytes back until there are
enough for a partial length; `Armor` holds `base64.js`, the line ending conversions of
`util.js`, the delimiter and header rules and the checksum decision of `armor.js`.
`readPackets` looks at none of the octets that `readByte` returns: at the end of the input
a length that is missing is 0, and the packet ends there; `body.short` records it, and is
history that no action reads.  `LiteralDataPacket.read` throws only if the date is missing
entirely.  `cut` removes the end of what is sent, `wrap` re-wraps the base64 lines and `sum` is the
checksum the armor arrives with.  The checksum's value is right or wrong here (how it
is computed is in `Algorithms`); a delimiter has two dashes on each side of a letter.

**`AuthenticatedStream`.**  What the reader of an encrypted data packet is promised: a
growing prefix of the plaintext, and an end only after all of it; only with `early`
(`config.allowUnauthenticatedStream`) may wrong bytes come before the error.

**`EncryptedData`.**  The sender's and the receiver's pass through `crypt()` are one loop:
`CryptChunk` is an iteration (read a chunk, start its promise, count what is queued),
`CryptFinal` the one for the final tag, `WriteChunk` the end of the first promise of the
chain `latestPromise`, `Backpressure` the condition under which the loop awaits the chain,
`Pull` the reader, `CloseWriter` and `AbortWriter` the ends.  Between the passes `Deliver`
hands over the bytes as they were, or with a part cut out, repeated, moved or exchanged, or
with another header.  `setInt32` of the index and the byte count wrap at
`Int32Range`.  SEIP packets compare the modification detection code at the end; with
`early` they give out data before.  SED packets are refused.  Encryption is ideal: byte `p`
of the `j`-th sealed text is `<<j, p>>`.  `Stream == INSTANCE AuthenticatedStream WITH ...`
maps the sender's text, what the application was given, and the state of its stream; the
properties `StreamSafety` and `StreamSettles` are the two halves of the abstract specification under
this mapping; the second adds that an untouched message is decrypted whole.

**`ByteStrings`, `CipherModes`, `Padding`, `PublicKeys`, `Algorithms`.**  The operators carry
the names of the functions.  A block cipher is any permutation of blocks: one that mixes
all bytes takes its place.  An action of `Algorithms` is one call on an object that keeps
state between calls - an OCB instance with its table of masks, a CFB stream, a CRC, a key,
a prime search - and `call` holds what was asked and what came of it, next to what a
reference definition gives that goes about it another way (OCB by the masks of the RFC
from nothing, CFB block by block over the whole text, CRC by polynomial division,
the prime by divisors).  Random choices are `\E`.

**`KeyMaterial`, `PacketBodies`, `Signatures`, `Formats`.**  Bytes as the packets have them:
parameters of every algorithm, S2K specifiers and derivation, key packets of versions
4 and 5 with fingerprints, session keys for keys and for passwords, signature packets with
all their subpackets, the bytes a signature covers, and the cache of `verify` (`verified`).  An action of `Formats` writes a
packet, lets it travel (with a byte damaged, with unhashed subpackets attached by
anyone), reads it and uses it.  Elliptic curves, hashes, and encryption under a key are
toy functions that keep apart what is compared.

## 4. Runs

Bounds: two calls are needed for every race between calls, two packets for partial
failure of a call, two passphrases for a race inside `decryptKey`; nothing in the
code compares three of them.  `MC*.tla` modules define constants and symmetry sets only.
Where deadlock is not checked, the application may stop calling.

| run | checks | instance |
|---|---|---|
| `keys_locked` | `ParamsMatchFlag`, `LockedKeyOpens`, `SecretsKept`, `InputUntouched` | 2 packets of every kind that can be read, 1 passphrase, 2 calls |
| `keys_settle` | `CallsSettle` (fair) | 1 packet, 2 passphrases, AEAD protection, 2 calls |
| `key_update` | `NoDuplicates`, `MergeComplete`, `MergeSteps`, `UpdateSettles` (fair) | two source users with one ID, two subkeys with one fingerprint on either side, one new subkey; 5 signatures (two valid of different age, one expired, one foreign, and a newest one of the same issuer that does not verify); one kind of list filled at a time, up to 2 entries |
| `session_keys` | `TypeOK`, `RightSecretDecrypts`, `PlainOnlyWithSecret` | 2 recipients and a stranger, wildcard key IDs, constant-time decryption, 1 password and a wrong one, 2 calls one after the other |
| `session_overlap` | `DeliveredOnce`, `PlainDelivered` (fair) | 1 recipient, 1 password, 2 overlapping calls |
| `session_collision` | `EveryPasswordOpens`, violated | 2 passwords of which one opens the other's packet by accident |
| `structure` | `RoundTrip`, `FiledRight` | all lists of up to 5 packets; public keys and subkeys may be unparseable |
| `key_selection` | `SelectionRight`, `HistoryIndependent`, `RevocationHolds`, `ExpirationTimeRight`, `EncryptedStaysDecryptable` | 978 keys in three families (two users, expiring primary key, two subkeys), lists of up to two signatures, dates 1 to 4 and null, one revocation made at date 3 |
| `streamed_verify` | `ClosedMeansWhole`, `VerifiedRight`, `ExpectSignedHolds`, `ReadsSignedStream`, `WellFormedVerifies`, `AllSettle` (fair) | 2394 messages: up to 2 packets before and 2 after the data, up to 3 chunks, whole, cut inside or between parts, failing at the end or not, plain or nested, with and without `expectSigned` |
| `encrypted_data` | `CiphertextRight`, `PipelineBounded`, `StreamSafety`, `StreamSettles` (fair) | texts of 0, 1, 3 and 5 bytes in chunks of 2 or 4, tags of 2, byte counts that wrap at 4; all three packets, streamed early or not, tampered with or not |
| `transport` | `ArrivesWhole`, `Settles` (fair) | all texts of up to 4 letters, CRs and LFs; packets of 191 and 192 bytes; every framing, armor type, checksum, wrapping, cut; cleartexts of up to 2 lines; pieces of 1, 2 and 5; partial lengths from 4 bytes, lines of 3 |
| `formats` | `ModesRight`, `EncodingsRight`, `PublicKeysRight`, `MaterialRight`, `SessionKeysRight`, `SignaturesHold` | texts around the block boundaries (0 to 80 bytes), every bit offset of an OCB nonce, primes of 5 to 7 bits; a key of every algorithm, every kind of specifier, counts and lengths at their boundaries |

A run's type invariant is the first conjunct of a named one where the two belong together
(`ParamsMatchFlag`, `NoDuplicates`, `RoundTrip`, `SelectionRight`, `ClosedMeansWhole`,
`CiphertextRight` and `ArrivesWhole` include the `TypeOK` of their modules).  Some properties have named parts:
`SecretsKept` says that no step loses the last copy of a secret and that an unlocked key can
be used; `MergeSteps` that only what verified joins a list that is not empty, that nothing
is removed and that the source stays as it is; `FiledRight` that signatures of users and of
subkeys are filed under what they follow, and nothing under another primary key;
`SelectionRight` that the primary user and the signing and encryption keys are the ones a
declarative definition allows; `PlainDelivered` also that both calls settle; `CiphertextRight`
also that no nonce is used twice; `Settles` also that what the library writes it reads.

Two signatures per list give every order of a valid, an invalid, an expired, a future
and a tied one; four dates put one before, between and after creation and expiration.
For streams, two one-pass packets are the first number whose order matters, and three
chunks put one before, during and after the hand-over of the data to the application.
Five packets suffice for the structure properties: a primary key, a component, a
packet that interferes, the component or key it interferes with, and a signature.
Chunks of the encrypted data: an empty text, one byte, three (a whole chunk and a short
one) and five bytes, which are two whole chunks and a short one (or one and a short one);
with tags of two bytes and a byte count that wraps at 4 every comparison of lengths has
both outcomes, and five bytes are above the limit below which `CiphertextRight` speaks of the
length.  Transport: pieces of
one byte end everywhere, pieces of five hold a whole group, line end or header; four bytes
are the least that give a partial length, a rest, and a rest of nothing; 191 and 192 bytes
are the last length of one octet and the first of two.  What the code
does with larger blocks, primes and keys it does by the same operators.

**Fairness.**  Weak fairness of the turns that follow an await: key derivation, ciphers
and signatures are computations that end, and the event loop runs the continuation
of every settled promise.  In `StreamedVerify`, `EncryptedData` and `Transport` this
includes that the input arrives and that the application reads the data it is given to
their end; elsewhere no fairness is assumed of what the application does.

## 5. Disagreements found

A run that ends in a violation of a statement in the repository's documentation:

* `session_collision` - *"Array of passwords or a single password to encrypt the
  message"* (`openpgp.js:249`): the retry after a collision drops an argument and
  encrypts under the empty password.

Failures that the properties of the passing runs name and leave out, so that they say exactly
what holds besides; each is a behaviour of the model:

* *"Decrypt symmetric session keys using private keys or passwords"*
  (`openpgp.js:573`), which throws *"if no session key could be found or decrypted"* (`:583`):
  `decryptSessionKeys` drops the encrypted data of every PKESK once all keys were tried,
  also when none fitted (`message.js:271`), so that a later call with the right key throws.
  For the same reason a wrong password that opens a version 4 SKESK by accident (about one in thirty
  do) makes `decrypt` drop the ciphertext (`message.js:139`), and the right password
  comes too late.  `RightSecretDecrypts` names these calls (`Forestalls`), and says that
  no others spoil a message.
* *"The passphrase used to encrypt the reformatted private key"*
  (`openpgp.js:89`): `reformatKey` encrypts the packets of its argument in place, and
  `encrypt` stores salt and iv in the packet before the awaits that the material is made
  behind.  When a second call starts on the same key before the first has returned, the
  key that is returned carries the salt (or iv) of one and the material of the other: no
  passphrase opens it, and its params are gone.  (With one packet: call 1 has
  stored its material and made the self-signatures; call 2 starts and stores its own salt;
  call 1 returns.)  `LockedKeyOpens` and `SecretsKept` name it (`Overlapped`) and say that it
  takes two such calls.
* *"Should be setInt64(13, ...)"* (`packet/aead_encrypted_data.js:179`): the
  final tag authenticates the lower 32 bits of the number of bytes, so that what is
  sealed of a message of 4 GiB or more is not what the standard says, and its length is
  authenticated modulo 2^32.  (No prefix passes for the whole all the same, since the tag's
  nonce has the number of chunks: `StreamSafety`.)  The chunk index has the same defect
  (`:195`), which takes 2^32 chunks to show; `EncryptedDataAssumption` excludes them.
  `CiphertextRight` demands the standard's final tag of shorter messages only.
* *"Unexpected end of packet"* (`packet/packet.js:230`): when the input ends
  between two parts of a packet of partial lengths, `readByte` returns undefined where the
  next length should be (`:203`), the length becomes 0 and the packet complete, so that
  unsigned, unencrypted data without armor may be shortened unnoticed; `expectSigned` and every integrity
  check detect it.  `ArrivesWhole` names the case (`EndUnnoticed`) and says that there is no
  other, but for packets of indeterminate length.
* *"Signature of a binary document"* (`enums.js:248`): `LiteralDataPacket.getText`
  keeps the text, and `toSign` then digests the text with native line ends in place of the
  bytes, so that after `getText()` a binary signature over data with CRLF no longer
  verifies.  `SignaturesHold` leaves out packets whose text has other line ends than
  their bytes (`OtherLineEnds`).

Seen while modelling, without a run of their own: `reformatKey` encrypts and clears the
packets of its argument in place, and with them those of a key that `revokeKey` cloned
from it (`key/key.js:171` calls the two "effectively independent"); an expired signature is taken
over when the destination list is empty (`key/helper.js:217`; the comment at
`key/key.js:490` says they are ignored, and so, it says, are duplicates, which lists of
bindings may come to hold, see `KeyUpdate` in section 3); a newer binding signature replaces a valid one
before it is verified (`key/subkey.js:149`); `SecretKeyPacket.encrypt` throws on an
empty passphrase, where its comment (`packet/secret_key.js:292`) says that this removes
the protection; a key that has no valid primary user makes `getDecryptionKeys`,
and so the whole `decrypt` call, reject (`key/private_key.js:96`); certifications that
follow an unparseable user ID are filed under the user before it; an unparseable
primary key that follows an unparseable subkey does not widen what is skipped, so
that later subkeys join the earlier key (`key/key.js:64`; `PrimaryOwns` excludes this
case by `SubkeySkipped`); `getExpirationTime` does not return null for a revoked primary key,
where its comment (`key/key.js:400`) says it does; with `revocationsExpire`, an expired
revocation keeps counting for a signature that was marked before
(`config/config.js:125`: "expired revocation signatures are ignored");
`User.revoke` loses the earlier revocations of the user, those by third parties included
(`key/user.js:269` passes no configuration, and the error is swallowed), so that
a third party's certificate counts as valid again once the key is written and read;
revoking a primary user whose certification limits the key's lifetime lengthens it, since
another user then speaks for the key.

About keys, also: `Key.update` merges "users, subkeys, certificates" (`key/key.js:489`), but
passes `isDataRevoked` the key object in place of `{ key: keyPacket }`, so that a key's own
revocation joins a list that is not empty only if its outcome is cached (`key/key.js:525`),
and `sourceKey.update(this, config)` passes the configuration as the date, so that a public
key updated from a private one takes over nothing into such lists (`key/key.js:516`); the sets of
tags name `enums.packet.privateKey`, which does not exist, so that what follows an
unparseable *secret* subkey is not discarded but filed under the subkey before it
(`key/key.js:34`, against the comment at `key/key.js:65`).

About formats, each excluded from or described by the module named:

* A signature over keys or users that was just made, or has verified, is cached as valid, and
  `verify` then accepts any data with the same key (`packet/signature.js:679`); the comment
  at `:212` says that this only holds up if they are the same, and leaves it to the caller.
  `SignaturesHold` names the case (`known`); signatures over messages, and any that was
  just read, are checked on the data they are given.  An embedded signature or issuer among the unhashed
  subpackets overrides the hashed one.  `reasonForRevocationString` is written byte by
  byte and read as UTF-8, a regular expression is read as one byte, and `signatureTarget`
  throws, since `crypto.getHashByteLength` does not exist (`packet/signature.js:498`).
* `base64.decode` looks at `buf[length]` before it decrements `length` when it goes back from a
  line end (`encoding/base64.js:73`): a value that ends with a line end after a number of
  digits one above a multiple of four throws, so that `Transport` counts as well formed only armors whose
  lines are whole groups.  A multi-part section is never unarmored, since its type is 0
  (`if (!type)`).  A bare CR at the end of a cleartext line is lost.
* Five-octet packet lengths of 2^31 and more are read as negative numbers, and the body is
  skipped (`Framing`, `readInt32`).
* `s2k.produceKey` ignores the prefix in its loop bound (`type/s2k.js:179`): if salt and
  passphrase are one byte shorter than the count, the last byte of later blocks
  stays 0 (`Formats`, `LastByteLost`).  A version 5 session key packet for a password does not
  carry the session key's algorithm, which is AES-256 after it is read.
* A truncated MPI is a shorter number; `UserAttributePacket.equals` holds for a prefix.
* The test for small divisors compares a `BigInteger` object with 0 and always passes, so that
  `isProbablePrime` rests on Fermat's and Miller-Rabin's tests; `rsa.generate` does not compare
  p with q; `dsa.js` cuts the hash to bytes where its comment says bits; `util.shiftRight` is
  called with 8 bits, though its comment (`util.js:317`) requires fewer (the result is right).

## 6. Proofs

Checked by TLAPS for every value of the constants that satisfies the assumptions their
modules name.  These say that special values are distinct and options Boolean, and: of
`SigAssumption` that what is cached was valid, `KeyAssumption` and `MessageAssumption` that
keys and messages are built as the reader of packets builds them (a message that is cut has
nothing after its data), `EncryptedDataAssumption` that tags and concurrency are positive,
`DateAssumption` that every date lies before infinity.  No bound of section 4 is assumed:
lists, chunks, packets, calls and secrets are of any number.

Most of the properties are not inductive.  For each module there is one inductive
invariant (two for `SessionKeys`, `KeySelection`, `KeyUpdate`, `StreamedVerify` and `EncryptedData`), which TLC checked on the instance of
the module's runs before it was proved; the numbers are the distinct states of these runs.

**`SecretKeys`** (`IInv`: 1166026 states of `keys_locked`, and 4180084 with one packet, two
passphrases and three calls).  `TypeCorrect` and `FlagCorrect` need
one lemma per packet transformation (`Cleared`, `Dummied`, `Decrypted`, ...), that its result
has a flag that matches, and one step per action, that it only applies those.
`LockedKeysOpen` needs to know of every call that encrypts how far each of its tasks has come
and what the packet shows at that point: whatever other calls store beside it (`Storing`,
material that one of them made under its passphrase), and, where no two `reformatKey`
calls overlapped, exactly this call's salt, iv and material (`EncryptProgress`).  The latter
rests on `OneWriter` (the packets are the call's own copy, or those of the one `reformatKey`
on that key); that salts are drawn once (`SaltsDrawn`, `SaltUnused`); that tasks a rejected call
left behind write nothing that does not open (`LeftOver`); and, of `decryptKey`, that its tasks
work on a copy (`DecryptProgress`).  `InputsUntouched` and `SecretsStay` are action properties
that follow from the same invariant.

**`SessionKeys`** (`SessionKeysInvariant`: 1334509 states of `session_keys`, 42505 of
`session_overlap`).  The types alone are
not inductive: that the session key read from a packet that a call decrypted is one needs
`HitsHold`, that such packets hold one, and hence that encryption is over once a call has
started (`TypeCorrect`).  `PlainDeliveredOnce` holds for any number of overlapping calls:
`OnePlace` says that the plaintext is in at most one place - in an attempt under way, in the
packet, or returned - and in none while the ciphertext is there.  `PasswordsOpen` is
the invariant that `session_collision` violates, under the hypothesis that excludes the
retry of section 5 (no collision check, or AEAD, which makes collisions impossible).
`PlainNeedsSecret` assumes that calls do not overlap, as the run that checks it does: it is
false otherwise, since a call takes the packets of another.  `RightSecretSuffices` assumes
only what `PasswordsOpen` assumes, and speaks of calls that overlap as well.  `CallsRight`
bounds what a call has left to do at each stage; `UsedUp` says that ciphertext and PKESKs
are gone only by a call that has come so far (`Consumer`, `Dropper`), `TakersStay` that such
a call stays one; `HitsRight` that a session key found is overwritten only by an accident of an
overlapping call; and `Progress` is the argument of liveness turned into safety: as long as no other
call has forestalled it, the real session key is in the call's hands or in an attempt that is
still to come.

**`KeySelection`** (`IInv` and `FreshRight`: 717892 states).  All theorems assume
`~RevocationsExpire`, which is the default of `config.revocationsExpire`: with it,
`HistoryIndependent` and `RevocationHolds` are false, since the mark of a revocation outlives
its date (section 5).  `MarksRight` says that a mark is on a signature whose component the
key itself has revoked (or on a third party's), from which it follows that no mark
changes an answer: `HistoryNeverMatters`.  `FreshRight` then says of every answer which
query, of the packets alone, it is, and the second part of `KeySelectionProofs` compares
these queries with the declarative definitions: `AnswersStayRight`, `DecryptableStays`,
`ExpirationTimesRight`.  The loops over signatures, users and subkeys are folds; that
`getLatestValidSignature` returns a latest valid signature and that the sort puts the best
user first are proved by induction over the list.

**`KeyUpdate`** (`IInv`: 463692 states).  The difficulty is that lists of the two keys share
arrays.  `RefRight` says that a list has its own array, or that of a source list which was
merged into it by a merger that is past that list (`Borrows`, `Past`); hence an array that a
merger still appends to is not the source's, unless two source components have one ID.
`JobsRight` and `TodoRight` say that there is one merger per pair, of components with one ID
and of the kind whose turn it is.  `ArraysApart` is `NoDuplicates` for arrays in place of lists:
it is inductive because the turn that appends looks for the signature again in the same turn
(`checkDone` in `CheckDone`), whichever lists the array has become.  `StepsRight` is `MergeSteps`.
`NothingMissing` (`MergeComplete`) has a second invariant on top, `MInv` (the same states):
`SourcesCome` says that of every source component, each good signature that its list has by now,
or that one of its mergers has under check, is in - or stood for in, or on its way to -
*every* user or subkey with that ID: a merger has it under check or has the list before
it (`Before`), or the component's turn is to come (`Waiting`).  It speaks of all targets, and of
signatures under check, because an array of the source may grow while it is read, by the
merger of another component with the same ID.  `MergersOrdered` is why it never shrinks before it is read: the
mergers that replace bindings run in the turn of their own source.

**`KeyStructure`** (`IInv`: 1199126 states).  For packet lists of any length and order.  `LocalsRight`
is what makes `FiledRight` inductive: that, unless packets are skipped, `user` and `subkey` refer
to the last packet of their kind and the last primary key is the object's own, and that only after an
unparseable subkey does the next subkey end the skipping.  `FiledStaysRight` assumes
`Readable`, that user IDs and secret keys can be parsed: otherwise it is false, as section 5
says.  `StepEffect` says for any packet what packetListToStructure may do to the
object, and `PacketComes` that a packet appended leaves what precedes earlier ones as it was.

`RoundTripHolds` needs no such assumption.  Its invariant is `ContentsRight` (the same 1199126
states): that each list of the object has signatures of its own type and issuer only, which
is what makes the order of `toPacketList` - revocations, then self certifications, then
those of others - lose nothing when each packet is filed by its type again.  `ReadsBack` is the
induction: over the primary key's signatures, the users, the subkeys, and the signatures of
each, what is written with one packet more is read as the object with one packet
more (`Made` is the object, `Listed` the list).  `PublicHalf` says that `toPublicList` writes what an object of
class PublicKey with the same users and signatures would, and so `ReadsBack` applies to it too.

**`StreamedVerify`** (`IInv`: 109526 states).  For any messages, of any number of chunks and
packets: `ParserAt` ties the parser's position to what the callback and the caller may do,
`Chunks` and `Linked` say where each chunk is (in the parser's stream, digested, with the
link, or with the application), `Got` and `Matching` which packets have been taken and which
promise each of them is for, and `Fulfilled` that a promise is fulfilled only over the
right digest, by the packet in its signer's place.  `ClosedDataWhole`, `OnlyRightVerify` and
`ExpectedAreSigned` follow.

`SignedStreamHolds` is the refinement, for the same messages.  It needs `TailRight` (the same states)
besides, what happens behind the data: no spoilt packet was passed over while the packet
stream is whole, that stream closes only after the last packet, and the data only
after it, whether the matcher or the link reads it to its end.  Three activities do nothing
the application sees; the reading of packets is a stutter or a refusal, `Verify` opens the
stream, `Pipe` gives a chunk or ends it, `DrainLink` ends it, and a promise that settles is a
`Judge`, which with `expectSigned` may end it too.  `Ends` is what the three have in common: a
step of theirs ends the data only where all five have come to their end, and takes no end back.

**`EncryptedData`** (`IInv`: 99941 states).  For every length, chunk size and tag length,
`FinalSealed` in place of the standard's last text (section 5).  While
encrypting, `SealedSoFar` and `WrittenSoFar` say that the chunks made, those in the chain and
those written are consecutive pieces of the plaintext; `Nonces` that a nonce belongs to
the place of its text.  While decrypting, `ReadSoFar` says that whatever was cut, moved or
exchanged, the jobs that succeeded opened the text of their own place: with the index in the
nonce and the chunk size in the authenticated header no other text opens there, and the
last tag opens only after as many bytes as were sealed.  From this, `CiphertextStays`, and
`StreamSafe` (`StreamSafety`): the initial state maps to the initial state of `AuthenticatedStream`, and every
step to a step or a stutter.  `QueueStaysBounded` has an invariant of its own, `QueueRight`: what
`queuedBytes` counts is what the chain holds, or more (a job that fails is never subtracted),
until less than a tag is read; then it may count less, but such a piece opens as nothing.

**Induction over data** (`FoldProofs`).  The library's induction theorems take an operator as
a parameter, which the provers here cannot instantiate.  The lemmas of `FoldProofs`
take a *set* in its place - of numbers, of lists - that has the first element and with each
the next, and are proved from the least element of a set of naturals; a fold is reasoned
about by a set that is closed under its step.  For a result that
depends on how far the fold has come, as in `KeyUpdate`, there is a set for each step.  This
reaches the folds of `KeySelection` and `KeyUpdate`, the sums of `EncryptedData`, and with
`FlattenAppend` (`FlattenSeq` of a list with one more) the lists that `KeyStructure` writes.

Only model-checked: all liveness (`CallsSettle`, `UpdateSettles`, `PlainDelivered`,
`WellFormedVerifies`, `AllSettle`, `StreamSettles`, `Settles`), which is outside the prover's reach; `ArrivesWhole`, for the
arithmetic it rests on;
and what `formats` checks, since these algorithms are recursive over their data or use bitwise
operators.

## 7. Not modelled

* The bits of ciphers and hashes (`crypto/cipher/`, `crypto/hash/`), elliptic curve
  arithmetic, GCM and HKDF: tables and libraries without control flow of their own; a toy or
  ideal function takes their place.
* `Message.sign` over several keys, `CleartextMessage.sign` and `verify`, `Message.compress` and
  compressed data packets, multi-part armor, the Version and Comment headers of armor.
* `readKeys` splitting a packet list into keys; `certify`; the preferences that encryption reads
  from self-certifications; the parts of a user ID.
* `config`, `enums`, `index` and the option checks of `openpgp.js`: no state; the options that
  change control flow are CONSTANTS.
* Hazards without a property: byte arrays zeroed by `clearPrivateParams` while a signature
  reads them (`packet/secret_key.js:445`: the model has params, not their bytes); a password
  given twice (`message.js:465`: a retry that never ends, a statement about probabilities
  otherwise); certifications after an unparseable user ID (`key/key.js:72`) and the call with
  swapped arguments (`key/key.js:516`), for which the code has no rule (section 5); expired
  revocations with `revocationsExpire` (`config/config.js:125`, section 5); a second data packet
  in one message (`packet/packetlist.js:75`), whose reader does not exist.
