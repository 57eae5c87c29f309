--------------------------- MODULE EncryptedData ---------------------------
(***************************************************************************)
(* The encrypted data packets: a message is encrypted into one, travels as *)
(* bytes that may be cut, dropped, repeated or moved, and is decrypted as  *)
(* a stream.                                                               *)
(*                                                                         *)
(*   "aead"  AEADEncryptedDataPacket: crypt() seals or opens one chunk     *)
(*           after the other; the chunks' promises are chained, so that    *)
(*           they are written in order although they are computed          *)
(*           concurrently, and a loop that runs ahead of the writer waits  *)
(*           for the chain (backpressure)                                  *)
(*   "seip"  SymEncryptedIntegrityProtectedDataPacket: CFB and a SHA-1     *)
(*           modification detection code over everything before it         *)
(*   "sed"   SymmetricallyEncryptedDataPacket: never decrypted, as         *)
(*           config.allowUnauthenticatedMessages is off                    *)
(*                                                                         *)
(* Ciphers are ideal: byte p of the j-th text ever sealed is <<j, p>>, and *)
(* opening succeeds on all of a sealed text, in order, under the nonce and *)
(* the additional data it was sealed with.  That a promise of a chunk      *)
(* settles before its turn in the chain is not observable and no step.     *)
(***************************************************************************)
EXTENDS Integers, Sequences, SequencesExt

CONSTANTS TagLength,    \* bytes of an authentication tag (mode.tagLength)
          Concurrency,  \* util.getHardwareConcurrency()
          SizeBytes,    \* values of chunkSizeByte; a chunk is 2^it bytes
          Lengths,      \* lengths of the plaintexts
          Int32Range    \* 2^32 in the code: what setInt32 can tell apart

ASSUME EncryptedDataAssumption ==
    /\ TagLength \in Nat \ {0}
    /\ Concurrency \in Nat \ {0}
    /\ SizeBytes \subseteq Nat /\ Int32Range \in Nat
    /\ Lengths \subseteq Nat
    \* chunk indices, the final one included, do not repeat in a message
    /\ \A n \in Lengths, c \in SizeBytes : Int32Range > 1 /\ n =< (Int32Range - 1) * 2 ^ c

VARIABLES packet,       \* the message, its packet, and the stream it is on
          fn,           \* "encrypt" or "decrypt"
          input,        \* bytes of the input stream not yet read
          chunkIndex, cryptedBytes, queuedBytes,
          loop,         \* where the loop of crypt() is
          jobs,         \* the chain behind latestPromise
          fifo,         \* the chunk that is being written, as <<chunk>>
          writer,       \* "writable", "closed" or "errored"
          held,         \* bytes in an array stream, read when it is closed
          output,       \* what the reader of the output was given
          sealed        \* the texts sealed so far

pipeline == <<input, chunkIndex, cryptedBytes, queuedBytes, loop, jobs, fifo, writer, held, output>>
vars == <<packet, fn, pipeline, sealed>>

Least(a, b) == IF a < b THEN a ELSE b
ChunkSize == 2 ^ packet.chunkSizeByte
TagIfDecrypting == IF fn = "decrypt" THEN TagLength ELSE 0
TagIfEncrypting == IF fn = "encrypt" THEN TagLength ELSE 0
HighWaterMark == Concurrency * ChunkSize

(* TypedArray.subarray: a negative index counts from the end.              *)
Subarray(s, begin, end) ==
    LET At(i) == IF i < 0 THEN IF Len(s) + i < 0 THEN 0 ELSE Len(s) + i
                          ELSE Least(i, Len(s))
    IN  SubSeq(s, At(begin) + 1, At(end))

(***************************************************************************)
(* Sealing and opening.                                                    *)
(***************************************************************************)
Bytes(j, n) == [p \in 1..n |-> <<j, p>>]
NonceOfIV == <<packet.iv, IF input = <<>> /\ chunkIndex > 0 THEN chunkIndex - 1 ELSE chunkIndex>>
Nonce == <<packet.iv, chunkIndex % Int32Range>>
AData == <<packet.chunkSizeByte, chunkIndex % Int32Range>>
ADataTag == Append(AData, cryptedBytes % Int32Range)
Sealing(text, adata) == [nonce |-> Nonce, adata |-> adata, text |-> text]
Opening(bytes, adata) ==
    {j \in DOMAIN sealed : /\ sealed[j].nonce = Nonce
                           /\ sealed[j].adata = adata
                           /\ bytes = Bytes(j, Len(sealed[j].text) + TagLength)}

(* modeInstance[fn]: the job it makes, a rejected promise when a text does *)
(* not open.                                                               *)
Job(text, adata) ==
    IF fn = "encrypt"
    THEN [ok |-> TRUE, bytes |-> Bytes(Len(sealed) + 1, Len(text) + TagLength)]
    ELSE LET found == Opening(text, adata)
         IN  IF found = {} THEN [ok |-> FALSE, bytes |-> <<>>]
                           ELSE [ok |-> TRUE, bytes |-> sealed[CHOOSE j \in found : TRUE].text]
Seal(text, adata) ==
    sealed' = IF fn = "encrypt" THEN Append(sealed, Sealing(text, adata)) ELSE sealed

(***************************************************************************)
(* The writer.  A web stream takes one chunk at a time (the chain writes   *)
(* the next one when the reader has taken this); an array stream takes     *)
(* everything and gives it to the reader when it is closed.                *)
(***************************************************************************)
InFifo == IF fifo = <<>> THEN 0 ELSE Len(fifo[1])

NoBackpressure(queued) == FALSE

(* queuedBytes > writer.desiredSize: an array stream has no desired size   *)
(* (undefined), an errored one has null, which compares as 0.              *)
Backpressure(queued) ==
    /\ packet.streaming
    /\ queued > IF writer = "errored" THEN 0 ELSE HighWaterMark - InFifo

(***************************************************************************)
(* crypt(), "aead" packets.                                                *)
(***************************************************************************)
WantedOneTag == ChunkSize + TagIfDecrypting
Wanted == ChunkSize + TagIfDecrypting + TagIfDecrypting
ReadThrows == packet.upstream = "fails" /\ Len(input) < Wanted
Taken == SubSeq(input, 1, Least(Wanted, Len(input)))
Rest == SubSeq(input, Least(Wanted, Len(input)) + 1, Len(input))
Chunk == Subarray(Taken, 0, Len(Taken) - TagIfDecrypting)
FinalChunk == Subarray(Taken, Len(Taken) - TagIfDecrypting, Len(Taken))

(* One turn of the loop for a chunk: the bytes held back for the final tag *)
(* are unshifted, the chunk's promise joins the chain.                     *)
CryptChunk ==
    /\ loop = "read"
    /\ ~ReadThrows
    /\ chunkIndex = 0 \/ Chunk # <<>>
    /\ input' = FinalChunk \o Rest
    /\ jobs' = Append(jobs, Job(Chunk, AData))
    /\ Seal(Chunk, AData)
    /\ queuedBytes' = queuedBytes + Len(Chunk) - TagIfDecrypting + TagIfEncrypting
    /\ cryptedBytes' = cryptedBytes + Len(Chunk) - TagIfDecrypting
    /\ loop' = IF Backpressure(queuedBytes') THEN "await" ELSE "read"
    /\ chunkIndex' = chunkIndex + 1
    /\ UNCHANGED <<packet, fn, fifo, writer, held, output>>

(* The last turn seals, or opens, an empty chunk for the final tag, whose  *)
(* additional data say how many bytes there were.                          *)
CryptFinal ==
    /\ loop = "read"
    /\ ~ReadThrows
    /\ chunkIndex # 0 /\ Chunk = <<>>
    /\ input' = Rest
    /\ jobs' = Append(jobs, Job(FinalChunk, ADataTag))
    /\ Seal(FinalChunk, ADataTag)
    /\ queuedBytes' = queuedBytes + TagIfEncrypting
    /\ cryptedBytes' = cryptedBytes - TagIfDecrypting
    /\ loop' = "last"
    /\ UNCHANGED <<packet, fn, chunkIndex, fifo, writer, held, output>>

(* A plausible bug: the loop ends with the error, the writer is not        *)
(* aborted.                                                                *)
ThrowsUnseen ==
    /\ loop = "read"
    /\ ReadThrows
    /\ loop' = "ended"
    /\ fifo' = <<>>
    /\ UNCHANGED <<packet, fn, input, chunkIndex, cryptedBytes, queuedBytes, jobs, writer, held, output, sealed>>

(* reader.readBytes rejects: the writer is aborted and the loop left.      *)
CryptThrows ==
    /\ loop = "read"
    /\ ReadThrows
    /\ loop' = "ended"
    /\ writer' = "errored"
    /\ fifo' = <<>>
    /\ UNCHANGED <<packet, fn, input, chunkIndex, cryptedBytes, queuedBytes, jobs, held, output, sealed>>

(* `await latestPromise' of a loop that was ahead of the writer.           *)
Awaited ==
    /\ loop = "await"
    /\ jobs = <<>>
    /\ loop' = "read"
    /\ UNCHANGED <<packet, fn, input, chunkIndex, cryptedBytes, queuedBytes, jobs, fifo, writer, held, output, sealed>>

CloseUnawaited ==
    /\ loop = "last"
    /\ loop' = "ended"
    /\ writer' = IF writer = "errored" THEN writer ELSE "closed"
    /\ output' = IF writer = "errored" THEN output ELSE output \o held
    /\ UNCHANGED <<packet, fn, input, chunkIndex, cryptedBytes, queuedBytes, jobs, fifo, held, sealed>>

(* The final turn awaits the chain and closes the writer; closing one that *)
(* was aborted throws, and aborts it again.                                *)
CloseWriter ==
    /\ loop = "last"
    /\ jobs = <<>>
    /\ loop' = "ended"
    /\ writer' = IF writer = "errored" THEN writer ELSE "closed"
    /\ output' = IF writer = "errored" THEN output ELSE output \o held
    /\ UNCHANGED <<packet, fn, input, chunkIndex, cryptedBytes, queuedBytes, jobs, fifo, held, sealed>>

(***************************************************************************)
(* The chain: the first job's turn.                                        *)
(***************************************************************************)
Resolves == jobs # <<>> /\ Head(jobs).ok /\ fifo = <<>>
Rejects == ~Head(jobs).ok \/ (packet.streaming /\ writer = "errored")

WriteChunk ==
    /\ Resolves
    /\ packet.streaming /\ writer = "writable"
    /\ fifo' = <<Head(jobs).bytes>>
    /\ UNCHANGED <<packet, fn, input, chunkIndex, cryptedBytes, queuedBytes, loop, jobs, writer, held, output, sealed>>

WriteArray ==
    /\ Resolves
    /\ ~packet.streaming
    /\ held' = held \o Head(jobs).bytes
    /\ queuedBytes' = queuedBytes - Len(Head(jobs).bytes)
    /\ jobs' = Tail(jobs)
    /\ UNCHANGED <<packet, fn, input, chunkIndex, cryptedBytes, loop, fifo, writer, output, sealed>>

(* The reader takes the chunk, and writer.write resolves.                  *)
Pull ==
    /\ fifo # <<>>
    /\ output' = output \o fifo[1]
    /\ fifo' = <<>>
    /\ queuedBytes' = queuedBytes - Len(fifo[1])
    /\ jobs' = Tail(jobs)
    /\ UNCHANGED <<packet, fn, input, chunkIndex, cryptedBytes, loop, writer, held, sealed>>

SwallowError ==
    /\ jobs # <<>> /\ fifo = <<>>
    /\ Rejects
    /\ jobs' = Tail(jobs)
    /\ UNCHANGED <<packet, fn, input, chunkIndex, cryptedBytes, queuedBytes, loop, fifo, writer, held, output, sealed>>

(* Opening failed, or the writer refuses: the link's catch aborts the      *)
(* writer, and the next link has its turn.                                 *)
AbortWriter ==
    /\ jobs # <<>> /\ fifo = <<>>
    /\ Rejects
    /\ writer' = "errored"
    /\ jobs' = Tail(jobs)
    /\ UNCHANGED <<packet, fn, input, chunkIndex, cryptedBytes, queuedBytes, loop, fifo, held, output, sealed>>

(***************************************************************************)
(* "seip" packets: a random prefix, the data, the header of the            *)
(* modification detection code, and the hash of all of these.              *)
(***************************************************************************)
Prefix == <<-1>>
MDC == <<-2>>
Hash == <<-3>>
Junk == 0

(* CFB undoes a block if it and the one before it are those that were sent.*)
Decrypted ==
    [i \in DOMAIN input |->
        IF /\ i \in DOMAIN sealed[1].text
           /\ \A k \in {i - 1, i} \ {0} : input[k] = <<1, k>>
        THEN sealed[1].text[i] ELSE Junk]
ToHash == Subarray(Decrypted, 0, -Len(Hash))
RealHash == Subarray(Decrypted, Len(Decrypted) - Len(Hash), Len(Decrypted))
HashRight == Append(ToHash, RealHash) = Append(Subarray(sealed[1].text, 0, -Len(Hash)), Hash)
PacketBytes == Subarray(Subarray(ToHash, Len(Prefix), Len(ToHash)), 0, -Len(MDC))

EncryptSEIP ==
    /\ loop = "seip" /\ fn = "encrypt"
    /\ IF packet.upstream = "fails"
       THEN writer' = "errored" /\ UNCHANGED <<sealed, output>>
       ELSE /\ sealed' = <<[nonce |-> <<>>, adata |-> <<>>, text |-> Prefix \o input \o MDC \o Hash]>>
            /\ output' = Bytes(1, Len(sealed'[1].text))
            /\ writer' = "closed"
    /\ loop' = "ended"
    /\ UNCHANGED <<packet, fn, input, chunkIndex, cryptedBytes, queuedBytes, jobs, fifo, held>>

Unauthenticated == packet.early /\ packet.streaming

(* With allowUnauthenticatedStream the packets of a stream are read while  *)
(* it is still being decrypted.                                            *)
ReleaseSEIP ==
    /\ loop = "seip" /\ fn = "decrypt"
    /\ Unauthenticated
    /\ Len(output) < Len(PacketBytes)
    /\ output' = Append(output, PacketBytes[Len(output) + 1])
    /\ UNCHANGED <<packet, fn, input, chunkIndex, cryptedBytes, queuedBytes, loop, jobs, fifo, writer, held, sealed>>

(* Otherwise they are read once the hash has been compared.                *)
FinishSEIP ==
    /\ loop = "seip" /\ fn = "decrypt"
    /\ Unauthenticated => output = PacketBytes
    /\ IF packet.upstream = "ends" /\ HashRight
       THEN output' = PacketBytes /\ writer' = "closed"
       ELSE writer' = "errored" /\ UNCHANGED output
    /\ loop' = "ended"
    /\ UNCHANGED <<packet, fn, input, chunkIndex, cryptedBytes, queuedBytes, jobs, fifo, held, sealed>>

(* encrypt() of a packet without integrity protection, whose decrypt()     *)
(* throws.                                                                 *)
CryptSED ==
    /\ loop = "sed"
    /\ IF fn = "decrypt" \/ packet.upstream = "fails"
       THEN writer' = "errored" /\ UNCHANGED <<sealed, output>>
       ELSE /\ sealed' = <<[nonce |-> <<>>, adata |-> <<>>, text |-> Prefix \o input]>>
            /\ output' = Bytes(1, Len(sealed'[1].text))
            /\ writer' = "closed"
    /\ loop' = "ended"
    /\ UNCHANGED <<packet, fn, input, chunkIndex, cryptedBytes, queuedBytes, jobs, fifo, held>>

(***************************************************************************)
(* The message on its way: bytes are lost, at its end or elsewhere, a      *)
(* segment is repeated or put in the place of another, two neighbouring    *)
(* segments are exchanged, or the header of an AEAD packet is another one. *)
(***************************************************************************)
Entrance == IF packet.kind = "aead" THEN "read" ELSE packet.kind

Cut(s, i, j) == SubSeq(s, i + 1, Least(j, Len(s)))
Lost(s, i, j) == Cut(s, 0, i) \o Cut(s, j, Len(s))
Repeated(s, i, j, l) == Cut(s, 0, i) \o Cut(s, j, j + l) \o Cut(s, i, Len(s))
Replaced(s, i, j, l) == Cut(s, 0, i) \o Cut(s, j, j + l) \o Cut(s, i + l, Len(s))
Exchanged(s, i, j, l) == Cut(s, 0, i) \o Cut(s, j, j + l) \o Cut(s, i, j) \o Cut(s, j + l, Len(s))
CutAndPaste(s) ==
    LET Places == 0..Len(s)
    IN  {Lost(s, i, j) : i, j \in Places} \cup {Repeated(s, i, j, l) : i, j, l \in Places}
        \cup {Replaced(s, i, j, l) : i, j, l \in Places} \cup {Exchanged(s, i, j, l) : i, j, l \in Places}

Moved == {[packet |-> [packet EXCEPT !.intact = (bytes = output)], bytes |-> bytes] : bytes \in CutAndPaste(output)}
Reheader(size, iv, up) ==
    [packet |-> [packet EXCEPT !.chunkSizeByte = size, !.iv = iv, !.upstream = up, !.intact = FALSE], bytes |-> output]
Reheaded == {Reheader(size, iv, up) : size \in SizeBytes, iv \in {1, 2}, up \in {"ends", "fails"}}
            \ {Reheader(packet.chunkSizeByte, packet.iv, packet.upstream)}
Deliveries ==
    CASE packet.kind = "aead" -> Moved \cup Reheaded
      [] packet.kind = "seip" -> Moved
      [] packet.kind = "sed" -> {[packet |-> packet, bytes |-> output]}

(* read(): version, algorithms, chunkSizeByte and iv come from the bytes.  *)
Deliver ==
    /\ fn = "encrypt" /\ writer = "closed" /\ loop = "ended"
    /\ fn' = "decrypt"
    /\ \E d \in Deliveries, streaming \in BOOLEAN :
        /\ packet' = [d.packet EXCEPT !.streaming = streaming]
        /\ input' = d.bytes
    /\ chunkIndex' = 0 /\ cryptedBytes' = 0 /\ queuedBytes' = 0
    /\ jobs' = <<>> /\ fifo' = <<>> /\ held' = <<>> /\ output' = <<>>
    /\ writer' = "writable"
    /\ loop' = Entrance
    /\ UNCHANGED sealed

Init ==
    /\ packet \in [plain : {[i \in 1..n |-> i] : n \in Lengths}, kind : {"aead", "seip", "sed"},
                   chunkSizeByte : SizeBytes, iv : {1}, upstream : {"ends", "fails"},
                   streaming : BOOLEAN, early : BOOLEAN, intact : {TRUE}]
    /\ packet.early => packet.kind = "seip"
    /\ fn = "encrypt"
    /\ input = packet.plain
    /\ chunkIndex = 0 /\ cryptedBytes = 0 /\ queuedBytes = 0
    /\ loop = Entrance
    /\ jobs = <<>> /\ fifo = <<>> /\ held = <<>> /\ output = <<>>
    /\ writer = "writable"
    /\ sealed = <<>>

Crypt == CryptChunk \/ CryptFinal \/ CryptThrows \/ Awaited \/ CloseWriter
Chain == WriteChunk \/ WriteArray \/ AbortWriter
Work == Crypt \/ Chain \/ Pull \/ EncryptSEIP \/ ReleaseSEIP \/ FinishSEIP \/ CryptSED
Next == Work \/ Deliver

(* Promise callbacks run, the input arrives or fails, and the reader reads *)
(* on; nothing says that what was encrypted is ever sent.                  *)
Spec == Init /\ [][Next]_vars /\ WF_vars(Work)

----------------------------------------------------------------------------
(* Every variable of crypt() keeps its type; the counters are integers,    *)
(* and at most one chunk is on its way to the reader.                      *)
TypeOK ==
    /\ fn \in {"encrypt", "decrypt"}
    /\ packet.kind \in {"aead", "seip", "sed"} /\ packet.chunkSizeByte \in SizeBytes
    /\ chunkIndex \in Nat /\ cryptedBytes \in Int /\ queuedBytes \in Int
    /\ loop \in {"read", "await", "last", "ended", "seip", "sed"}
    /\ \A i \in DOMAIN jobs : jobs[i].ok \in BOOLEAN
    /\ Len(fifo) =< 1 /\ Len(fifo) =< Len(jobs)
    /\ writer \in {"writable", "closed", "errored"}

(* Encryption that ends has sealed every chunk of the plaintext, once, in  *)
(* order, under its own index, has sealed the length last (if it is less   *)
(* than Int32Range: "Should be setInt64(13, ...)"; of a longer one the code*)
(* authenticates the lower four octets), and has written all of it in that *)
(* order, however the chain and the loop interleave; and no nonce is used  *)
(* twice under one session key and iv, not for two chunks and not for a    *)
(* chunk and the final tag.                                                *)
Chunks == IF packet.plain = <<>> THEN 1 ELSE (Len(packet.plain) + ChunkSize - 1) \div ChunkSize
ChunkSealing(k, size) ==
    [nonce |-> <<packet.iv, k>>, adata |-> <<size, k>>,
     text |-> SubSeq(packet.plain, k * 2 ^ size + 1, Least((k + 1) * 2 ^ size, Len(packet.plain)))]
FinalSealing(k, size) ==
    [nonce |-> <<packet.iv, k>>, adata |-> <<size, k, Len(packet.plain)>>, text |-> <<>>]
Offset(j) == Least((j - 1) * ChunkSize, Len(packet.plain)) + (j - 1) * TagLength
Encrypted == fn = "encrypt" /\ packet.kind = "aead" /\ writer = "closed"
CiphertextRight ==
    /\ TypeOK
    /\ packet.kind = "aead" => \A i, j \in DOMAIN sealed : sealed[i].nonce = sealed[j].nonce => i = j
    /\ Encrypted =>
        /\ Len(sealed) = Chunks + 1
        /\ \A j \in 1..Chunks : sealed[j] = ChunkSealing(j - 1, packet.chunkSizeByte)
        /\ LET final == sealed[Chunks + 1]
           IN  /\ final.nonce = <<packet.iv, Chunks>> /\ final.text = <<>>
               /\ Len(packet.plain) < Int32Range => final = FinalSealing(Chunks, packet.chunkSizeByte)
        /\ Len(output) = Len(packet.plain) + (Chunks + 1) * TagLength
        /\ \A j \in DOMAIN sealed : \A p \in 1..(Len(sealed[j].text) + TagLength) :
            output[Offset(j) + p] = <<j, p>>

(* The bytes that crypt() holds for a reader who is slow are bounded by    *)
(* the high-water mark and one chunk, whatever the length of the message.  *)
BytesOf(chain) == FoldLeft(LAMBDA n, job : n + Len(job.bytes), 0, chain)
PipelineBounded == packet.streaming => BytesOf(jobs) =< HighWaterMark + ChunkSize + TagLength

(* The reader of decrypt() sees an authenticated stream: whatever was done *)
(* to the bytes and to the header, a prefix of the plaintext and no end    *)
(* before all of it.                                                       *)
Stream == INSTANCE AuthenticatedStream WITH
    plain <- packet.plain, early <- packet.early,
    released <- IF fn = "decrypt" THEN output ELSE <<>>,
    status <- CASE writer = "errored" -> "failed"
                [] writer # "errored" /\ fn = "encrypt" -> "idle"
                [] OTHER -> IF writer = "closed" THEN "closed" ELSE "open"
StreamSafety == Stream!Safety

(* An end of that stream, or a failure, does come: neither an input that   *)
(* fails nor a chunk that does not open leaves its reader waiting; and a   *)
(* message that was not touched is decrypted, in whole.                    *)
StreamSettles ==
    /\ Stream!Ends
    /\ (fn = "decrypt" /\ packet.intact /\ packet.kind # "sed")
            ~> (writer = "closed" /\ output = packet.plain)
============================================================================
