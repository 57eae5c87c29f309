----------------------- MODULE EncryptedDataInvariant -----------------------
(***************************************************************************)
(* The inductive invariant behind CiphertextRight of EncryptedData and     *)
(* its refinement of AuthenticatedStream: how the chunks sealed, the chain *)
(* of jobs and the bytes written fit together; and the one behind          *)
(* PipelineBounded.                                                        *)
(***************************************************************************)
EXTENDS EncryptedData

Byte == Int \cup (Int \X Int)
JobRec  == [ok : BOOLEAN, bytes : Seq(Byte)]
SealRec == [nonce : Seq(Int), adata : Seq(Int), text : Seq(Byte)]

Types ==
    /\ packet \in [plain : {[i \in 1..n |-> i] : n \in Lengths}, kind : {"aead", "seip", "sed"},
                   chunkSizeByte : SizeBytes, iv : {1, 2}, upstream : {"ends", "fails"},
                   streaming : BOOLEAN, early : BOOLEAN, intact : BOOLEAN]
    /\ fn \in {"encrypt", "decrypt"}
    /\ input \in Seq(Byte) /\ held \in Seq(Byte) /\ output \in Seq(Byte)
    /\ jobs \in Seq(JobRec) /\ sealed \in Seq(SealRec)
    /\ chunkIndex \in Nat /\ cryptedBytes \in Int /\ queuedBytes \in Int
    /\ loop \in {"read", "await", "last", "ended", "seip", "sed"}
    /\ writer \in {"writable", "closed", "errored"}

(* Where the loop, the chain and the writer can be together.               *)
Shape ==
    /\ packet.kind = "aead" => loop \in {"read", "await", "last", "ended"}
    /\ packet.kind # "aead" => loop \in {packet.kind, "ended"} /\ jobs = <<>>
    /\ packet.early => packet.kind = "seip"
    /\ fifo = <<>> \/ /\ jobs # <<>> /\ fifo = <<Head(jobs).bytes>> /\ Head(jobs).ok
                      /\ packet.streaming /\ writer = "writable"
    /\ writer = "writable" => loop # "ended"
    /\ writer = "closed" => loop = "ended" /\ jobs = <<>>
    /\ packet.streaming => held = <<>>
    /\ ~packet.streaming /\ packet.kind = "aead" /\ writer # "closed" => output = <<>>

PlainLength == Len(packet.plain)

(* The jobs that crypt() made, those that are over, and what these wrote.  *)
Made == IF loop = "last" THEN chunkIndex + 1 ELSE chunkIndex
Gone == Made - Len(jobs)
Written == IF packet.streaming THEN output ELSE held

(* Bytes of the first m sealed texts, each at its place.                   *)
Placed(bytes, m) ==
    /\ Len(bytes) = Offset(m + 1)
    /\ \A j \in 1..m : \A p \in 1..(Len(sealed[j].text) + TagLength) : bytes[Offset(j) + p] = <<j, p>>

(* The final tag as the code seals it, with the lower octets of the length.*)
FinalSealed(k, size) ==
    [nonce |-> <<packet.iv, k>>, adata |-> <<size, k, Len(packet.plain) % Int32Range>>, text |-> <<>>]

(* All of the plaintext is sealed, and its length.                         *)
AllSealed(size) ==
    LET C == Len(sealed) - 1
    IN  /\ C >= 1 /\ PlainLength =< C * 2 ^ size
        /\ C = 1 \/ (C - 1) * 2 ^ size < PlainLength
        /\ \A j \in 1..C : sealed[j] = [ChunkSealing(j - 1, size) EXCEPT !.nonce = <<1, j - 1>>]
        /\ sealed[C + 1] = [FinalSealed(C, size) EXCEPT !.nonce = <<1, C>>]

(* What the loop sealed so far, and what is left to read.                  *)
SealedSoFar ==
    /\ Len(sealed) = Made
    /\ cryptedBytes = Least(chunkIndex * ChunkSize, PlainLength)
    /\ input = SubSeq(packet.plain, cryptedBytes + 1, PlainLength)
    /\ chunkIndex =< 1 \/ (chunkIndex - 1) * ChunkSize < PlainLength
    /\ \A j \in 1..chunkIndex : sealed[j] = ChunkSealing(j - 1, packet.chunkSizeByte)
    /\ loop = "last" => AllSealed(packet.chunkSizeByte)

(* What the chain wrote of it, and what it is still to write.              *)
WrittenSoFar ==
    /\ Gone >= 0 /\ Placed(Written, Gone)
    /\ \A i \in DOMAIN jobs :
        jobs[i] = [ok |-> TRUE, bytes |-> Bytes(Gone + i, Len(sealed[Gone + i].text) + TagLength)]

Encrypting ==
    fn = "encrypt" /\ packet.kind = "aead" =>
    /\ packet.iv = 1
    /\ writer = "errored" => loop = "ended"
    /\ writer = "writable" => SealedSoFar /\ WrittenSoFar
    /\ writer = "closed" => AllSealed(packet.chunkSizeByte) /\ Placed(output, Len(sealed))

(* A nonce belongs to the place of its text.                               *)
Nonces == packet.kind = "aead" => \A j \in DOMAIN sealed : sealed[j].nonce = <<1, j - 1>>

(* Job k found the text it opened among the sealed ones.                   *)
Opened(k, bytes) ==
    \E j \in DOMAIN sealed :
        /\ sealed[j].nonce = <<packet.iv, k % Int32Range>> /\ bytes = sealed[j].text
        /\ IF k < chunkIndex THEN sealed[j].adata = <<packet.chunkSizeByte, k % Int32Range>>
                             ELSE Len(sealed[j].adata) = 3 /\ sealed[j].adata[1] = packet.chunkSizeByte

(* As long as every job was right, what they wrote is the plaintext.       *)
ReadSoFar(size) ==
    /\ 0 =< Gone /\ Gone =< Len(sealed)
    /\ Gone >= 1 => packet.chunkSizeByte = size
    /\ Gone = Len(sealed) => loop = "last" /\ jobs = <<>>
    /\ loop = "last" /\ jobs = <<>> => Gone = Len(sealed)
    /\ Written = SubSeq(packet.plain, 1, Least(Gone * 2 ^ size, PlainLength))
    /\ \A i \in DOMAIN jobs : jobs[i].ok => Opened(Gone + i - 1, jobs[i].bytes)

Decrypting ==
    fn = "decrypt" /\ packet.kind = "aead" =>
    \E size \in SizeBytes : AllSealed(size) /\ (writer = "writable" => ReadSoFar(size))

(* The text of a "seip" packet, and what its reader has of it early.       *)
Whole ==
    packet.kind = "seip" =>
    /\ fn = "encrypt" /\ loop = "seip" => input = packet.plain
    /\ fn = "decrypt" \/ writer = "closed" =>
        /\ Len(sealed) = 1
        /\ sealed[1].text = Prefix \o packet.plain \o MDC \o Hash
    /\ loop = "seip" =>
        /\ writer = "writable"
        /\ output = <<>> \/ /\ fn = "decrypt" /\ Unauthenticated /\ Len(output) =< Len(PacketBytes)
                            /\ output = SubSeq(PacketBytes, 1, Len(output))
Sed == packet.kind = "sed" /\ loop = "sed" => writer = "writable"

IInv == Shape /\ Encrypting /\ Nonces /\ Decrypting /\ Whole /\ Sed

(* What the loop counts is what the chain holds, or more, until it reads   *)
(* less than a tag, which opens as nothing; and it reads on only below the *)
(* high-water mark.                                                        *)
QueueRight ==
    packet.streaming =>
    /\ PipelineBounded
    /\ loop = "read" => BytesOf(jobs) =< HighWaterMark
    /\ \/ BytesOf(jobs) =< queuedBytes
       \/ fn = "decrypt" /\ Len(input) =< TagLength
=============================================================================
