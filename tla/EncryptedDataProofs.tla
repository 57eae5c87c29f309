------------------------- MODULE EncryptedDataProofs -------------------------
(***************************************************************************)
(* Theorems about EncryptedData, for plaintexts, chunks and tags of any    *)
(* length: encryption seals and writes every chunk once and in order, and  *)
(* decryption implements AuthenticatedStream whatever was done to the      *)
(* bytes.  They follow from EncryptedDataInvariant.                        *)
(***************************************************************************)
EXTENDS EncryptedDataInvariant, FoldProofs

----------------------------------------------------------------------------
(* Arithmetic of chunks, and pieces of sequences.                          *)

LEMMA PowerPositive == \A c \in Nat : 2 ^ c \in Nat \ {0}
<1> SUFFICES ASSUME NEW c \in Nat PROVE 2 ^ c \in Nat \ {0}
  OBVIOUS
<1>1. IsFiniteSet(1..c) /\ Cardinality(1..c) = c
  BY FS_Interval
<1>2. Cardinality(SUBSET (1..c)) = 2 ^ c /\ IsFiniteSet(SUBSET (1..c))
  BY <1>1, FS_SUBSET
<1>3. SUBSET (1..c) # {}
  OBVIOUS
<1> QED BY <1>2, <1>3, FS_CardinalityType, FS_EmptySet

LEMMA ChunkTimes ==
  ASSUME NEW k \in Nat, NEW m \in Nat \ {0}
  PROVE  k * m \in Nat /\ (k + 1) * m = k * m + m /\ (k = 0 => k * m = 0) /\ (k >= 1 => k * m >= m)
OBVIOUS

LEMMA ChunkOrder ==
  ASSUME NEW k \in Nat, NEW l \in Nat, NEW m \in Nat \ {0}, k * m < l * m
  PROVE  k < l
OBVIOUS

\* A sequence and what is appended to it.
LEMMA ConcatParts ==
  ASSUME NEW S, NEW s \in Seq(S), NEW t \in Seq(S)
  PROVE  /\ s \o t \in Seq(S) /\ Len(s \o t) = Len(s) + Len(t)
         /\ \A i \in 1..Len(s) : (s \o t)[i] = s[i]
         /\ \A i \in 1..Len(t) : (s \o t)[Len(s) + i] = t[i]
<1>1. Len(s) \in Nat /\ Len(t) \in Nat
  OBVIOUS
<1> QED BY <1>1, ConcatProperties

LEMMA Triple ==
  ASSUME NEW S, NEW t \in Seq(S), NEW a, NEW b, NEW c, Len(t) = 3, t[1] = a, t[2] = b, t[3] = c
  PROVE  t = <<a, b, c>>
OBVIOUS

LEMMA AppendToPair ==
  ASSUME NEW a \in Int, NEW b \in Int, NEW c \in Int
  PROVE  Append(<<a, b>>, c) = <<a, b, c>>
<1> DEFINE s == <<a, b>>
           t == Append(s, c)
<1>1. s \in Seq(Int)
  OBVIOUS
<1>2. Len(s) = 2 /\ s[1] = a /\ s[2] = b
  OBVIOUS
<1> HIDE DEF s
<1>3. /\ t \in Seq(Int) /\ Len(t) = Len(s) + 1 /\ t[Len(s) + 1] = c
      /\ \A i \in 1..Len(s) : t[i] = s[i]
  BY <1>1, AppendProperties
<1> HIDE DEF t
<1>4. Len(t) = 3 /\ t[3] = c /\ t[1] = a /\ t[2] = b
  <2>1. 1 \in 1..Len(s) /\ 2 \in 1..Len(s) /\ Len(s) + 1 = 3
    BY <1>2
  <2> QED BY <1>2, <1>3, <2>1
<1>5. t = <<a, b, c>>
  <2>1. t \in Seq(Int)
    BY <1>3
  <2>2. \A u \in Seq(Int) : Len(u) = 3 /\ u[1] = a /\ u[2] = b /\ u[3] = c => u = <<a, b, c>>
    BY Triple
  <2> QED BY <2>1, <2>2, <1>4, Zenon
<1> QED BY <1>5 DEF s, t

\* A piece of a sequence, and what follows it.
LEMMA SubSeqPart ==
  ASSUME NEW S, NEW s \in Seq(S), NEW a \in Nat, NEW b \in Nat, a =< b, b =< Len(s)
  PROVE  /\ SubSeq(s, a + 1, b) \in Seq(S)
         /\ Len(SubSeq(s, a + 1, b)) = b - a
         /\ \A i \in 1..(b - a) : SubSeq(s, a + 1, b)[i] = s[a + i]
OBVIOUS

LEMMA SubSeqSplit ==
  ASSUME NEW S, NEW s \in Seq(S), NEW a \in Nat, NEW b \in Nat, NEW c \in Nat,
         a =< b, b =< c, c =< Len(s)
  PROVE  SubSeq(s, a + 1, b) \o SubSeq(s, b + 1, c) = SubSeq(s, a + 1, c)
OBVIOUS

LEMMA SubSeqOf ==
  ASSUME NEW S, NEW s \in Seq(S), NEW a \in Nat, NEW b \in Nat, NEW c \in Nat, NEW d \in Nat,
         a =< b, b =< Len(s), c =< d, d =< b - a
  PROVE  SubSeq(SubSeq(s, a + 1, b), c + 1, d) = SubSeq(s, a + c + 1, a + d)
OBVIOUS

LEMMA SubSeqStart ==
  ASSUME NEW S, NEW s \in Seq(S), NEW a \in Nat, NEW b \in Nat, NEW d \in Nat,
         a =< b, b =< Len(s), d =< b - a
  PROVE  SubSeq(SubSeq(s, a + 1, b), 1, d) = SubSeq(s, a + 1, a + d)
OBVIOUS

LEMMA EmptyLength ==
  ASSUME NEW S, NEW s \in Seq(S)
  PROVE  s = <<>> <=> Len(s) = 0
OBVIOUS

LEMMA DivChunks ==
  ASSUME NEW n \in Nat, NEW C \in Nat, NEW m \in Nat \ {0}, C >= 1, n =< C * m, C = 1 \/ (C - 1) * m < n, n > 0
  PROVE  C = (n + m - 1) \div m
OBVIOUS

----------------------------------------------------------------------------
(* Types.                                                                  *)

LEMMA PacketFacts ==
  ASSUME Types
  PROVE  /\ packet.chunkSizeByte \in SizeBytes /\ ChunkSize \in Nat \ {0}
         /\ TagLength \in Nat \ {0} /\ TagIfDecrypting \in Nat /\ TagIfEncrypting \in Nat
         /\ packet.plain \in Seq(Byte) /\ PlainLength \in Lengths /\ PlainLength \in Nat
         /\ packet.plain = [i \in 1..PlainLength |-> i]
         /\ Int32Range \in Nat
         /\ \A size \in SizeBytes : 2 ^ size \in Nat \ {0} /\ PlainLength =< (Int32Range - 1) * 2 ^ size
<1>1. PICK n \in Lengths : packet.plain = [i \in 1..n |-> i]
  BY DEF Types
<1>2. n \in Nat
  BY EncryptedDataAssumption
<1>3. packet.plain \in Seq(Byte) /\ PlainLength = n
  BY <1>1, <1>2 DEF PlainLength, Byte
<1>4. packet.chunkSizeByte \in SizeBytes
  BY DEF Types
<1>5. \A size \in SizeBytes : 2 ^ size \in Nat \ {0}
  BY EncryptedDataAssumption, PowerPositive
<1>6. TagLength \in Nat \ {0} /\ TagIfDecrypting \in Nat /\ TagIfEncrypting \in Nat /\ Int32Range \in Nat
  BY EncryptedDataAssumption DEF TagIfDecrypting, TagIfEncrypting
<1>7. \A size \in SizeBytes : PlainLength =< (Int32Range - 1) * 2 ^ size
  BY <1>3, EncryptedDataAssumption
<1> QED BY <1>1, <1>2, <1>3, <1>4, <1>5, <1>6, <1>7 DEF ChunkSize

\* The pieces that one turn of the loop makes of the input.
LEMMA ReadPieces ==
  ASSUME Types
  PROVE  /\ Chunk \in Seq(Byte) /\ FinalChunk \in Seq(Byte) /\ Rest \in Seq(Byte)
         /\ FinalChunk \o Rest \in Seq(Byte)
         /\ fn = "encrypt" => /\ Chunk = SubSeq(input, 1, Least(ChunkSize, Len(input)))
                              /\ FinalChunk = <<>>
                              /\ Rest = SubSeq(input, Least(ChunkSize, Len(input)) + 1, Len(input))
<1>0. input \in Seq(Byte) /\ ChunkSize \in Nat \ {0} /\ TagIfDecrypting \in Nat
  BY PacketFacts DEF Types
<1>1. Wanted \in Nat /\ Len(input) \in Nat
  BY <1>0 DEF Wanted
<1> DEFINE w == Least(Wanted, Len(input))
<1>2. w \in Nat /\ w =< Len(input)
  BY <1>1 DEF Least
<1>3. Taken \in Seq(Byte) /\ Len(Taken) = w /\ Rest \in Seq(Byte)
  <2> HIDE DEF w
  <2>1. SubSeq(input, 1, w) \in Seq(Byte) /\ Len(SubSeq(input, 1, w)) = w
    BY <1>0, <1>2
  <2>2. SubSeq(input, w + 1, Len(input)) \in Seq(Byte)
    BY <1>0, <1>2
  <2> QED BY <2>1, <2>2 DEF Taken, Rest, w
<1>4. ASSUME NEW a \in Int, NEW b \in Int PROVE Subarray(Taken, a, b) \in Seq(Byte)
  BY <1>3, SMTT(30) DEF Subarray, Least
<1>5. Chunk \in Seq(Byte) /\ FinalChunk \in Seq(Byte)
  <2>1. Len(Taken) \in Int /\ Len(Taken) - TagIfDecrypting \in Int /\ 0 \in Int
    BY <1>0, <1>2, <1>3
  <2> QED BY <1>4, <2>1 DEF Chunk, FinalChunk
<1>6. ASSUME fn = "encrypt"
      PROVE  /\ Chunk = SubSeq(input, 1, Least(ChunkSize, Len(input)))
             /\ FinalChunk = <<>>
             /\ Rest = SubSeq(input, Least(ChunkSize, Len(input)) + 1, Len(input))
  <2>1. TagIfDecrypting = 0 /\ Wanted = ChunkSize
    BY <1>0, <1>6 DEF TagIfDecrypting, Wanted
  <2>2. Chunk = SubSeq(Taken, 1, Len(Taken))
    BY <1>2, <1>3, <2>1 DEF Chunk, Subarray, Least
  <2>3. Chunk = Taken
    BY <1>3, <2>2
  <2>4. FinalChunk = <<>>
    BY <1>2, <1>3, <2>1 DEF FinalChunk, Subarray, Least
  <2> QED BY <2>1, <2>3, <2>4 DEF Taken, Rest
<1> QED BY <1>3, <1>5, <1>6

\* What one turn of the loop, and a delivery, put on the chain.
LEMMA JobType ==
  ASSUME Types, NEW text \in Seq(Byte), NEW adata \in Seq(Int), Seal(text, adata)
  PROVE  /\ Job(text, adata) \in JobRec
         /\ sealed' \in Seq(SealRec)
<1>0. sealed \in Seq(SealRec) /\ TagLength \in Nat /\ packet.iv \in Int /\ chunkIndex \in Nat /\ Int32Range \in Nat
  BY PacketFacts DEF Types
<1>1. CASE fn = "encrypt"
  <2>1. \A j \in Nat, n \in Nat : Bytes(j, n) \in Seq(Byte)
    BY DEF Bytes, Byte
  <2>2. Len(sealed) + 1 \in Nat /\ Len(text) + TagLength \in Nat
    BY <1>0
  <2>3. Job(text, adata) \in JobRec
    BY <1>1, <2>1, <2>2 DEF Job, JobRec
  <2>4. Nonce \in Seq(Int)
    <3>1. chunkIndex % Int32Range \in Int
      <4>1. Int32Range > 1
        BY PacketFacts, EncryptedDataAssumption
      <4> QED BY <1>0, <4>1
    <3> QED BY <1>0, <3>1 DEF Nonce
  <2>5. Sealing(text, adata) \in SealRec
    BY <2>4 DEF Sealing, SealRec
  <2> QED BY <1>0, <1>1, <2>3, <2>5 DEF Seal
<1>2. CASE fn # "encrypt"
  <2>1. \A j \in DOMAIN sealed : sealed[j].text \in Seq(Byte)
    <3>1. \A j \in DOMAIN sealed : sealed[j] \in SealRec
      BY <1>0
    <3> QED BY <3>1 DEF SealRec
  <2>2. Opening(text, adata) \subseteq DOMAIN sealed
    BY DEF Opening
  <2> QED BY <1>0, <1>2, <2>1, <2>2 DEF Job, JobRec, Seal
<1> QED BY <1>1, <1>2

LEMMA ADataTypes ==
  ASSUME Types
  PROVE  AData \in Seq(Int) /\ ADataTag \in Seq(Int)
<1>1. Int32Range > 1 /\ Int32Range \in Nat /\ packet.chunkSizeByte \in Nat
  BY PacketFacts, EncryptedDataAssumption
<1>2. chunkIndex % Int32Range \in Int /\ cryptedBytes % Int32Range \in Int
  BY <1>1 DEF Types
<1> QED BY <1>1, <1>2 DEF AData, ADataTag

LEMMA HeadOfJobs ==
  ASSUME Types, jobs # <<>>
  PROVE  /\ Head(jobs) \in JobRec /\ Tail(jobs) \in Seq(JobRec) /\ Head(jobs).bytes \in Seq(Byte)
         /\ Len(Tail(jobs)) = Len(jobs) - 1 /\ Len(jobs) \in Nat \ {0} /\ Head(jobs) = jobs[1]
         /\ \A i \in 1..Len(Tail(jobs)) : Tail(jobs)[i] = jobs[i + 1]
<1>1. jobs \in Seq(JobRec)
  BY DEF Types
<1>2. Head(jobs) \in JobRec
  BY <1>1
<1>3. Head(jobs).bytes \in Seq(Byte)
  BY <1>2 DEF JobRec
<1> QED BY <1>1, <1>2, <1>3

LEMMA CryptTypes ==
  ASSUME Types, Crypt
  PROVE  Types'
<1>1. CASE CryptChunk
  <2>1. input' \in Seq(Byte)
    BY <1>1, ReadPieces DEF CryptChunk
  <2>2. Job(Chunk, AData) \in JobRec /\ sealed' \in Seq(SealRec)
    BY <1>1, ReadPieces, ADataTypes, JobType DEF CryptChunk
  <2>3. jobs' \in Seq(JobRec)
    BY <1>1, <2>2 DEF CryptChunk, Types
  <2>4. Len(Chunk) \in Nat /\ TagIfDecrypting \in Nat /\ TagIfEncrypting \in Nat
    BY ReadPieces, PacketFacts
  <2>5. chunkIndex' \in Nat /\ cryptedBytes' \in Int /\ queuedBytes' \in Int
    BY <1>1, <2>4 DEF CryptChunk, Types
  <2>6. loop' \in {"await", "read"} /\ UNCHANGED <<packet, fn, writer, held, output>>
    BY <1>1 DEF CryptChunk
  <2> QED BY <2>1, <2>2, <2>3, <2>5, <2>6 DEF Types
<1>2. CASE CryptFinal
  <2>1. input' \in Seq(Byte)
    BY <1>2, ReadPieces DEF CryptFinal
  <2>2. Job(FinalChunk, ADataTag) \in JobRec /\ sealed' \in Seq(SealRec)
    BY <1>2, ReadPieces, ADataTypes, JobType DEF CryptFinal
  <2>3. jobs' \in Seq(JobRec)
    BY <1>2, <2>2 DEF CryptFinal, Types
  <2>4. TagIfDecrypting \in Nat /\ TagIfEncrypting \in Nat
    BY PacketFacts
  <2>5. cryptedBytes' \in Int /\ queuedBytes' \in Int
    BY <1>2, <2>4 DEF CryptFinal, Types
  <2>6. loop' = "last" /\ UNCHANGED <<packet, fn, chunkIndex, writer, held, output>>
    BY <1>2 DEF CryptFinal
  <2> QED BY <2>1, <2>2, <2>3, <2>5, <2>6 DEF Types
<1>3. CASE CryptThrows
  BY <1>3 DEF CryptThrows, Types
<1>4. CASE Awaited
  BY <1>4 DEF Awaited, Types
<1>5. CASE CloseWriter
  BY <1>5 DEF CloseWriter, Types
<1> QED BY <1>1, <1>2, <1>3, <1>4, <1>5 DEF Crypt

LEMMA ChainTypes ==
  ASSUME Types, Shape, Chain \/ Pull
  PROVE  Types'
<1>1. CASE WriteChunk
  BY <1>1 DEF WriteChunk, Types
<1>2. CASE WriteArray
  <2>1. Head(jobs).bytes \in Seq(Byte) /\ Tail(jobs) \in Seq(JobRec) /\ Len(Head(jobs).bytes) \in Int
    BY <1>2, HeadOfJobs DEF WriteArray, Resolves
  <2>2. held' \in Seq(Byte) /\ queuedBytes' \in Int
    BY <1>2, <2>1 DEF WriteArray, Types
  <2> QED BY <1>2, <2>1, <2>2 DEF WriteArray, Types
<1>3. CASE AbortWriter
  BY <1>3, HeadOfJobs DEF AbortWriter, Types
<1>4. CASE Pull
  <2>1. fifo[1] = Head(jobs).bytes /\ jobs # <<>>
    BY <1>4 DEF Pull, Shape
  <2>2. Head(jobs).bytes \in Seq(Byte) /\ Tail(jobs) \in Seq(JobRec) /\ Len(Head(jobs).bytes) \in Int
    BY <2>1, HeadOfJobs
  <2>3. output' \in Seq(Byte) /\ queuedBytes' \in Int
    BY <1>4, <2>1, <2>2 DEF Pull, Types
  <2> QED BY <1>4, <2>2, <2>3 DEF Pull, Types
<1> QED BY <1>1, <1>2, <1>3, <1>4 DEF Chain

\* The data of a "seip" packet, decrypted.
LEMMA DecryptedTypes ==
  ASSUME Types, Len(sealed) = 1
  PROVE  /\ Decrypted \in Seq(Byte) /\ ToHash \in Seq(Byte) /\ PacketBytes \in Seq(Byte)
<1>1. sealed[1].text \in Seq(Byte)
  <2>1. sealed \in Seq(SealRec) /\ 1 \in 1..Len(sealed)
    BY DEF Types
  <2>2. sealed[1] \in SealRec
    BY <2>1
  <2> QED BY <2>2 DEF SealRec
<1>2. Decrypted \in Seq(Byte)
  <2>1. \A i \in DOMAIN sealed[1].text : sealed[1].text[i] \in Byte
    BY <1>1
  <2>2. Junk \in Byte
    BY DEF Junk, Byte
  <2>3. DOMAIN input = 1..Len(input) /\ Len(input) \in Nat
    BY DEF Types
  <2> DEFINE D(i) == IF /\ i \in DOMAIN sealed[1].text
                        /\ \A k \in {i - 1, i} \ {0} : input[k] = <<1, k>>
                     THEN sealed[1].text[i] ELSE Junk
  <2>4. \A i \in DOMAIN input : D(i) \in Byte
    BY <2>1, <2>2
  <2>5. Decrypted = [i \in DOMAIN input |-> D(i)]
    BY DEF Decrypted
  <2> HIDE DEF D
  <2> QED BY <2>3, <2>4, <2>5
<1>3. ASSUME NEW s \in Seq(Byte), NEW a \in Int, NEW b \in Int PROVE Subarray(s, a, b) \in Seq(Byte)
  BY DEF Subarray, Least
<1>4. Len(Hash) = 1 /\ Len(MDC) = 1 /\ Len(Prefix) = 1
  BY DEF Hash, MDC, Prefix
<1>5. ToHash \in Seq(Byte)
  BY <1>2, <1>3, <1>4 DEF ToHash
<1>6. PacketBytes \in Seq(Byte)
  <2>1. Subarray(ToHash, Len(Prefix), Len(ToHash)) \in Seq(Byte)
    <3>1. Len(Prefix) \in Int /\ Len(ToHash) \in Int
      BY <1>4, <1>5
    <3> QED BY <1>3, <1>5, <3>1
  <2> QED BY <1>3, <1>4, <2>1 DEF PacketBytes
<1> QED BY <1>2, <1>5, <1>6

LEMMA WholeTypes ==
  ASSUME Types, Shape, Whole, EncryptSEIP \/ ReleaseSEIP \/ FinishSEIP \/ CryptSED
  PROVE  Types'
<1>1. \A n \in Nat : Bytes(1, n) \in Seq(Byte)
  BY DEF Bytes, Byte
<1>2. Prefix \in Seq(Byte) /\ MDC \in Seq(Byte) /\ Hash \in Seq(Byte) /\ input \in Seq(Byte)
  BY DEF Prefix, MDC, Hash, Byte, Types
<1>3. ASSUME NEW text \in Seq(Byte)
      PROVE  /\ <<[nonce |-> <<>>, adata |-> <<>>, text |-> text]>> \in Seq(SealRec)
             /\ Bytes(1, Len(text)) \in Seq(Byte)
  <2>1. [nonce |-> <<>>, adata |-> <<>>, text |-> text] \in SealRec
    BY DEF SealRec
  <2> QED BY <1>1, <2>1
<1>4. CASE EncryptSEIP
  <2> DEFINE text == Prefix \o input \o MDC \o Hash
  <2>1. text \in Seq(Byte)
    BY <1>2
  <2>2. /\ writer' \in {"errored", "closed"} /\ loop' = "ended"
        /\ \/ UNCHANGED <<sealed, output>>
           \/ sealed' = <<[nonce |-> <<>>, adata |-> <<>>, text |-> text]>> /\ output' = Bytes(1, Len(text))
        /\ UNCHANGED <<packet, fn, input, chunkIndex, cryptedBytes, queuedBytes, jobs, held>>
    <3>1. CASE packet.upstream = "fails"
      BY <1>4, <3>1 DEF EncryptSEIP
    <3>2. CASE packet.upstream # "fails"
      <4>1. sealed' = <<[nonce |-> <<>>, adata |-> <<>>, text |-> text]>>
        BY <1>4, <3>2 DEF EncryptSEIP
      <4>2. output' = Bytes(1, Len(sealed'[1].text)) /\ writer' = "closed"
        BY <1>4, <3>2 DEF EncryptSEIP
      <4>3. sealed'[1].text = text
        BY <4>1
      <4> QED BY <1>4, <4>1, <4>2, <4>3 DEF EncryptSEIP
    <3> QED BY <3>1, <3>2
  <2> HIDE DEF text
  <2> QED BY <1>3, <2>1, <2>2, ZenonT(40) DEF Types
<1>5. CASE CryptSED
  <2> DEFINE text == Prefix \o input
  <2>1. text \in Seq(Byte)
    BY <1>2
  <2>2. /\ writer' \in {"errored", "closed"} /\ loop' = "ended"
        /\ \/ UNCHANGED <<sealed, output>>
           \/ sealed' = <<[nonce |-> <<>>, adata |-> <<>>, text |-> text]>> /\ output' = Bytes(1, Len(text))
        /\ UNCHANGED <<packet, fn, input, chunkIndex, cryptedBytes, queuedBytes, jobs, held>>
    BY <1>5 DEF CryptSED
  <2> HIDE DEF text
  <2> QED BY <1>3, <2>1, <2>2, ZenonT(40) DEF Types
<1>6. ASSUME loop = "seip", fn = "decrypt" PROVE PacketBytes \in Seq(Byte)
  BY <1>6, DecryptedTypes DEF Whole, Shape, Types
<1>7. CASE ReleaseSEIP
  <2>1. PacketBytes \in Seq(Byte) /\ output \in Seq(Byte) /\ Len(output) < Len(PacketBytes)
    BY <1>6, <1>7 DEF ReleaseSEIP, Types
  <2>2. output' \in Seq(Byte)
    <3>1. PacketBytes[Len(output) + 1] \in Byte
      BY <2>1
    <3> QED BY <1>7, <2>1, <3>1 DEF ReleaseSEIP
  <2> QED BY <1>7, <2>2 DEF ReleaseSEIP, Types
<1>8. CASE FinishSEIP
  BY <1>6, <1>8 DEF FinishSEIP, Types
<1> QED BY <1>4, <1>5, <1>7, <1>8

\* A delivery starts over with other bytes, and keeps what the sender wrote.
LEMMA DeliverFields ==
  ASSUME Types, Deliver
  PROVE  /\ packet'.plain = packet.plain /\ packet'.kind = packet.kind /\ packet'.early = packet.early
         /\ fn = "encrypt" /\ writer = "closed" /\ loop = "ended" /\ fn' = "decrypt"
         /\ chunkIndex' = 0 /\ jobs' = <<>> /\ fifo' = <<>> /\ held' = <<>> /\ output' = <<>>
         /\ writer' = "writable" /\ sealed' = sealed
         /\ loop' = IF packet.kind = "aead" THEN "read" ELSE packet.kind
         /\ Types'
<1>1. output \in Seq(Byte) /\ packet.streaming \in BOOLEAN
  BY DEF Types
<1>2. ASSUME NEW bytes \in CutAndPaste(output) PROVE bytes \in Seq(Byte)
  <2>1. Len(output) \in Nat
    BY <1>1
  <2>2. \A i \in Nat, j \in Nat : Cut(output, i, j) \in Seq(Byte)
    BY <1>1, <2>1 DEF Cut, Least
  <2>3. \A i, j, l \in 0..Len(output) : i \in Nat /\ j \in Nat /\ i + l \in Nat /\ j + l \in Nat
    BY <2>1
  <2>4. \A s, t \in Seq(Byte) : s \o t \in Seq(Byte)
    OBVIOUS
  <2>5. \A i, j \in 0..Len(output) : Lost(output, i, j) \in Seq(Byte)
    BY <2>1, <2>2, <2>3, <2>4 DEF Lost
  <2>6. \A i, j, l \in 0..Len(output) :
          /\ Repeated(output, i, j, l) \in Seq(Byte) /\ Replaced(output, i, j, l) \in Seq(Byte)
          /\ Exchanged(output, i, j, l) \in Seq(Byte)
    <3> SUFFICES ASSUME NEW i \in 0..Len(output), NEW j \in 0..Len(output), NEW l \in 0..Len(output)
                 PROVE  /\ Repeated(output, i, j, l) \in Seq(Byte) /\ Replaced(output, i, j, l) \in Seq(Byte)
                        /\ Exchanged(output, i, j, l) \in Seq(Byte)
      OBVIOUS
    <3>1. /\ Cut(output, 0, i) \in Seq(Byte) /\ Cut(output, j, j + l) \in Seq(Byte)
          /\ Cut(output, i, Len(output)) \in Seq(Byte) /\ Cut(output, i + l, Len(output)) \in Seq(Byte)
          /\ Cut(output, i, j) \in Seq(Byte) /\ Cut(output, j + l, Len(output)) \in Seq(Byte)
      BY <2>1, <2>2, <2>3
    <3> QED BY <2>4, <3>1 DEF Repeated, Replaced, Exchanged
  <2> QED BY <1>2, <2>5, <2>6 DEF CutAndPaste
<1> DEFINE Packets == [plain : {[i \in 1..n |-> i] : n \in Lengths}, kind : {"aead", "seip", "sed"},
                       chunkSizeByte : SizeBytes, iv : {1, 2}, upstream : {"ends", "fails"},
                       streaming : BOOLEAN, early : BOOLEAN, intact : BOOLEAN]
           SameMessage(p) == p \in Packets /\ p.plain = packet.plain /\ p.kind = packet.kind /\ p.early = packet.early
<1>3. packet \in Packets
  BY DEF Types
<1>4. ASSUME NEW d \in Deliveries PROVE SameMessage(d.packet) /\ d.bytes \in Seq(Byte)
  <2>1. CASE d \in Moved
    <3>1. PICK bytes \in CutAndPaste(output) :
            d = [packet |-> [packet EXCEPT !.intact = (bytes = output)], bytes |-> bytes]
      BY <2>1 DEF Moved
    <3>2. (bytes = output) \in BOOLEAN
      OBVIOUS
    <3>3. SameMessage([packet EXCEPT !.intact = (bytes = output)])
      BY <1>3, <3>2
    <3> QED BY <1>2, <3>1, <3>3
  <2>2. CASE d \in Reheaded
    <3>1. PICK size \in SizeBytes, iv \in {1, 2}, up \in {"ends", "fails"} : d = Reheader(size, iv, up)
      BY <2>2 DEF Reheaded
    <3>2. SameMessage([packet EXCEPT !.chunkSizeByte = size, !.iv = iv, !.upstream = up, !.intact = FALSE])
      BY <1>3
    <3> HIDE DEF SameMessage
    <3> QED BY <1>1, <3>1, <3>2 DEF Reheader
  <2>3. CASE d = [packet |-> packet, bytes |-> output]
    BY <1>1, <1>3, <2>3
  <2> QED BY <1>3, <2>1, <2>2, <2>3 DEF Deliveries
<1>5. PICK d \in Deliveries, streaming \in BOOLEAN :
        packet' = [d.packet EXCEPT !.streaming = streaming] /\ input' = d.bytes
  BY DEF Deliver
<1>6. SameMessage(packet') /\ input' \in Seq(Byte)
  <2>1. SameMessage(d.packet) /\ d.bytes \in Seq(Byte)
    BY <1>4
  <2>2. SameMessage([d.packet EXCEPT !.streaming = streaming])
    BY <2>1
  <2> QED BY <1>5, <2>1, <2>2
<1>7. /\ chunkIndex' = 0 /\ cryptedBytes' = 0 /\ queuedBytes' = 0
      /\ jobs' = <<>> /\ fifo' = <<>> /\ held' = <<>> /\ output' = <<>>
      /\ writer' = "writable" /\ sealed' = sealed /\ fn' = "decrypt"
      /\ fn = "encrypt" /\ writer = "closed" /\ loop = "ended"
      /\ loop' = IF packet.kind = "aead" THEN "read" ELSE packet.kind
  BY DEF Deliver, Entrance
<1>8. packet.kind \in {"aead", "seip", "sed"}
  BY <1>3
<1> QED BY <1>6, <1>7, <1>8 DEF Types

LEMMA InitTypes == Init => Types
<1> SUFFICES ASSUME Init PROVE Types
  OBVIOUS
<1>1. packet.plain \in Seq(Byte)
  <2>1. PICK n \in Lengths : packet.plain = [i \in 1..n |-> i]
    BY DEF Init
  <2> QED BY <2>1, EncryptedDataAssumption DEF Byte
<1>2. packet \in [plain : {[i \in 1..n |-> i] : n \in Lengths}, kind : {"aead", "seip", "sed"},
                  chunkSizeByte : SizeBytes, iv : {1, 2}, upstream : {"ends", "fails"},
                  streaming : BOOLEAN, early : BOOLEAN, intact : BOOLEAN]
  BY DEF Init
<1>3. loop \in {"read", "await", "last", "ended", "seip", "sed"}
  BY <1>2 DEF Init, Entrance
<1>4. /\ input \in Seq(Byte) /\ held \in Seq(Byte) /\ output \in Seq(Byte)
      /\ jobs \in Seq(JobRec) /\ sealed \in Seq(SealRec)
  BY <1>1 DEF Init
<1> QED BY <1>2, <1>3, <1>4 DEF Init, Types

\* Every step keeps the types.
LEMMA NextTypes == Types /\ Shape /\ Whole /\ [Next]_vars => Types'
<1> SUFFICES ASSUME Types, Shape, Whole, [Next]_vars PROVE Types'
  OBVIOUS
<1>1. CASE UNCHANGED vars
  BY <1>1 DEF vars, pipeline, Types
<1>2. CASE Work
  BY <1>2, CryptTypes, ChainTypes, WholeTypes DEF Work
<1>3. CASE Deliver
  BY <1>3, DeliverFields
<1> QED BY <1>1, <1>2, <1>3 DEF Next

----------------------------------------------------------------------------
(* Where the loop, the chain and the writer can be.                        *)

LEMMA ShapeStep ==
  ASSUME Types, Shape, Encrypting, Whole, Sed, [Next]_vars
  PROVE  Shape'
<1>0. Types' /\ jobs \in Seq(JobRec) /\ packet.kind \in {"aead", "seip", "sed"}
  BY NextTypes DEF Types
<1>1. CASE UNCHANGED vars
  BY <1>1 DEF vars, pipeline, Shape
<1>2. CASE CryptChunk
  <2>1. /\ loop = "read" /\ loop' \in {"await", "read"} /\ UNCHANGED <<packet, fifo, writer, held, output>>
    BY <1>2 DEF CryptChunk
  <2>2. packet.kind = "aead"
    BY <1>0, <2>1 DEF Shape
  <2>3. jobs # <<>> => jobs' # <<>> /\ Head(jobs') = Head(jobs)
    BY <1>0, <1>2 DEF CryptChunk
  <2> QED BY <2>1, <2>2, <2>3 DEF Shape
<1>3. CASE CryptFinal
  <2>1. /\ loop = "read" /\ loop' = "last" /\ UNCHANGED <<packet, fifo, writer, held, output>>
    BY <1>3 DEF CryptFinal
  <2>2. packet.kind = "aead"
    BY <1>0, <2>1 DEF Shape
  <2>3. jobs # <<>> => jobs' # <<>> /\ Head(jobs') = Head(jobs)
    BY <1>0, <1>3 DEF CryptFinal
  <2> QED BY <2>1, <2>2, <2>3 DEF Shape
<1>4. CASE CryptThrows
  BY <1>0, <1>4 DEF CryptThrows, Shape
<1>5. CASE Awaited
  BY <1>0, <1>5 DEF Awaited, Shape
<1>6. CASE CloseWriter
  BY <1>0, <1>6 DEF CloseWriter, Shape
<1>7. CASE WriteChunk
  BY <1>0, <1>7 DEF WriteChunk, Resolves, Shape
<1>8. CASE WriteArray
  BY <1>0, <1>8 DEF WriteArray, Resolves, Shape
<1>9. CASE AbortWriter
  BY <1>0, <1>9 DEF AbortWriter, Shape
<1>10. CASE Pull
  BY <1>0, <1>10 DEF Pull, Shape
<1>11. CASE EncryptSEIP \/ ReleaseSEIP \/ FinishSEIP \/ CryptSED
  <2>1. /\ loop \in {"seip", "sed"} /\ loop' \in {loop, "ended"} /\ UNCHANGED <<packet, jobs, held>>
        /\ fifo' \in {fifo, <<>>}
        /\ loop' = "ended" => writer' \in {"closed", "errored"}
        /\ loop' # "ended" => writer' = writer
    BY <1>11 DEF EncryptSEIP, ReleaseSEIP, FinishSEIP, CryptSED
  <2>2. packet.kind # "aead" /\ jobs = <<>>
    BY <1>0, <2>1 DEF Shape
  <2>3. fifo = <<>> /\ writer = "writable"
    BY <1>0, <2>1, <2>2 DEF Shape, Whole, Sed
  <2> QED BY <1>0, <2>1, <2>2, <2>3 DEF Shape
<1>12. CASE Deliver
  <2>1. /\ packet'.kind = packet.kind /\ packet'.early = packet.early
        /\ jobs' = <<>> /\ fifo' = <<>> /\ held' = <<>> /\ output' = <<>> /\ writer' = "writable"
        /\ loop' = IF packet.kind = "aead" THEN "read" ELSE packet.kind
    BY <1>12, DeliverFields
  <2> QED BY <1>0, <2>1 DEF Shape
<1> QED
  BY <1>1, <1>2, <1>3, <1>4, <1>5, <1>6, <1>7, <1>8, <1>9, <1>10, <1>11, <1>12 DEF Next, Work, Crypt, Chain

----------------------------------------------------------------------------
(* Encryption: the chunks that are sealed, and their places.               *)

\* A chunk is the next ChunkSize bytes of the plaintext, or what is left.
LEMMA NextChunk ==
  ASSUME Types, Shape, Encrypting, fn = "encrypt", packet.kind = "aead", loop = "read"
  PROVE  /\ writer = "writable" /\ Len(sealed) = chunkIndex /\ FinalChunk = <<>>
         /\ IF Chunk = <<>>
            THEN PlainLength =< chunkIndex * ChunkSize /\ cryptedBytes = PlainLength
            ELSE chunkIndex * ChunkSize < PlainLength
         /\ chunkIndex = 0 \/ Chunk # <<>> =>
              /\ chunkIndex * ChunkSize =< PlainLength /\ cryptedBytes = chunkIndex * ChunkSize
              /\ Chunk = SubSeq(packet.plain, chunkIndex * ChunkSize + 1,
                                Least((chunkIndex + 1) * ChunkSize, PlainLength))
              /\ cryptedBytes + Len(Chunk) = Least((chunkIndex + 1) * ChunkSize, PlainLength)
              /\ FinalChunk \o Rest =
                   SubSeq(packet.plain, Least((chunkIndex + 1) * ChunkSize, PlainLength) + 1, PlainLength)
<1> DEFINE m == ChunkSize
           n == PlainLength
           k == chunkIndex
           a == Least(k * m, n)
           b == Least((k + 1) * m, n)
           w == Least(m, Len(input))
<1>0. /\ m \in Nat \ {0} /\ n \in Nat /\ k \in Nat /\ packet.plain \in Seq(Byte) /\ Len(packet.plain) = n
  BY PacketFacts DEF Types, PlainLength
<1>1. writer = "writable" /\ Len(sealed) = k
  BY DEF Shape, Encrypting, SealedSoFar, Made, Types
<1>2. cryptedBytes = a /\ input = SubSeq(packet.plain, a + 1, n)
  BY <1>1 DEF Encrypting, SealedSoFar
<1>3. k * m \in Nat /\ (k + 1) * m = k * m + m /\ (k = 0 => k * m = 0)
  BY <1>0, ChunkTimes
<1>4. a \in Nat /\ a =< n /\ b \in Nat /\ b =< n /\ a =< b
  BY <1>0, <1>3 DEF Least
<1> HIDE DEF a, b
<1>5. Len(input) = n - a /\ input \in Seq(Byte)
  BY <1>0, <1>2, <1>4, SubSeqPart
<1>6. w \in Nat /\ w =< n - a /\ (w = 0 <=> n = a)
  BY <1>0, <1>4, <1>5 DEF Least
<1>8. /\ Chunk = SubSeq(input, 1, w) /\ FinalChunk = <<>> /\ Rest = SubSeq(input, w + 1, Len(input))
      /\ Chunk \in Seq(Byte) /\ Rest \in Seq(Byte)
  BY ReadPieces
<1> HIDE DEF w
<1>9. /\ Chunk = SubSeq(packet.plain, a + 1, a + w)
      /\ Rest = SubSeq(packet.plain, a + w + 1, n)
  <2>1. SubSeq(SubSeq(packet.plain, a + 1, n), 1, w) = SubSeq(packet.plain, a + 1, a + w)
    BY <1>0, <1>4, <1>6, SubSeqStart
  <2>2. SubSeq(SubSeq(packet.plain, a + 1, n), w + 1, n - a) = SubSeq(packet.plain, a + w + 1, a + (n - a))
    BY <1>0, <1>4, <1>6, SubSeqOf
  <2>3. a + (n - a) = n
    BY <1>0, <1>4
  <2> QED BY <1>2, <1>5, <1>8, <2>1, <2>2, <2>3
<1>10. Len(Chunk) = w
  BY <1>5, <1>6, <1>8
<1>11. Chunk = <<>> <=> n = a
  BY <1>6, <1>8, <1>10, EmptyLength
<1>12. IF Chunk = <<>> THEN n =< k * m /\ cryptedBytes = n ELSE k * m < n
  BY <1>0, <1>2, <1>3, <1>4, <1>11 DEF a, Least
<1>13. ASSUME k = 0 \/ Chunk # <<>>
       PROVE  k * m =< n /\ a = k * m /\ a + w = b
  <2>1. k * m =< n /\ a = k * m
    BY <1>0, <1>3, <1>12, <1>13 DEF a, Least
  <2>2. a + w = b
    BY <1>0, <1>3, <1>5, <2>1 DEF b, w, Least
  <2> QED BY <2>1, <2>2
<1>14. FinalChunk \o Rest = Rest
  BY <1>8
<1> QED BY <1>1, <1>2, <1>8, <1>9, <1>10, <1>12, <1>13, <1>14 DEF b

\* Chunk indices stay below the number of values that the nonce can take.
LEMMA IndexFits ==
  ASSUME Types, NEW k \in Nat, k =< 1 \/ (k - 1) * ChunkSize < PlainLength
  PROVE  k % Int32Range = k
<1>0. /\ ChunkSize \in Nat \ {0} /\ PlainLength \in Nat /\ Int32Range \in Nat
      /\ PlainLength =< (Int32Range - 1) * ChunkSize
  BY PacketFacts DEF ChunkSize
<1>1. Int32Range > 1
  BY PacketFacts, EncryptedDataAssumption
<1>2. k < Int32Range
  <2>1. CASE k =< 1
    BY <1>0, <1>1, <2>1
  <2>2. CASE k > 1
    <3>1. (k - 1) * ChunkSize < (Int32Range - 1) * ChunkSize
      BY <1>0, <1>1, <2>2
    <3>2. k - 1 \in Nat /\ Int32Range - 1 \in Nat
      BY <1>0, <1>1, <2>2
    <3>3. k - 1 < Int32Range - 1
      BY <1>0, <3>1, <3>2, ChunkOrder
    <3> QED BY <1>0, <3>3
  <2> QED BY <2>1, <2>2
<1> QED BY <1>0, <1>2

LEMMA SealChunk ==
  ASSUME Types, Shape, Encrypting, fn = "encrypt", packet.kind = "aead", CryptChunk
  PROVE  /\ chunkIndex = 0 \/ chunkIndex * ChunkSize < PlainLength
         /\ sealed' = Append(sealed, ChunkSealing(chunkIndex, packet.chunkSizeByte))
         /\ jobs' = Append(jobs, [ok |-> TRUE, bytes |-> Bytes(chunkIndex + 1,
              Len(ChunkSealing(chunkIndex, packet.chunkSizeByte).text) + TagLength)])
         /\ cryptedBytes' = Least((chunkIndex + 1) * ChunkSize, PlainLength)
         /\ input' = SubSeq(packet.plain, cryptedBytes' + 1, PlainLength)
<1>0. loop = "read" /\ (chunkIndex = 0 \/ Chunk # <<>>) /\ chunkIndex \in Nat /\ packet.iv = 1
  BY DEF CryptChunk, Types, Encrypting, SealedSoFar
<1>1. chunkIndex = 0 \/ chunkIndex * ChunkSize < PlainLength
  BY <1>0, NextChunk
<1>2. chunkIndex % Int32Range = chunkIndex
  <2>1. chunkIndex =< 1 \/ (chunkIndex - 1) * ChunkSize < PlainLength
    BY <1>0, NextChunk DEF Encrypting, SealedSoFar
  <2> QED BY <1>0, <2>1, IndexFits
<1>3. Sealing(Chunk, AData) = ChunkSealing(chunkIndex, packet.chunkSizeByte)
  BY <1>0, <1>2, NextChunk DEF Sealing, ChunkSealing, Nonce, AData, ChunkSize, PlainLength
<1>4. sealed' = Append(sealed, ChunkSealing(chunkIndex, packet.chunkSizeByte))
  BY <1>3 DEF CryptChunk, Seal
<1>5. ChunkSealing(chunkIndex, packet.chunkSizeByte).text = Chunk
  BY <1>3 DEF Sealing
<1>6. Job(Chunk, AData) = [ok |-> TRUE, bytes |-> Bytes(chunkIndex + 1, Len(Chunk) + TagLength)]
  BY <1>0, NextChunk DEF Job
<1>7. TagIfDecrypting = 0 /\ Len(Chunk) \in Nat /\ cryptedBytes \in Int
  BY ReadPieces DEF TagIfDecrypting, Types
<1>8. cryptedBytes' = cryptedBytes + Len(Chunk)
  BY <1>7 DEF CryptChunk
<1> QED BY <1>0, <1>1, <1>4, <1>5, <1>6, <1>8, NextChunk DEF CryptChunk

LEMMA SealFinal ==
  ASSUME Types, Shape, Encrypting, fn = "encrypt", packet.kind = "aead", CryptFinal
  PROVE  /\ chunkIndex >= 1 /\ PlainLength =< chunkIndex * ChunkSize
         /\ sealed' = Append(sealed, FinalSealed(chunkIndex, packet.chunkSizeByte))
         /\ jobs' = Append(jobs, [ok |-> TRUE, bytes |-> Bytes(chunkIndex + 1, TagLength)])
         /\ cryptedBytes' = cryptedBytes /\ input' = SubSeq(packet.plain, cryptedBytes + 1, PlainLength)
<1>0. /\ loop = "read" /\ chunkIndex # 0 /\ Chunk = <<>> /\ chunkIndex \in Nat /\ packet.iv = 1
      /\ TagLength \in Nat
  BY PacketFacts DEF CryptFinal, Types, Encrypting, SealedSoFar
<1>1. chunkIndex >= 1 /\ PlainLength =< chunkIndex * ChunkSize /\ FinalChunk = <<>> /\ cryptedBytes = PlainLength
  BY <1>0, NextChunk
<1>2. chunkIndex % Int32Range = chunkIndex
  <2>1. chunkIndex =< 1 \/ (chunkIndex - 1) * ChunkSize < PlainLength
    BY <1>0, NextChunk DEF Encrypting, SealedSoFar
  <2> QED BY <1>0, <2>1, IndexFits
<1>3. ADataTag = <<packet.chunkSizeByte, chunkIndex, PlainLength % Int32Range>>
  <2> DEFINE tag == PlainLength % Int32Range
  <2>1. ADataTag = Append(<<packet.chunkSizeByte, chunkIndex>>, tag)
    BY <1>1, <1>2 DEF ADataTag, AData
  <2>2. Int32Range > 1
    BY PacketFacts, EncryptedDataAssumption
  <2>3. packet.chunkSizeByte \in Nat /\ PlainLength \in Nat /\ Int32Range \in Nat
    <3>1. packet.chunkSizeByte \in SizeBytes /\ PlainLength \in Nat /\ Int32Range \in Nat
      BY PacketFacts
    <3> QED BY <3>1, EncryptedDataAssumption
  <2>4. tag \in Int /\ chunkIndex \in Int
    BY <1>0, <2>2, <2>3
  <2> HIDE DEF tag
  <2>5. Append(<<packet.chunkSizeByte, chunkIndex>>, tag) = <<packet.chunkSizeByte, chunkIndex, tag>>
    BY <2>3, <2>4, AppendToPair
  <2> QED BY <2>1, <2>5 DEF tag
<1>4. Sealing(FinalChunk, ADataTag) = FinalSealed(chunkIndex, packet.chunkSizeByte)
  BY <1>0, <1>1, <1>2, <1>3 DEF Sealing, FinalSealed, Nonce, PlainLength
<1>5. sealed' = Append(sealed, FinalSealed(chunkIndex, packet.chunkSizeByte))
  BY <1>4 DEF CryptFinal, Seal
<1>6. Job(FinalChunk, ADataTag) = [ok |-> TRUE, bytes |-> Bytes(chunkIndex + 1, TagLength)]
  <2>1. Len(FinalChunk) + TagLength = TagLength
    BY <1>0, <1>1
  <2> QED BY <1>0, <2>1, NextChunk DEF Job
<1>7. input' = SubSeq(packet.plain, cryptedBytes + 1, PlainLength)
  <2>1. input' = Rest
    BY DEF CryptFinal
  <2>2. packet.plain \in Seq(Byte) /\ PlainLength \in Nat /\ Len(packet.plain) = PlainLength
    BY PacketFacts DEF PlainLength
  <2>3. input \in Seq(Byte) /\ input = SubSeq(packet.plain, PlainLength + 1, PlainLength)
    BY <1>0, <1>1, NextChunk DEF Encrypting, SealedSoFar, Types
  <2>4. Len(input) = 0
    BY <2>2, <2>3
  <2>5. Least(ChunkSize, Len(input)) = 0
    BY <2>4, PacketFacts DEF Least
  <2>6. Rest = SubSeq(input, 1, 0)
    BY <2>4, <2>5, ReadPieces
  <2>7. Rest = <<>> /\ SubSeq(packet.plain, PlainLength + 1, PlainLength) = <<>>
    BY <2>2, <2>3, <2>6
  <2> QED BY <1>1, <2>1, <2>7
<1>8. cryptedBytes' = cryptedBytes
  BY <1>1, PacketFacts DEF CryptFinal, TagIfDecrypting
<1>9. jobs' = Append(jobs, [ok |-> TRUE, bytes |-> Bytes(chunkIndex + 1, TagLength)])
  BY <1>6 DEF CryptFinal
<1> QED BY <1>1, <1>5, <1>7, <1>8, <1>9

----------------------------------------------------------------------------
(* Encryption: where the bytes of the sealed chunks are written.           *)

LEMMA OffsetFacts ==
  ASSUME Types, NEW j \in Nat \ {0}
  PROVE  /\ Offset(1) = 0 /\ Offset(j) \in Nat
         /\ Offset(j + 1) = Offset(j) + (Least(j * ChunkSize, PlainLength)
                                         - Least((j - 1) * ChunkSize, PlainLength)) + TagLength
         /\ \A l \in Nat \ {0} : l =< j => Offset(l) =< Offset(j)
<1> DEFINE m == ChunkSize
           n == PlainLength
           t == TagLength
<1>0. m \in Nat \ {0} /\ n \in Nat /\ t \in Nat \ {0}
  BY PacketFacts
<1>1. \A l \in Nat \ {0} : Offset(l) = Least((l - 1) * m, n) + (l - 1) * t
  BY DEF Offset, PlainLength
<1> HIDE DEF m, n, t
<1>2. \A l \in Nat : l * m \in Nat /\ l * t \in Nat
  BY <1>0
<1>3. 0 * m = 0 /\ 0 * t = 0
  BY <1>0
<1>4. Offset(1) = 0
  <2>1. Offset(1) = Least(0 * m, n) + 0 * t
    BY <1>1
  <2> QED BY <1>0, <1>3, <2>1 DEF Least
<1>5. Offset(j) \in Nat
  <2>1. j - 1 \in Nat
    OBVIOUS
  <2>2. Least((j - 1) * m, n) \in Nat
    BY <1>0, <1>2, <2>1 DEF Least
  <2> QED BY <1>1, <1>2, <2>1, <2>2
<1>6. Offset(j + 1) = Offset(j) + (Least(j * m, n) - Least((j - 1) * m, n)) + t
  <2>1. Offset(j + 1) = Least(j * m, n) + j * t
    BY <1>1
  <2>2. j * t = (j - 1) * t + t
    BY <1>0
  <2>3. j - 1 \in Nat
    OBVIOUS
  <2>4. Least((j - 1) * m, n) \in Nat /\ Least(j * m, n) \in Nat /\ (j - 1) * t \in Nat
    BY <1>0, <1>2, <2>3 DEF Least
  <2> QED BY <1>0, <1>1, <2>1, <2>2, <2>4
<1>7. ASSUME NEW l \in Nat \ {0}, l =< j PROVE Offset(l) =< Offset(j)
  <2>1. l - 1 \in Nat /\ j - 1 \in Nat /\ l - 1 =< j - 1
    BY <1>7
  <2>2. (l - 1) * m =< (j - 1) * m /\ (l - 1) * t =< (j - 1) * t
    BY <1>0, <2>1
  <2>3. Least((l - 1) * m, n) =< Least((j - 1) * m, n)
    BY <1>0, <1>2, <2>1, <2>2 DEF Least
  <2>4. Least((l - 1) * m, n) \in Nat /\ Least((j - 1) * m, n) \in Nat
        /\ (l - 1) * t \in Nat /\ (j - 1) * t \in Nat
    BY <1>0, <1>2, <2>1 DEF Least
  <2> QED BY <1>1, <2>2, <2>3, <2>4
<1> QED BY <1>4, <1>5, <1>6, <1>7 DEF m, n, t

\* The text of a chunk ends where the next one begins.
LEMMA PieceEnd ==
  ASSUME Types, NEW j \in Nat \ {0}, NEW text,
         \/ /\ j = 1 \/ (j - 1) * ChunkSize < PlainLength
            /\ text = ChunkSealing(j - 1, packet.chunkSizeByte).text
         \/ PlainLength =< (j - 1) * ChunkSize /\ text = <<>>
  PROVE  /\ Len(text) \in Nat
         /\ Offset(j + 1) = Offset(j) + Len(text) + TagLength
<1> DEFINE m == ChunkSize
           n == PlainLength
           a == Least((j - 1) * m, n)
           b == Least(j * m, n)
<1>0. m \in Nat \ {0} /\ n \in Nat /\ packet.plain \in Seq(Byte) /\ Len(packet.plain) = n /\ TagLength \in Nat
  BY PacketFacts DEF PlainLength
<1>1. j - 1 \in Nat /\ j * m = (j - 1) * m + m /\ (j - 1) * m \in Nat /\ (j = 1 => (j - 1) * m = 0)
  BY <1>0
<1>2. a \in Nat /\ b \in Nat /\ a =< b /\ b =< n
  BY <1>0, <1>1 DEF Least
<1>3. Len(text) = b - a
  <2>1. CASE /\ j = 1 \/ (j - 1) * ChunkSize < PlainLength
             /\ text = ChunkSealing(j - 1, packet.chunkSizeByte).text
    <3>1. a = (j - 1) * m
      BY <1>0, <1>1, <2>1 DEF Least
    <3>2. text = SubSeq(packet.plain, (j - 1) * m + 1, Least(((j - 1) + 1) * m, n))
      BY <2>1 DEF ChunkSealing, ChunkSize, PlainLength
    <3>3. (j - 1) + 1 = j
      OBVIOUS
    <3>4. text = SubSeq(packet.plain, a + 1, b)
      BY <3>1, <3>2, <3>3
    <3> HIDE DEF a, b
    <3> QED BY <1>0, <1>2, <3>4, SubSeqPart
  <2>2. CASE PlainLength =< (j - 1) * ChunkSize /\ text = <<>>
    <3>1. a = n /\ b = n
      BY <1>0, <1>1, <2>2 DEF Least
    <3> QED BY <1>0, <2>2, <3>1
  <2> QED BY <2>1, <2>2
<1>4. Offset(j + 1) = Offset(j) + (b - a) + TagLength
  BY OffsetFacts
<1> QED BY <1>2, <1>3, <1>4

LEMMA BytesFacts ==
  ASSUME NEW j \in Nat, NEW n \in Nat
  PROVE  /\ Bytes(j, n) \in Seq(Byte) /\ Len(Bytes(j, n)) = n
         /\ \A p \in 1..n : Bytes(j, n)[p] = <<j, p>>
BY DEF Bytes, Byte

\* The text after the first g is written at its place.
LEMMA PlaceNext ==
  ASSUME Types, NEW bytes \in Seq(Byte), NEW g \in Nat, Placed(bytes, g),
         \A j \in 1..(g + 1) : /\ Len(sealed[j].text) \in Nat
                               /\ Offset(j + 1) = Offset(j) + Len(sealed[j].text) + TagLength
  PROVE  Placed(bytes \o Bytes(g + 1, Len(sealed[g + 1].text) + TagLength), g + 1)
<1> DEFINE L(j) == Len(sealed[j].text) + TagLength
           new == Bytes(g + 1, L(g + 1))
<1>0. TagLength \in Nat /\ g + 1 \in 1..(g + 1) /\ g + 1 \in Nat \ {0}
  BY PacketFacts
<1>1. \A j \in 1..(g + 1) : L(j) \in Nat /\ Offset(j) \in Nat /\ Offset(j + 1) = Offset(j) + L(j)
  <2> SUFFICES ASSUME NEW j \in 1..(g + 1)
               PROVE  L(j) \in Nat /\ Offset(j) \in Nat /\ Offset(j + 1) = Offset(j) + L(j)
    OBVIOUS
  <2>1. j \in Nat \ {0}
    OBVIOUS
  <2>2. Offset(j) \in Nat
    BY <2>1, OffsetFacts
  <2>3. Len(sealed[j].text) \in Nat /\ Offset(j + 1) = Offset(j) + Len(sealed[j].text) + TagLength
    OBVIOUS
  <2> QED BY <1>0, <2>2, <2>3
<1> HIDE DEF L
<1>2. new \in Seq(Byte) /\ Len(new) = L(g + 1) /\ \A p \in 1..L(g + 1) : new[p] = <<g + 1, p>>
  BY <1>0, <1>1, BytesFacts
<1>3. Len(bytes) = Offset(g + 1) /\ \A j \in 1..g : \A p \in 1..L(j) : bytes[Offset(j) + p] = <<j, p>>
  BY DEF Placed, L
<1>4. Len(bytes \o new) = Offset((g + 1) + 1)
  <2>1. Len(bytes \o new) = Len(bytes) + L(g + 1)
    BY <1>2, ConcatParts
  <2>2. Offset((g + 1) + 1) = Offset(g + 1) + L(g + 1)
    BY <1>0, <1>1
  <2> QED BY <1>3, <2>1, <2>2
<1>5. ASSUME NEW j \in 1..(g + 1), NEW p \in 1..L(j)
      PROVE  (bytes \o new)[Offset(j) + p] = <<j, p>>
  <2> HIDE DEF new
  <2>0. /\ \A i \in 1..Len(bytes) : (bytes \o new)[i] = bytes[i]
        /\ \A i \in 1..Len(new) : (bytes \o new)[Len(bytes) + i] = new[i]
    BY <1>2, ConcatParts
  <2>1. CASE j = g + 1
    BY <1>2, <1>3, <2>0, <2>1
  <2>2. CASE j \in 1..g
    <3>1. Offset(j + 1) =< Offset(g + 1)
      <4>1. j + 1 \in Nat \ {0} /\ j + 1 =< g + 1
        BY <2>2
      <4> QED BY <1>0, <4>1, OffsetFacts
    <3>2. Offset(j) + p \in 1..Len(bytes)
      BY <1>0, <1>1, <1>3, <3>1, SMTT(30)
    <3> QED BY <1>3, <2>0, <2>2, <3>2
  <2>3. j = g + 1 \/ j \in 1..g
    OBVIOUS
  <2> QED BY <2>1, <2>2, <2>3
<1>6. \A j \in 1..(g + 1) : \A p \in 1..L(j) : (bytes \o new)[Offset(j) + p] = <<j, p>>
  BY <1>5
<1> QED BY <1>4, <1>6 DEF Placed, L

LEMMA SealedTexts ==
  ASSUME Types, Shape, SealedSoFar
  PROVE  /\ chunkIndex \in Nat /\ Made \in Nat /\ Len(sealed) = Made
         /\ \A j \in 1..Made : /\ Len(sealed[j].text) \in Nat
                               /\ Offset(j + 1) = Offset(j) + Len(sealed[j].text) + TagLength
<1>0. /\ ChunkSize \in Nat \ {0} /\ PlainLength \in Nat /\ chunkIndex \in Nat /\ Made \in Nat
      /\ Len(sealed) = Made
  BY PacketFacts, SMTT(30) DEF Types, Made, SealedSoFar
<1>1. ASSUME NEW j \in 1..chunkIndex
      PROVE  /\ Len(sealed[j].text) \in Nat
             /\ Offset(j + 1) = Offset(j) + Len(sealed[j].text) + TagLength
  <2>1. j = 1 \/ (j - 1) * ChunkSize < PlainLength
    <3>1. CASE chunkIndex =< 1
      BY <1>0, <3>1
    <3>2. CASE chunkIndex > 1
      <4>1. (chunkIndex - 1) * ChunkSize < PlainLength
        BY <1>0, <3>2 DEF SealedSoFar
      <4>2. j - 1 \in Nat /\ chunkIndex - 1 \in Nat /\ j - 1 =< chunkIndex - 1
        BY <1>0
      <4>3. (j - 1) * ChunkSize =< (chunkIndex - 1) * ChunkSize
        BY <1>0, <4>2
      <4>4. (j - 1) * ChunkSize \in Nat /\ (chunkIndex - 1) * ChunkSize \in Nat
        BY <1>0, <4>2
      <4> QED BY <1>0, <4>1, <4>3, <4>4
    <3> QED BY <1>0, <3>1, <3>2
  <2>2. sealed[j].text = ChunkSealing(j - 1, packet.chunkSizeByte).text
    BY DEF SealedSoFar
  <2> QED BY <1>0, <2>1, <2>2, PieceEnd
<1>2. ASSUME loop = "last", NEW j, j = chunkIndex + 1
      PROVE  /\ Len(sealed[j].text) \in Nat
             /\ Offset(j + 1) = Offset(j) + Len(sealed[j].text) + TagLength
  <2>1. Len(sealed) - 1 = chunkIndex /\ j - 1 = chunkIndex /\ j \in Nat \ {0}
    BY <1>0, <1>2 DEF Made
  <2>2. /\ PlainLength =< chunkIndex * ChunkSize
        /\ sealed[j] = [FinalSealed(chunkIndex, packet.chunkSizeByte) EXCEPT !.nonce = <<1, chunkIndex>>]
    BY <1>2, <2>1 DEF SealedSoFar, AllSealed, ChunkSize
  <2>3. sealed[j].text = <<>>
    BY <2>2 DEF FinalSealed
  <2> QED BY <2>1, <2>2, <2>3, PieceEnd
<1> QED BY <1>0, <1>1, <1>2 DEF Made

\* The nonce that AllSealed gives a sealing is the one it has under iv 1.
LEMMA RenonceChunk ==
  ASSUME NEW k, NEW size
  PROVE  /\ [ChunkSealing(k, size) EXCEPT !.nonce = <<1, k>>] =
              [nonce |-> <<1, k>>, adata |-> <<size, k>>,
               text |-> SubSeq(packet.plain, k * 2 ^ size + 1, Least((k + 1) * 2 ^ size, Len(packet.plain)))]
         /\ packet.iv = 1 => ChunkSealing(k, size) = [ChunkSealing(k, size) EXCEPT !.nonce = <<1, k>>]
<1> DEFINE t == SubSeq(packet.plain, k * 2 ^ size + 1, Least((k + 1) * 2 ^ size, Len(packet.plain)))
<1>1. ChunkSealing(k, size) = [nonce |-> <<packet.iv, k>>, adata |-> <<size, k>>, text |-> t]
  BY DEF ChunkSealing
<1> HIDE DEF t
<1>2. [ChunkSealing(k, size) EXCEPT !.nonce = <<1, k>>] = [nonce |-> <<1, k>>, adata |-> <<size, k>>, text |-> t]
  BY <1>1
<1> QED BY <1>1, <1>2 DEF t

\* Every step of the loop goes on sealing where the last one stopped.
LEMMA SealedStep ==
  ASSUME Types, Shape, Encrypting, fn = "encrypt", packet.kind = "aead", Crypt \/ Chain \/ Pull,
         writer' = "writable"
  PROVE  SealedSoFar'
<1>0. Types' /\ chunkIndex \in Nat /\ ChunkSize \in Nat \ {0} /\ PlainLength \in Nat /\ sealed \in Seq(SealRec)
  BY CryptTypes, ChainTypes, PacketFacts DEF Types
<1>1. writer = "writable" /\ UNCHANGED packet
  BY HeadOfJobs DEF Crypt, Chain, CryptChunk, CryptFinal, CryptThrows, Awaited, CloseWriter, WriteChunk, WriteArray,
                    AbortWriter, Pull, Shape
<1>2. SealedSoFar
  BY <1>1 DEF Encrypting
<1>3. ChunkSize' = ChunkSize /\ PlainLength' = PlainLength
  BY <1>1 DEF ChunkSize, PlainLength
<1>4. \A k, size : (ChunkSealing(k, size)' = ChunkSealing(k, size)) /\ (FinalSealed(k, size)' = FinalSealed(k, size))
  BY <1>1 DEF ChunkSealing, FinalSealed
<1>5. CASE CryptChunk
  <2>1. /\ loop = "read" /\ loop' \in {"await", "read"} /\ chunkIndex' = chunkIndex + 1
        /\ Made = chunkIndex /\ Len(sealed) = chunkIndex
    BY <1>2, <1>5 DEF CryptChunk, Made, SealedSoFar
  <2>2. /\ chunkIndex = 0 \/ chunkIndex * ChunkSize < PlainLength
        /\ sealed' = Append(sealed, ChunkSealing(chunkIndex, packet.chunkSizeByte))
        /\ cryptedBytes' = Least((chunkIndex + 1) * ChunkSize, PlainLength)
        /\ input' = SubSeq(packet.plain, cryptedBytes' + 1, PlainLength)
    BY <1>5, SealChunk
  <2>3. Len(sealed') = Made'
    BY <1>0, <2>1, <2>2 DEF Made
  <2>4. chunkIndex' =< 1 \/ (chunkIndex' - 1) * ChunkSize < PlainLength
    BY <1>0, <2>1, <2>2
  <2>5. \A j \in 1..chunkIndex' : sealed'[j] = ChunkSealing(j - 1, packet.chunkSizeByte)
    <3>1. \A j \in 1..chunkIndex : sealed'[j] = sealed[j]
      BY <1>0, <2>1, <2>2
    <3>2. sealed'[chunkIndex + 1] = ChunkSealing((chunkIndex + 1) - 1, packet.chunkSizeByte)
      <4>1. (chunkIndex + 1) - 1 = chunkIndex
        BY <1>0
      <4> QED BY <1>0, <2>1, <2>2, <4>1
    <3>3. \A j \in 1..(chunkIndex + 1) : j \in 1..chunkIndex \/ j = chunkIndex + 1
      BY <1>0
    <3> QED BY <1>2, <2>1, <3>1, <3>2, <3>3 DEF SealedSoFar
  <2>6. input' = SubSeq(packet'.plain, cryptedBytes' + 1, PlainLength')
    BY <1>1, <1>3, <2>2
  <2>7. cryptedBytes' = Least(chunkIndex' * ChunkSize', PlainLength')
    BY <1>3, <2>1, <2>2
  <2> QED BY <1>1, <1>3, <1>4, <2>1, <2>3, <2>4, <2>5, <2>6, <2>7 DEF SealedSoFar
<1>6. CASE CryptFinal
  <2>1. /\ loop = "read" /\ loop' = "last" /\ chunkIndex' = chunkIndex
        /\ Made = chunkIndex /\ Len(sealed) = chunkIndex
    BY <1>2, <1>6 DEF CryptFinal, Made, SealedSoFar
  <2>2. /\ chunkIndex >= 1 /\ PlainLength =< chunkIndex * ChunkSize
        /\ sealed' = Append(sealed, FinalSealed(chunkIndex, packet.chunkSizeByte))
        /\ cryptedBytes' = cryptedBytes /\ input' = SubSeq(packet.plain, cryptedBytes + 1, PlainLength)
    BY <1>6, SealFinal
  <2>3. Len(sealed') = Made' /\ Len(sealed') - 1 = chunkIndex
    BY <1>0, <2>1, <2>2 DEF Made
  <2>4. \A j \in 1..chunkIndex : sealed'[j] = ChunkSealing(j - 1, packet.chunkSizeByte)
    <3>1. \A j \in 1..chunkIndex : sealed'[j] = sealed[j]
      BY <1>0, <2>1, <2>2
    <3> QED BY <1>2, <3>1 DEF SealedSoFar
  <2>5. chunkIndex = 1 \/ (chunkIndex - 1) * ChunkSize < PlainLength
    BY <1>0, <1>2, <2>2 DEF SealedSoFar
  <2>6. sealed'[chunkIndex + 1] = FinalSealed(chunkIndex, packet.chunkSizeByte)
    BY <1>0, <2>1, <2>2
  <2>7. packet.iv = 1
    BY DEF Encrypting
  <2>8. AllSealed(packet.chunkSizeByte)'
    <3>1. \A k, size : ChunkSealing(k, size) = [ChunkSealing(k, size) EXCEPT !.nonce = <<1, k>>]
      BY <2>7, RenonceChunk
    <3>2. \A k, size : FinalSealed(k, size) = [FinalSealed(k, size) EXCEPT !.nonce = <<1, k>>]
      BY <2>7 DEF FinalSealed
    <3>3. ChunkSize = 2 ^ packet.chunkSizeByte
      BY DEF ChunkSize
    <3>4. /\ Len(sealed') - 1 >= 1 /\ PlainLength' =< (Len(sealed') - 1) * 2 ^ packet'.chunkSizeByte
          /\ Len(sealed') - 1 = 1 \/ ((Len(sealed') - 1) - 1) * 2 ^ packet'.chunkSizeByte < PlainLength'
      BY <1>1, <1>3, <2>2, <2>3, <2>5, <3>3
    <3>5. \A j \in 1..(Len(sealed') - 1) :
            sealed'[j] = [ChunkSealing(j - 1, packet.chunkSizeByte)' EXCEPT !.nonce = <<1, j - 1>>]
      BY <1>1, <1>4, <2>3, <2>4, <3>1
    <3>6. sealed'[(Len(sealed') - 1) + 1]
            = [FinalSealed(Len(sealed) - 1, packet.chunkSizeByte)' EXCEPT !.nonce = <<1, Len(sealed') - 1>>]
      BY <1>1, <1>4, <2>3, <2>6, <3>2
    <3> QED BY <3>4, <3>5, <3>6 DEF AllSealed
  <2>9. SealedSoFar'
    <3>1. /\ cryptedBytes' = Least(chunkIndex' * ChunkSize', PlainLength')
          /\ input' = SubSeq(packet'.plain, cryptedBytes' + 1, PlainLength')
      BY <1>1, <1>2, <1>3, <2>1, <2>2 DEF SealedSoFar
    <3>2. chunkIndex' =< 1 \/ (chunkIndex' - 1) * ChunkSize' < PlainLength'
      BY <1>2, <1>3, <2>1 DEF SealedSoFar
    <3>3. \A j \in 1..chunkIndex' : sealed'[j] = ChunkSealing(j - 1, packet.chunkSizeByte)'
      BY <1>1, <1>4, <2>1, <2>4
    <3> QED BY <2>3, <2>8, <3>1, <3>2, <3>3 DEF SealedSoFar
  <2> QED BY <2>9
<1>7. CASE CryptThrows \/ CloseWriter
  BY <1>1, <1>7 DEF CryptThrows, CloseWriter
<1>8. CASE Awaited \/ Chain \/ Pull
  <2>1. /\ UNCHANGED <<packet, chunkIndex, cryptedBytes, input, sealed>>
        /\ (loop' = "last" <=> loop = "last")
    BY <1>8 DEF Awaited, Chain, WriteChunk, WriteArray, AbortWriter, Pull
  <2>2. Made' = Made
    BY <2>1 DEF Made
  <2>3. AllSealed(packet.chunkSizeByte) => AllSealed(packet.chunkSizeByte)'
    BY <1>3, <1>4, <2>1 DEF AllSealed
  <2> QED BY <1>2, <1>3, <1>4, <2>1, <2>2, <2>3 DEF SealedSoFar
<1> QED BY <1>5, <1>6, <1>7, <1>8 DEF Crypt

\* What the reader takes is what the first job of the chain made.
LEMMA PullFields ==
  ASSUME Shape, Pull
  PROVE  /\ jobs # <<>> /\ Head(jobs).ok /\ jobs' = Tail(jobs) /\ packet.streaming
         /\ UNCHANGED <<sealed, chunkIndex, loop, packet, fn, writer>> /\ writer = "writable"
         /\ output' = output \o Head(jobs).bytes
<1>1. fifo # <<>> /\ output' = output \o fifo[1]
  BY DEF Pull
<1>2. /\ jobs # <<>> /\ fifo = <<Head(jobs).bytes>> /\ Head(jobs).ok
      /\ packet.streaming /\ writer = "writable"
  BY <1>1 DEF Shape
<1>3. fifo[1] = Head(jobs).bytes
  BY <1>2
<1> QED BY <1>1, <1>2, <1>3 DEF Pull

\* The chain goes on with the sealed texts where it has come to.
LEMMA WrittenStep ==
  ASSUME Types, Shape, Encrypting, fn = "encrypt", packet.kind = "aead", Crypt \/ Chain \/ Pull,
         writer' = "writable"
  PROVE  WrittenSoFar'
<1>0. /\ Types' /\ chunkIndex \in Nat /\ jobs \in Seq(JobRec) /\ sealed \in Seq(SealRec)
      /\ Made \in Nat /\ Len(jobs) \in Nat /\ held \in Seq(Byte) /\ output \in Seq(Byte)
  BY CryptTypes, ChainTypes DEF Types, Made
<1>1. writer = "writable" /\ UNCHANGED packet
  BY HeadOfJobs DEF Crypt, Chain, CryptChunk, CryptFinal, CryptThrows, Awaited, CloseWriter, WriteChunk, WriteArray,
                    AbortWriter, Pull, Shape
<1>2. SealedSoFar /\ WrittenSoFar
  BY <1>1 DEF Encrypting
<1>3. /\ Gone \in Nat /\ Gone + Len(jobs) = Made /\ Len(sealed) = Made /\ Placed(Written, Gone)
      /\ \A i \in 1..Len(jobs) :
           jobs[i] = [ok |-> TRUE, bytes |-> Bytes(Gone + i, Len(sealed[Gone + i].text) + TagLength)]
  <2>1. Gone = Made - Len(jobs) /\ Gone >= 0
    BY <1>2 DEF WrittenSoFar, Gone
  <2>2. Gone \in Nat /\ Gone + Len(jobs) = Made
    BY <1>0, <2>1
  <2>3. Len(sealed) = Made /\ Placed(Written, Gone)
    BY <1>2 DEF SealedSoFar, WrittenSoFar
  <2>4. DOMAIN jobs = 1..Len(jobs)
    BY <1>0
  <2>5. \A i \in 1..Len(jobs) :
           jobs[i] = [ok |-> TRUE, bytes |-> Bytes(Gone + i, Len(sealed[Gone + i].text) + TagLength)]
    BY <1>2, <2>4 DEF WrittenSoFar
  <2> QED BY <2>2, <2>3, <2>5
<1>4. Written \in Seq(Byte)
  BY <1>0 DEF Written
<1>5. ASSUME NEW seal, sealed' = Append(sealed, seal), Made' = Made + 1, UNCHANGED <<output, held>>,
             jobs' = Append(jobs, [ok |-> TRUE, bytes |-> Bytes(Made + 1, Len(seal.text) + TagLength)])
      PROVE  WrittenSoFar'
  <2>1. Len(jobs') = Len(jobs) + 1 /\ Gone' = Gone /\ Written' = Written
    BY <1>0, <1>1, <1>5 DEF Gone, Written
  <2>2. /\ \A j \in 1..Made : sealed'[j] = sealed[j]
        /\ sealed'[Made + 1] = seal
    BY <1>0, <1>3, <1>5
  <2>3. Placed(Written, Gone)'
    <3>1. \A j \in 1..Gone : sealed'[j] = sealed[j]
      BY <1>0, <1>3, <2>2
    <3> QED BY <1>1, <1>3, <2>1, <3>1 DEF Placed, Offset, ChunkSize
  <2>4. ASSUME NEW i \in 1..Len(jobs')
        PROVE  jobs'[i] = [ok |-> TRUE, bytes |-> Bytes(Gone + i, Len(sealed'[Gone + i].text) + TagLength)]
    <3>1. CASE i \in 1..Len(jobs)
      <4>1. jobs'[i] = jobs[i] /\ Gone + i \in 1..Made
        BY <1>0, <1>3, <1>5, <3>1
      <4> QED BY <1>3, <2>2, <3>1, <4>1
    <3>2. CASE i = Len(jobs) + 1
      <4>1. Gone + i = Made + 1
        BY <1>0, <1>3, <3>2
      <4>2. jobs'[i] = [ok |-> TRUE, bytes |-> Bytes(Made + 1, Len(seal.text) + TagLength)]
        BY <1>0, <1>5, <3>2
      <4> QED BY <2>2, <4>1, <4>2
    <3> QED BY <1>0, <2>1, <3>1, <3>2
  <2>5. DOMAIN jobs' = 1..Len(jobs')
    BY <1>0, <1>5
  <2>6. \A i \in DOMAIN jobs' :
          jobs'[i] = [ok |-> TRUE, bytes |-> Bytes(Gone' + i, Len(sealed'[Gone' + i].text) + TagLength)]
    BY <2>1, <2>4, <2>5
  <2>7. \A j, n : Bytes(j, n)' = Bytes(j, n)
    BY DEF Bytes
  <2> QED BY <1>3, <2>1, <2>3, <2>6, <2>7 DEF WrittenSoFar
<1>6. CASE CryptChunk
  <2>1. Made' = Made + 1 /\ Made = chunkIndex /\ UNCHANGED <<output, held>>
    BY <1>6 DEF CryptChunk, Made
  <2>2. /\ sealed' = Append(sealed, ChunkSealing(chunkIndex, packet.chunkSizeByte))
        /\ jobs' = Append(jobs, [ok |-> TRUE, bytes |-> Bytes(chunkIndex + 1,
                             Len(ChunkSealing(chunkIndex, packet.chunkSizeByte).text) + TagLength)])
    BY <1>6, SealChunk
  <2> HIDE DEF WrittenSoFar
  <2> QED BY <1>5, <2>1, <2>2
<1>7. CASE CryptFinal
  <2>1. Made' = Made + 1 /\ Made = chunkIndex /\ UNCHANGED <<output, held>>
    BY <1>7 DEF CryptFinal, Made
  <2>2. /\ sealed' = Append(sealed, FinalSealed(chunkIndex, packet.chunkSizeByte))
        /\ jobs' = Append(jobs, [ok |-> TRUE, bytes |-> Bytes(chunkIndex + 1, TagLength)])
    BY <1>7, SealFinal
  <2>3. Len(FinalSealed(chunkIndex, packet.chunkSizeByte).text) + TagLength = TagLength
    BY PacketFacts DEF FinalSealed
  <2> HIDE DEF WrittenSoFar
  <2> QED BY <1>5, <2>1, <2>2, <2>3
<1>8. CASE CryptThrows \/ CloseWriter
  BY <1>1, <1>8 DEF CryptThrows, CloseWriter
<1>9. ASSUME UNCHANGED <<jobs, sealed, output, held>>, Made' = Made PROVE WrittenSoFar'
  <2>1. Gone' = Gone /\ Written' = Written
    BY <1>1, <1>9 DEF Gone, Written
  <2>2. Placed(Written, Gone)'
    BY <1>1, <1>3, <1>9, <2>1 DEF Placed, Offset, ChunkSize
  <2> QED BY <1>2, <1>9, <2>1, <2>2 DEF WrittenSoFar, Bytes
<1>10. CASE Awaited \/ WriteChunk
  <2>1. UNCHANGED <<jobs, sealed, output, held>> /\ Made' = Made
    BY <1>10 DEF Awaited, WriteChunk, Made
  <2> QED BY <1>9, <2>1
<1>11. ASSUME jobs # <<>>, Head(jobs).ok, jobs' = Tail(jobs), UNCHANGED <<sealed, chunkIndex, loop>>,
              Written' = Written \o Head(jobs).bytes
       PROVE  WrittenSoFar'
  <2>1. /\ Len(jobs') = Len(jobs) - 1 /\ Len(jobs) \in Nat \ {0} /\ Head(jobs) = jobs[1]
        /\ \A i \in 1..Len(jobs') : jobs'[i] = jobs[i + 1]
    BY <1>11, HeadOfJobs
  <2>2. Made' = Made
    BY <1>11 DEF Made
  <2>3. Gone' = Gone + 1 /\ Gone + 1 \in 1..Made
    BY <1>0, <1>3, <2>1, <2>2 DEF Gone
  <2>4. Head(jobs).bytes = Bytes(Gone + 1, Len(sealed[Gone + 1].text) + TagLength)
    <3>1. 1 \in 1..Len(jobs)
      BY <2>1
    <3>2. jobs[1] = [ok |-> TRUE, bytes |-> Bytes(Gone + 1, Len(sealed[Gone + 1].text) + TagLength)]
      BY <1>3, <3>1
    <3> QED BY <2>1, <3>2
  <2>5. \A j \in 1..(Gone + 1) : /\ Len(sealed[j].text) \in Nat
                                 /\ Offset(j + 1) = Offset(j) + Len(sealed[j].text) + TagLength
    <3>1. \A j \in 1..(Gone + 1) : j \in 1..Made
      BY <1>0, <1>3, <2>3
    <3> QED BY <1>2, <3>1, SealedTexts
  <2>6. Placed(Written', Gone')
    BY <1>3, <1>4, <1>11, <2>3, <2>4, <2>5, PlaceNext
  <2>7. Placed(Written, Gone)'
    BY <1>1, <1>11, <2>6 DEF Placed, Offset, ChunkSize
  <2>8. ASSUME NEW i \in 1..Len(jobs')
        PROVE  jobs'[i] = [ok |-> TRUE, bytes |-> Bytes(Gone' + i, Len(sealed[Gone' + i].text) + TagLength)]
    <3>1. i + 1 \in 1..Len(jobs) /\ Gone + (i + 1) = Gone' + i
      BY <1>0, <1>3, <2>1, <2>3
    <3> QED BY <1>3, <2>1, <3>1
  <2>9. DOMAIN jobs' = 1..Len(jobs') /\ \A j, n : Bytes(j, n)' = Bytes(j, n)
    BY <1>0, <1>11, HeadOfJobs DEF Bytes
  <2>10. \A i \in DOMAIN jobs' :
           jobs'[i] = [ok |-> TRUE, bytes |-> Bytes(Gone' + i, Len(sealed'[Gone' + i].text) + TagLength)]
    BY <1>11, <2>8, <2>9
  <2>11. Gone' >= 0
    BY <1>3, <2>3
  <2> QED BY <2>7, <2>10, <2>11 DEF WrittenSoFar
<1>12. CASE WriteArray
  <2>1. /\ jobs # <<>> /\ Head(jobs).ok /\ jobs' = Tail(jobs) /\ UNCHANGED <<sealed, chunkIndex, loop, packet>>
        /\ ~packet.streaming /\ held' = held \o Head(jobs).bytes
    BY <1>12 DEF WriteArray, Resolves
  <2>2. Written' = Written \o Head(jobs).bytes
    BY <2>1 DEF Written
  <2> QED BY <1>11, <2>1, <2>2
<1>13. CASE Pull
  <2>1. /\ jobs # <<>> /\ Head(jobs).ok /\ jobs' = Tail(jobs) /\ UNCHANGED <<sealed, chunkIndex, loop, packet>>
        /\ packet.streaming /\ output' = output \o Head(jobs).bytes
    BY <1>13, PullFields
  <2>2. Written' = Written \o Head(jobs).bytes
    BY <2>1 DEF Written
  <2> QED BY <1>11, <2>1, <2>2
<1>14. CASE AbortWriter
  BY <1>14 DEF AbortWriter
<1> QED BY <1>6, <1>7, <1>8, <1>10, <1>12, <1>13, <1>14 DEF Crypt, Chain

LEMMA EncryptingStep ==
  ASSUME Types, Shape, Encrypting, Whole, Sed, [Next]_vars
  PROVE  Encrypting'
<1> SUFFICES ASSUME fn' = "encrypt", packet'.kind = "aead" PROVE Encrypting'
  BY DEF Encrypting
<1>0. Types' /\ Shape'
  BY NextTypes, ShapeStep
<1>1. CASE UNCHANGED vars
  <2>1. /\ UNCHANGED <<packet, fn, chunkIndex, cryptedBytes, loop, jobs, writer, held, output, sealed, input>>
    BY <1>1 DEF vars, pipeline
  <2>2. /\ ChunkSize' = ChunkSize /\ PlainLength' = PlainLength /\ Made' = Made /\ Gone' = Gone /\ Written' = Written
        /\ \A k, size : (ChunkSealing(k, size)' = ChunkSealing(k, size)) /\ (FinalSealed(k, size)' = FinalSealed(k, size))
        /\ \A j : Offset(j)' = Offset(j)
        /\ \A j, n : Bytes(j, n)' = Bytes(j, n)
    BY <2>1 DEF ChunkSize, PlainLength, Made, Gone, Written, ChunkSealing, FinalSealed, Offset, Bytes
  <2>3. \A size : AllSealed(size)' = AllSealed(size)
    BY <2>1, <2>2 DEF AllSealed
  <2>4. (SealedSoFar' <=> SealedSoFar) /\ (WrittenSoFar' <=> WrittenSoFar)
    BY <2>1, <2>2 DEF SealedSoFar, WrittenSoFar, AllSealed, Placed
  <2>5. AllSealed(packet.chunkSizeByte) => AllSealed(packet.chunkSizeByte)'
    BY <2>1, <2>2 DEF AllSealed
  <2>6. Placed(output, Len(sealed)) => Placed(output, Len(sealed))'
    BY <2>1, <2>2 DEF Placed
  <2> QED BY <2>1, <2>4, <2>5, <2>6 DEF Encrypting
<1>2. CASE Crypt \/ Chain \/ Pull
  <2>1. UNCHANGED <<fn, packet>> /\ fn = "encrypt" /\ packet.kind = "aead" /\ packet.iv = 1
    BY <1>2 DEF Crypt, Chain, CryptChunk, CryptFinal, CryptThrows, Awaited, CloseWriter, WriteChunk, WriteArray,
                AbortWriter, Pull, Encrypting
  <2>2. writer' = "writable" => SealedSoFar' /\ WrittenSoFar'
    BY <1>2, <2>1, SealedStep, WrittenStep
  <2>3. writer' = "errored" => loop' = "ended"
    <3>1. CASE AbortWriter
      <4>1. writer # "closed"
        BY <3>1 DEF AbortWriter, Shape
      <4>2. CASE writer = "writable"
        <5>1. Head(jobs).ok
          <6>1. 1 \in DOMAIN jobs /\ Head(jobs) = jobs[1]
            BY <3>1, HeadOfJobs DEF AbortWriter, Types
          <6> QED BY <2>1, <4>2, <6>1 DEF Encrypting, WrittenSoFar
        <5> QED BY <3>1, <4>2, <5>1 DEF AbortWriter, Rejects
      <4>3. CASE writer = "errored"
        BY <2>1, <3>1, <4>3 DEF AbortWriter, Encrypting
      <4> QED BY <4>1, <4>2, <4>3 DEF Types
    <3>2. CASE ~AbortWriter
      BY <1>2, <2>1, <3>2 DEF Crypt, Chain, CryptChunk, CryptFinal, CryptThrows, Awaited, CloseWriter, WriteChunk,
                              WriteArray, Pull, Encrypting
    <3> QED BY <3>1, <3>2
  <2>4. writer' = "closed" => AllSealed(packet.chunkSizeByte)' /\ Placed(output, Len(sealed))'
    <3> SUFFICES ASSUME writer' = "closed" PROVE AllSealed(packet.chunkSizeByte)' /\ Placed(output, Len(sealed))'
      OBVIOUS
    <3>1. CASE CloseWriter
      <4>1. loop = "last" /\ jobs = <<>> /\ sealed' = sealed /\ output' = output \o held /\ writer # "errored"
        BY <3>1 DEF CloseWriter
      <4>2. writer = "writable"
        BY <4>1 DEF Shape, Types
      <4>3. SealedSoFar /\ WrittenSoFar
        BY <2>1, <4>2 DEF Encrypting
      <4>4. Gone = Made /\ Len(sealed) = Made /\ Made \in Nat /\ AllSealed(packet.chunkSizeByte)
        BY <4>1, <4>3 DEF SealedSoFar, Gone, Made, Types
      <4>5. output' = Written
        <5>1. output \in Seq(Byte) /\ held \in Seq(Byte)
          BY DEF Types
        <5>2. CASE packet.streaming
          BY <4>1, <5>1, <5>2 DEF Shape, Written
        <5>3. CASE ~packet.streaming
          BY <2>1, <4>1, <4>2, <5>1, <5>3 DEF Shape, Written
        <5> QED BY <5>2, <5>3
      <4>6. Placed(output, Len(sealed))'
        BY <2>1, <4>1, <4>3, <4>4, <4>5 DEF Placed, WrittenSoFar, Offset, ChunkSize
      <4>7. AllSealed(packet.chunkSizeByte)'
        BY <2>1, <4>1, <4>4 DEF AllSealed, ChunkSealing, FinalSealed, PlainLength
      <4> QED BY <4>6, <4>7
    <3>2. CASE ~CloseWriter
      <4>1. writer = "closed" /\ loop = "ended" /\ jobs = <<>>
        BY <1>2, <3>2 DEF Crypt, Chain, CryptChunk, CryptFinal, CryptThrows, Awaited, WriteChunk,
                          WriteArray, AbortWriter, Pull, Shape
      <4>2. FALSE
        BY <1>2, <4>1 DEF Crypt, Chain, CryptChunk, CryptFinal, CryptThrows, Awaited, CloseWriter, WriteChunk,
                          WriteArray, Resolves, AbortWriter, Pull, Shape
      <4> QED BY <4>2
    <3> QED BY <3>1, <3>2
  <2> QED BY <2>1, <2>2, <2>3, <2>4 DEF Encrypting
<1>3. CASE EncryptSEIP \/ ReleaseSEIP \/ FinishSEIP \/ CryptSED
  <2>1. loop \in {"seip", "sed"} /\ UNCHANGED packet
    BY <1>3 DEF EncryptSEIP, ReleaseSEIP, FinishSEIP, CryptSED
  <2> QED BY <2>1 DEF Shape
<1>4. CASE Deliver
  BY <1>4 DEF Deliver
<1> QED BY <1>1, <1>2, <1>3, <1>4 DEF Next, Work, Chain

----------------------------------------------------------------------------
(* What encryption promises.                                               *)

LEMMA NoncesStep ==
  ASSUME Types, Shape, Encrypting, Nonces, Whole, Sed, [Next]_vars
  PROVE  Nonces'
<1> SUFFICES ASSUME packet'.kind = "aead" PROVE \A j \in DOMAIN sealed' : sealed'[j].nonce = <<1, j - 1>>
  BY DEF Nonces
<1>0. sealed \in Seq(SealRec) /\ chunkIndex \in Nat
  BY DEF Types
<1>1. ASSUME packet.kind = "aead", sealed' = sealed
      PROVE  \A j \in DOMAIN sealed' : sealed'[j].nonce = <<1, j - 1>>
  BY <1>1 DEF Nonces
<1>2. ASSUME packet.kind = "aead", NEW seal, seal.nonce = <<1, chunkIndex>>, Len(sealed) = chunkIndex,
             sealed' = Append(sealed, seal)
      PROVE  \A j \in DOMAIN sealed' : sealed'[j].nonce = <<1, j - 1>>
  <2>1. /\ DOMAIN sealed' = 1..(chunkIndex + 1) /\ DOMAIN sealed = 1..chunkIndex
        /\ \A j \in 1..chunkIndex : sealed'[j] = sealed[j]
        /\ sealed'[chunkIndex + 1] = seal
    BY <1>0, <1>2
  <2>2. \A j \in 1..chunkIndex : sealed[j].nonce = <<1, j - 1>>
    BY <1>2, <2>1 DEF Nonces
  <2>3. (chunkIndex + 1) - 1 = chunkIndex
    BY <1>0
  <2>4. \A j \in 1..(chunkIndex + 1) : j \in 1..chunkIndex \/ j = chunkIndex + 1
    BY <1>0
  <2> QED BY <1>2, <2>1, <2>2, <2>3, <2>4
<1>3. CASE CryptChunk
  <2>1. UNCHANGED packet /\ loop = "read"
    BY <1>3 DEF CryptChunk
  <2>2. CASE fn = "encrypt"
    <3>1. /\ sealed' = Append(sealed, ChunkSealing(chunkIndex, packet.chunkSizeByte))
          /\ Len(sealed) = chunkIndex /\ packet.iv = 1
      BY <1>3, <2>1, <2>2, SealChunk, NextChunk DEF Encrypting
    <3>2. ChunkSealing(chunkIndex, packet.chunkSizeByte).nonce = <<1, chunkIndex>>
      BY <3>1 DEF ChunkSealing
    <3> QED BY <1>2, <2>1, <3>1, <3>2
  <2>3. CASE fn # "encrypt"
    BY <1>1, <1>3, <2>1, <2>3 DEF CryptChunk, Seal
  <2> QED BY <2>2, <2>3
<1>4. CASE CryptFinal
  <2>1. UNCHANGED packet /\ loop = "read"
    BY <1>4 DEF CryptFinal
  <2>2. CASE fn = "encrypt"
    <3>1. /\ sealed' = Append(sealed, FinalSealed(chunkIndex, packet.chunkSizeByte))
          /\ Len(sealed) = chunkIndex /\ packet.iv = 1
      BY <1>4, <2>1, <2>2, SealFinal, NextChunk DEF Encrypting
    <3>2. FinalSealed(chunkIndex, packet.chunkSizeByte).nonce = <<1, chunkIndex>>
      BY <3>1 DEF FinalSealed
    <3> QED BY <1>2, <2>1, <3>1, <3>2
  <2>3. CASE fn # "encrypt"
    BY <1>1, <1>4, <2>1, <2>3 DEF CryptFinal, Seal
  <2> QED BY <2>2, <2>3
<1>5. CASE UNCHANGED vars \/ CryptThrows \/ Awaited \/ CloseWriter \/ Chain \/ Pull \/ ReleaseSEIP \/ FinishSEIP
  <2>1. UNCHANGED <<packet, sealed>>
    BY <1>5 DEF vars, CryptThrows, Awaited, CloseWriter, Chain, WriteChunk, WriteArray, AbortWriter, Pull,
                ReleaseSEIP, FinishSEIP
  <2> QED BY <1>1, <2>1
<1>6. CASE EncryptSEIP \/ CryptSED
  <2>1. loop \in {"seip", "sed"} /\ UNCHANGED packet
    BY <1>6 DEF EncryptSEIP, CryptSED
  <2>2. packet.kind = "aead"
    BY <2>1
  <2>3. FALSE
    BY <2>1, <2>2 DEF Shape
  <2> QED BY <2>3
<1>7. CASE Deliver
  BY <1>1, <1>7, DeliverFields
<1> QED BY <1>3, <1>4, <1>5, <1>6, <1>7 DEF Next, Work, Crypt

LEMMA TypesOK ==
  ASSUME Types, Shape
  PROVE  TypeOK
<1>1. \A i \in DOMAIN jobs : jobs[i].ok \in BOOLEAN
  <2>1. \A i \in DOMAIN jobs : jobs[i] \in JobRec
    BY DEF Types
  <2> QED BY <2>1 DEF JobRec
<1>2. Len(fifo) =< 1 /\ Len(fifo) =< Len(jobs)
  <2>1. Len(jobs) \in Nat /\ (jobs # <<>> => Len(jobs) >= 1)
    BY DEF Types
  <2>2. fifo = <<>> \/ (jobs # <<>> /\ fifo = <<Head(jobs).bytes>>)
    BY DEF Shape
  <2>3. Len(<<>>) = 0 /\ Len(<<Head(jobs).bytes>>) = 1
    OBVIOUS
  <2>4. Len(fifo) = 0 \/ (jobs # <<>> /\ Len(fifo) = 1)
    BY <2>2, <2>3
  <2> DEFINE f == Len(fifo)
             l == Len(jobs)
  <2>5. l \in Nat /\ (f = 0 \/ (f = 1 /\ l >= 1))
    BY <2>1, <2>4
  <2> HIDE DEF f, l
  <2>6. f =< 1 /\ f =< l
    BY <2>5
  <2> QED BY <2>6 DEF f, l
<1> QED BY <1>1, <1>2 DEF TypeOK, Types

\* The number of chunks is that of RFC 4880bis: one, however short the plaintext.
LEMMA ChunkCount ==
  ASSUME Types, AllSealed(packet.chunkSizeByte)
  PROVE  Len(sealed) = Chunks + 1 /\ Chunks \in Nat
<1> DEFINE C == Len(sealed) - 1
<1>1. /\ PlainLength \in Nat /\ ChunkSize \in Nat \ {0} /\ packet.plain \in Seq(Byte) /\ Len(sealed) \in Nat
      /\ (packet.plain = <<>> <=> PlainLength = 0)
  BY PacketFacts DEF PlainLength, Types
<1>2. C \in Nat /\ C >= 1 /\ PlainLength =< C * ChunkSize /\ (C = 1 \/ (C - 1) * ChunkSize < PlainLength)
  BY <1>1 DEF AllSealed, ChunkSize
<1> HIDE DEF C
<1>3. CASE PlainLength = 0
  <2>1. C = 1
    <3> SUFFICES ASSUME C # 1 PROVE FALSE
      OBVIOUS
    <3>1. C - 1 \in Nat
      BY <1>2
    <3>2. (C - 1) * ChunkSize >= 0
      BY <1>1, <3>1
    <3>3. (C - 1) * ChunkSize < 0
      BY <1>2, <1>3
    <3>4. (C - 1) * ChunkSize \in Int
      BY <1>1, <3>1
    <3> QED BY <3>2, <3>3, <3>4
  <2>2. Chunks = 1
    BY <1>1, <1>3 DEF Chunks
  <2> QED BY <1>2, <2>1, <2>2 DEF C
<1>4. CASE PlainLength > 0
  <2>1. C = (PlainLength + ChunkSize - 1) \div ChunkSize
    BY <1>1, <1>2, <1>4, DivChunks
  <2>2. Chunks = C
    BY <1>1, <1>4, <2>1 DEF Chunks, PlainLength
  <2> QED BY <1>1, <1>2, <2>2 DEF C
<1> QED BY <1>1, <1>3, <1>4

\* All that was sealed is written, one text after the other.
LEMMA CiphertextStands ==
  ASSUME Types, Shape, Encrypting, Nonces
  PROVE  CiphertextRight
<1>0. sealed \in Seq(SealRec) /\ Len(sealed) \in Nat /\ DOMAIN sealed = 1..Len(sealed)
  BY DEF Types
<1>1. ASSUME packet.kind = "aead", NEW i \in DOMAIN sealed, NEW j \in DOMAIN sealed,
             sealed[i].nonce = sealed[j].nonce
      PROVE  i = j
  <2>1. <<1, i - 1>> = <<1, j - 1>>
    BY <1>1 DEF Nonces
  <2>2. i - 1 = j - 1
    BY <2>1
  <2> QED BY <1>0, <2>2
<1>2. ASSUME fn = "encrypt", packet.kind = "aead", writer = "closed"
      PROVE  /\ Len(sealed) = Chunks + 1
             /\ \A j \in 1..Chunks : sealed[j] = ChunkSealing(j - 1, packet.chunkSizeByte)
             /\ sealed[Chunks + 1] = FinalSealed(Chunks, packet.chunkSizeByte)
             /\ Len(packet.plain) < Int32Range =>
                 FinalSealed(Chunks, packet.chunkSizeByte) = FinalSealing(Chunks, packet.chunkSizeByte)
             /\ Len(output) = Len(packet.plain) + (Chunks + 1) * TagLength
             /\ \A j \in DOMAIN sealed : \A p \in 1..(Len(sealed[j].text) + TagLength) :
                 output[Offset(j) + p] = <<j, p>>
  <2>1. packet.iv = 1 /\ AllSealed(packet.chunkSizeByte) /\ Placed(output, Len(sealed))
    BY <1>2 DEF Encrypting
  <2>2. Len(sealed) = Chunks + 1 /\ Chunks \in Nat /\ Len(sealed) - 1 = Chunks
    BY <2>1, ChunkCount
  <2>3. ASSUME NEW j \in 1..Chunks PROVE sealed[j] = ChunkSealing(j - 1, packet.chunkSizeByte)
    <3>1. sealed[j] = [ChunkSealing(j - 1, packet.chunkSizeByte) EXCEPT !.nonce = <<1, j - 1>>]
      BY <2>1, <2>2 DEF AllSealed
    <3> QED BY <2>1, <3>1, RenonceChunk
  <2>4. sealed[Chunks + 1] = FinalSealed(Chunks, packet.chunkSizeByte)
    <3>1. \A k, size : FinalSealed(k, size) = [FinalSealed(k, size) EXCEPT !.nonce = <<1, k>>]
      BY <2>1 DEF FinalSealed
    <3> QED BY <2>1, <2>2, <3>1 DEF AllSealed
  <2>5. Len(output) = Len(packet.plain) + (Chunks + 1) * TagLength
    <3>1. Len(output) = Offset(Len(sealed) + 1)
      BY <2>1 DEF Placed
    <3>2. PlainLength =< Chunks * ChunkSize /\ Chunks * ChunkSize =< (Chunks + 1) * ChunkSize
      <4>1. PlainLength =< Chunks * ChunkSize
        BY <2>1, <2>2 DEF AllSealed, ChunkSize
      <4>2. ChunkSize \in Nat
        BY PacketFacts
      <4> QED BY <2>2, <4>1, <4>2
    <3>3. (Len(sealed) + 1) - 1 = Chunks + 1 /\ (Chunks + 1) * ChunkSize \in Nat /\ Chunks * ChunkSize \in Nat
          /\ PlainLength \in Nat
      BY <2>2, PacketFacts, SMTT(30)
    <3>4. Least((Chunks + 1) * ChunkSize, PlainLength) = PlainLength
      BY <3>2, <3>3 DEF Least
    <3> QED BY <3>1, <3>3, <3>4 DEF Offset, PlainLength
  <2>6. \A j \in DOMAIN sealed : \A p \in 1..(Len(sealed[j].text) + TagLength) : output[Offset(j) + p] = <<j, p>>
    BY <1>0, <2>1 DEF Placed
  <2>7. ASSUME Len(packet.plain) < Int32Range
        PROVE  FinalSealed(Chunks, packet.chunkSizeByte) = FinalSealing(Chunks, packet.chunkSizeByte)
    <3>1. \A n, r \in Nat : n < r => n % r = n
      OBVIOUS
    <3>2. Len(packet.plain) \in Nat /\ Int32Range \in Nat
      BY PacketFacts DEF PlainLength
    <3>3. Len(packet.plain) % Int32Range = Len(packet.plain)
      BY <2>7, <3>1, <3>2
    <3> QED BY <3>3 DEF FinalSealed, FinalSealing
  <2> QED BY <2>2, <2>3, <2>4, <2>5, <2>6, <2>7
<1>3. \A k, size : FinalSealed(k, size).nonce = <<packet.iv, k>> /\ FinalSealed(k, size).text = <<>>
  BY DEF FinalSealed
<1> QED BY <1>1, <1>2, <1>3, TypesOK DEF CiphertextRight, Encrypted

----------------------------------------------------------------------------
(* Decryption: what the jobs open, and what is read.                       *)

\* AllSealed in terms of the plaintext alone.
LEMMA SealedFacts ==
  ASSUME Types, NEW size \in SizeBytes, AllSealed(size)
  PROVE  \E C \in Nat :
         /\ C >= 1 /\ Len(sealed) = C + 1 /\ C < Int32Range
         /\ PlainLength =< C * 2 ^ size /\ (C = 1 \/ (C - 1) * 2 ^ size < PlainLength)
         /\ \A k \in 0..(C - 1) :
              /\ sealed[k + 1].adata = <<size, k>>
              /\ sealed[k + 1].text = SubSeq(packet.plain, k * 2 ^ size + 1, Least((k + 1) * 2 ^ size, PlainLength))
         /\ Len(sealed[C + 1].adata) = 3 /\ sealed[C + 1].adata[1] = size /\ sealed[C + 1].text = <<>>
<1> DEFINE C == Len(sealed) - 1
           m == 2 ^ size
<1>0. Len(sealed) \in Nat /\ m \in Nat \ {0} /\ PlainLength \in Nat /\ PlainLength =< (Int32Range - 1) * m
      /\ Int32Range \in Nat
  BY PacketFacts DEF Types
<1>1. /\ C >= 1 /\ PlainLength =< C * m /\ (C = 1 \/ (C - 1) * m < PlainLength)
      /\ \A j \in 1..C : sealed[j] = [ChunkSealing(j - 1, size) EXCEPT !.nonce = <<1, j - 1>>]
      /\ sealed[C + 1] = [FinalSealed(C, size) EXCEPT !.nonce = <<1, C>>]
  BY DEF AllSealed
<1>2. C \in Nat /\ Len(sealed) = C + 1
  BY <1>0, <1>1
<1> HIDE DEF C
<1>3. C < Int32Range
  <2>1. Int32Range > 1
    BY PacketFacts, EncryptedDataAssumption
  <2>2. CASE C = 1
    BY <2>1, <2>2
  <2>3. CASE (C - 1) * m < PlainLength
    <3>1. C - 1 \in Nat /\ Int32Range - 1 \in Nat
      BY <1>0, <1>1, <1>2, <2>1, SMTT(30)
    <3> HIDE DEF m
    <3>2. (C - 1) * m < (Int32Range - 1) * m
      <4>1. (C - 1) * m \in Nat /\ (Int32Range - 1) * m \in Nat
        BY <1>0, <3>1
      <4> QED BY <1>0, <2>3, <4>1
    <3>3. C - 1 < Int32Range - 1
      BY <1>0, <3>1, <3>2, ChunkOrder
    <3> QED BY <1>0, <1>2, <3>3
  <2> QED BY <1>1, <2>2, <2>3
<1>4. ASSUME NEW k \in 0..(C - 1)
      PROVE  /\ sealed[k + 1].adata = <<size, k>>
             /\ sealed[k + 1].text = SubSeq(packet.plain, k * m + 1, Least((k + 1) * m, PlainLength))
  <2>1. k + 1 \in 1..C /\ (k + 1) - 1 = k
    BY <1>2
  <2>2. sealed[k + 1] = [ChunkSealing(k, size) EXCEPT !.nonce = <<1, k>>]
    BY <1>1, <2>1
  <2> QED BY <2>2 DEF ChunkSealing, PlainLength
<1>5. Len(sealed[C + 1].adata) = 3 /\ sealed[C + 1].adata[1] = size /\ sealed[C + 1].text = <<>>
  BY <1>1 DEF FinalSealed
<1> QED BY <1>1, <1>2, <1>3, <1>4, <1>5

LEMMA AllSealedStays ==
  ASSUME NEW size \in SizeBytes, packet'.plain = packet.plain, sealed' = sealed, AllSealed(size)
  PROVE  AllSealed(size)'
<1>1. PlainLength' = PlainLength
  BY DEF PlainLength
<1>2. ASSUME NEW k
      PROVE  /\ [ChunkSealing(k, size)' EXCEPT !.nonce = <<1, k>>] = [ChunkSealing(k, size) EXCEPT !.nonce = <<1, k>>]
             /\ [FinalSealed(k, size)' EXCEPT !.nonce = <<1, k>>] = [FinalSealed(k, size) EXCEPT !.nonce = <<1, k>>]
  <2> DEFINE t == SubSeq(packet.plain, k * 2 ^ size + 1, Least((k + 1) * 2 ^ size, Len(packet.plain)))
             n == Len(packet.plain) % Int32Range
  <2>1. /\ ChunkSealing(k, size) = [nonce |-> <<packet.iv, k>>, adata |-> <<size, k>>, text |-> t]
        /\ FinalSealed(k, size) = [nonce |-> <<packet.iv, k>>, adata |-> <<size, k, n>>, text |-> <<>>]
    BY DEF ChunkSealing, FinalSealed
  <2>2. /\ ChunkSealing(k, size)' = [nonce |-> <<packet'.iv, k>>, adata |-> <<size, k>>, text |-> t]
        /\ FinalSealed(k, size)' = [nonce |-> <<packet'.iv, k>>, adata |-> <<size, k, n>>, text |-> <<>>]
    BY DEF ChunkSealing, FinalSealed
  <2> HIDE DEF t, n
  <2>3. \A x, y, a, u : [[nonce |-> x, adata |-> a, text |-> u] EXCEPT !.nonce = y]
                       = [nonce |-> y, adata |-> a, text |-> u]
    OBVIOUS
  <2> QED BY <2>1, <2>2, <2>3
<1> QED BY <1>1, <1>2 DEF AllSealed

\* A job that did not fail has opened a text sealed for its turn.
LEMMA OpenedJob ==
  ASSUME Types, NEW text, NEW adata, fn = "decrypt", Job(text, adata).ok
  PROVE  \E j \in DOMAIN sealed : /\ sealed[j].nonce = <<packet.iv, chunkIndex % Int32Range>>
                                  /\ sealed[j].adata = adata
                                  /\ Job(text, adata).bytes = sealed[j].text
<1> DEFINE found == Opening(text, adata)
           j == CHOOSE j \in found : TRUE
<1>1. found # {}
  BY DEF Job
<1>2. j \in found /\ Job(text, adata).bytes = sealed[j].text
  BY <1>1 DEF Job
<1>3. found = {i \in DOMAIN sealed : /\ sealed[i].nonce = Nonce /\ sealed[i].adata = adata
                                     /\ text = Bytes(i, Len(sealed[i].text) + TagLength)}
  BY DEF Opening
<1> HIDE DEF j
<1> QED BY <1>2, <1>3 DEF Nonce

\* The first job of the chain opens the next chunk, or the final tag when
\* there is no chunk left: what the plaintext is by then.
LEMMA ReadNext ==
  ASSUME Types, Nonces, packet.kind = "aead", NEW size \in SizeBytes, AllSealed(size), ReadSoFar(size),
         jobs # <<>>, Head(jobs).ok
  PROVE  /\ Gone + 1 =< Len(sealed) /\ packet.chunkSizeByte = size
         /\ Gone + 1 = Len(sealed) <=> loop = "last" /\ Len(jobs) = 1
         /\ Written \o Head(jobs).bytes = SubSeq(packet.plain, 1, Least((Gone + 1) * 2 ^ size, PlainLength))
<1> DEFINE m == 2 ^ size
           n == PlainLength
           k == Gone
<1>1. PICK C \in Nat :
         /\ C >= 1 /\ Len(sealed) = C + 1 /\ C < Int32Range
         /\ n =< C * m /\ (C = 1 \/ (C - 1) * m < n)
         /\ \A i \in 0..(C - 1) :
              /\ sealed[i + 1].adata = <<size, i>>
              /\ sealed[i + 1].text = SubSeq(packet.plain, i * m + 1, Least((i + 1) * m, n))
         /\ Len(sealed[C + 1].adata) = 3 /\ sealed[C + 1].adata[1] = size /\ sealed[C + 1].text = <<>>
  BY SealedFacts
<1>2. /\ m \in Nat \ {0} /\ n \in Nat /\ packet.plain \in Seq(Byte) /\ Len(packet.plain) = n
      /\ chunkIndex \in Nat /\ jobs \in Seq(JobRec) /\ Len(jobs) \in Nat \ {0} /\ Int32Range \in Nat
      /\ DOMAIN sealed = 1..Len(sealed) /\ Head(jobs) = jobs[1]
  BY PacketFacts, HeadOfJobs DEF Types, PlainLength
<1>3. /\ k \in Nat /\ k =< C /\ k + Len(jobs) = Made
      /\ Written = SubSeq(packet.plain, 1, Least(k * m, n))
      /\ Opened(k, Head(jobs).bytes)
  <2>1. /\ 0 =< k /\ k =< Len(sealed) /\ k # Len(sealed)
        /\ Written = SubSeq(packet.plain, 1, Least(k * m, n))
    BY DEF ReadSoFar
  <2>2. Made \in Nat /\ k = Made - Len(jobs)
    BY <1>2 DEF Made, Gone
  <2>3. Opened(k + 1 - 1, jobs[1].bytes)
    <3>1. 1 \in DOMAIN jobs
      BY <1>2
    <3> QED BY <1>2, <3>1 DEF ReadSoFar
  <2>4. k \in Nat /\ k + 1 - 1 = k
    BY <1>2, <2>1, <2>2
  <2> QED BY <1>1, <1>2, <2>1, <2>2, <2>3, <2>4, SMTT(60)
<1> HIDE DEF m, n, k
<1>4. k % Int32Range = k
  <2>1. k < Int32Range
    BY <1>1, <1>2, <1>3
  <2>2. k \in Nat /\ Int32Range \in Nat
    BY <1>2, <1>3
  <2> QED BY <2>1, <2>2
<1>5. /\ packet.chunkSizeByte \in Int /\ Head(jobs).bytes = sealed[k + 1].text
      /\ k < chunkIndex => sealed[k + 1].adata = <<packet.chunkSizeByte, k>>
      /\ ~(k < chunkIndex) => Len(sealed[k + 1].adata) = 3 /\ sealed[k + 1].adata[1] = packet.chunkSizeByte
  <2>1. PICK j \in DOMAIN sealed :
          /\ sealed[j].nonce = <<packet.iv, k>> /\ Head(jobs).bytes = sealed[j].text
          /\ IF k < chunkIndex THEN sealed[j].adata = <<packet.chunkSizeByte, k>>
                               ELSE Len(sealed[j].adata) = 3 /\ sealed[j].adata[1] = packet.chunkSizeByte
    BY <1>3, <1>4 DEF Opened
  <2>2. <<1, j - 1>> = <<packet.iv, k>>
    BY <2>1 DEF Nonces
  <2>3. j - 1 = k /\ j \in Int
    BY <1>2, <2>2
  <2>4. j = k + 1
    BY <1>3, <2>3
  <2>5. packet.chunkSizeByte \in Int
    <3>1. packet.chunkSizeByte \in SizeBytes
      BY PacketFacts
    <3>2. \A c \in SizeBytes : c \in Int
      BY EncryptedDataAssumption
    <3> QED BY <3>1, <3>2
  <2> QED BY <2>1, <2>4, <2>5
<1>6. k + Len(jobs) = IF loop = "last" THEN chunkIndex + 1 ELSE chunkIndex
  BY <1>3 DEF Made
<1>7. k < C <=> k < chunkIndex
  <2>1. CASE k < C
    <3>1. k \in 0..(C - 1)
      BY <1>1, <1>3, <2>1
    <3>2. sealed[k + 1].adata = <<size, k>>
      BY <1>1, <3>1
    <3>3. Len(sealed[k + 1].adata) = 2
      BY <3>2
    <3>4. 2 # 3
      OBVIOUS
    <3> QED BY <1>5, <2>1, <3>3, <3>4
  <2>2. CASE ~(k < C)
    <3>1. k = C
      BY <1>1, <1>3, <2>2
    <3>2. Len(sealed[k + 1].adata) = 3
      BY <1>1, <3>1
    <3>3. ASSUME k < chunkIndex PROVE FALSE
      <4>1. Len(<<packet.chunkSizeByte, k>>) = 3
        BY <1>5, <3>2, <3>3
      <4> QED BY <4>1
    <3> QED BY <2>2, <3>3
  <2> QED BY <2>1, <2>2
<1>8. CASE k < C
  <2>1. k \in 0..(C - 1)
    BY <1>1, <1>3, <1>8
  <2>2. /\ sealed[k + 1].adata = <<size, k>>
        /\ sealed[k + 1].text = SubSeq(packet.plain, k * m + 1, Least((k + 1) * m, n))
    BY <1>1, <2>1
  <2>3. <<packet.chunkSizeByte, k>> = <<size, k>>
    BY <1>5, <1>7, <1>8, <2>2
  <2>4. packet.chunkSizeByte = size
    BY <2>3
  <2>5. ~(loop = "last" /\ Len(jobs) = 1)
    <3> SUFFICES ASSUME loop = "last", Len(jobs) = 1 PROVE FALSE
      OBVIOUS
    <3>1. k + 1 = chunkIndex + 1
      BY <1>6
    <3> QED BY <1>2, <1>3, <1>7, <1>8, <3>1
  <2>6. k + 1 =< C /\ k + 1 # Len(sealed) /\ k + 1 =< Len(sealed)
    BY <1>1, <1>3, <1>8
  <2>7. k * m \in Nat /\ (k + 1) * m = k * m + m /\ k * m =< n
    <3>1. k * m \in Nat /\ (k + 1) * m = k * m + m /\ (k = 0 => k * m = 0)
      BY <1>2, <1>3
    <3>2. CASE k = 0
      BY <1>2, <3>1, <3>2
    <3>3. CASE k # 0
      <4>1. C # 1 /\ C - 1 \in Nat /\ k =< C - 1
        BY <1>1, <1>3, <2>6, <3>3
      <4>2. k * m =< (C - 1) * m /\ (C - 1) * m \in Nat
        BY <1>2, <1>3, <4>1
      <4>3. (C - 1) * m < n
        BY <1>1, <4>1
      <4> QED BY <1>2, <3>1, <4>2, <4>3
    <3> QED BY <3>1, <3>2, <3>3
  <2>8. Written \o sealed[k + 1].text = SubSeq(packet.plain, 1, Least((k + 1) * m, n))
    <3> DEFINE a == k * m
               b == Least((k + 1) * m, n)
    <3>1. a \in Nat /\ b \in Nat /\ a =< b /\ b =< n /\ Least(a, n) = a
      BY <1>2, <2>7 DEF Least
    <3>2. Written = SubSeq(packet.plain, 1, a) /\ sealed[k + 1].text = SubSeq(packet.plain, a + 1, b)
      BY <1>3, <2>2, <3>1
    <3> HIDE DEF a, b
    <3>3. SubSeq(packet.plain, 1, a) \o SubSeq(packet.plain, a + 1, b) = SubSeq(packet.plain, 1, b)
      BY <1>2, <3>1
    <3> QED BY <3>2, <3>3 DEF b
  <2>9. Written \o Head(jobs).bytes = SubSeq(packet.plain, 1, Least((k + 1) * m, n))
    BY <1>5, <2>8
  <2> QED BY <2>4, <2>5, <2>6, <2>9 DEF m, n, k
<1>9. CASE k = C
  <2>1. sealed[k + 1].adata[1] = size /\ sealed[k + 1].text = <<>> /\ ~(k < chunkIndex)
    <3>1. ~(k < C)
      BY <1>3, <1>9
    <3> QED BY <1>1, <1>7, <1>9, <3>1
  <2>2. packet.chunkSizeByte = size
    BY <1>5, <2>1
  <2>3. loop = "last" /\ Len(jobs) = 1
    <3> DEFINE l == Len(jobs)
    <3>1. k \in Nat /\ chunkIndex \in Nat /\ l \in Nat \ {0} /\ k >= chunkIndex
      BY <1>2, <1>3, <2>1
    <3>2. k + l # chunkIndex
      BY <3>1
    <3>3. loop = "last" /\ k + l = chunkIndex + 1
      BY <1>6, <3>2
    <3> HIDE DEF l
    <3>4. l = 1
      BY <3>1, <3>3
    <3> QED BY <3>3, <3>4 DEF l
  <2>4. Least((k + 1) * m, n) = n /\ Least(k * m, n) = n
    <3>1. k * m \in Nat /\ (k + 1) * m = k * m + m
      BY <1>2, <1>3
    <3>2. n =< k * m
      BY <1>1, <1>9
    <3> QED BY <1>2, <3>1, <3>2 DEF Least
  <2>5. Written \o Head(jobs).bytes = SubSeq(packet.plain, 1, Least((k + 1) * m, n))
    <3>1. Written \in Seq(Byte)
      BY DEF Written, Types
    <3>2. Written \o <<>> = Written
      BY <3>1
    <3>3. Head(jobs).bytes = <<>>
      BY <1>5, <2>1
    <3> QED BY <1>3, <2>4, <3>2, <3>3
  <2>6. k + 1 = Len(sealed) /\ k + 1 =< Len(sealed)
    BY <1>1, <1>9
  <2> QED BY <2>2, <2>3, <2>5, <2>6 DEF m, n, k
<1>10. k < C \/ k = C
  BY <1>1, <1>3
<1> QED BY <1>8, <1>9, <1>10

\* A job that joins the chain of a decryption is right, or fails.
LEMMA ReadAppend ==
  ASSUME Types, NEW size, ReadSoFar(size), fn = "decrypt", CryptChunk \/ CryptFinal
  PROVE  ReadSoFar(size)'
<1> DEFINE k == chunkIndex
<1>0. /\ k \in Nat /\ jobs \in Seq(JobRec) /\ Len(jobs) \in Nat /\ DOMAIN jobs = 1..Len(jobs)
  BY DEF Types
<1>1. /\ loop = "read" /\ loop' \in {"read", "await", "last"} /\ sealed' = sealed
      /\ UNCHANGED <<packet, held, output>>
  BY DEF CryptChunk, CryptFinal, Seal
<1>2. Made = k /\ Made' = k + 1
  BY <1>0 DEF CryptChunk, CryptFinal, Made
<1>3. PICK job :
        /\ jobs' = Append(jobs, job)
        /\ job.ok => \E j \in DOMAIN sealed :
             /\ sealed[j].nonce = <<packet.iv, k % Int32Range>> /\ job.bytes = sealed[j].text
             /\ IF k < chunkIndex' THEN sealed[j].adata = <<packet.chunkSizeByte, k % Int32Range>>
                                   ELSE Len(sealed[j].adata) = 3 /\ sealed[j].adata[1] = packet.chunkSizeByte
  <2>1. CASE CryptChunk
    <3>1. jobs' = Append(jobs, Job(Chunk, AData)) /\ k < chunkIndex'
      BY <1>0, <2>1 DEF CryptChunk
    <3>2. Job(Chunk, AData).ok =>
            \E j \in DOMAIN sealed : /\ sealed[j].nonce = <<packet.iv, k % Int32Range>>
                                     /\ sealed[j].adata = AData
                                     /\ Job(Chunk, AData).bytes = sealed[j].text
      BY OpenedJob
    <3> QED BY <3>1, <3>2 DEF AData
  <2>2. CASE CryptFinal
    <3>1. jobs' = Append(jobs, Job(FinalChunk, ADataTag)) /\ ~(k < chunkIndex')
      BY <1>0, <2>2 DEF CryptFinal
    <3>2. Job(FinalChunk, ADataTag).ok =>
            \E j \in DOMAIN sealed : /\ sealed[j].nonce = <<packet.iv, k % Int32Range>>
                                     /\ sealed[j].adata = ADataTag
                                     /\ Job(FinalChunk, ADataTag).bytes = sealed[j].text
      BY OpenedJob
    <3>3. Len(ADataTag) = 3 /\ ADataTag[1] = packet.chunkSizeByte
      BY DEF ADataTag, AData
    <3> QED BY <3>1, <3>2, <3>3
  <2> QED BY <2>1, <2>2
<1>4. Len(jobs') = Len(jobs) + 1 /\ Gone' = Gone /\ Written' = Written /\ PlainLength' = PlainLength
  BY <1>0, <1>1, <1>2, <1>3 DEF Gone, Written, PlainLength
<1>5. Gone + Len(jobs) = k /\ Gone \in Int
  BY <1>0, <1>2 DEF Gone
<1>6. ASSUME NEW i \in DOMAIN jobs', jobs'[i].ok PROVE Opened(Gone + i - 1, jobs[i].bytes)'
  <2>1. i \in 1..(Len(jobs) + 1)
    BY <1>0, <1>3, <1>4, <1>6
  <2>2. CASE i \in 1..Len(jobs)
    <3> DEFINE l == Gone + i - 1
    <3>1. jobs'[i] = jobs[i] /\ Gone' + i - 1 = l /\ l < k /\ l < chunkIndex'
      <4>1. chunkIndex' \in {k, k + 1}
        BY DEF CryptChunk, CryptFinal
      <4> QED BY <1>0, <1>3, <1>4, <1>5, <2>2, <4>1
    <3>2. Opened(l, jobs[i].bytes)
      BY <1>0, <1>6, <2>2, <3>1 DEF ReadSoFar
    <3> HIDE DEF l
    <3> QED BY <1>1, <3>1, <3>2 DEF Opened
  <2>3. CASE i = Len(jobs) + 1
    <3>1. jobs'[i] = job /\ Gone' + i - 1 = k
      BY <1>0, <1>3, <1>4, <1>5, <2>3
    <3> QED BY <1>1, <1>3, <1>6, <3>1 DEF Opened
  <2> QED BY <2>1, <2>2, <2>3
<1>7. jobs' # <<>>
  BY <1>0, <1>3
<1> QED BY <1>1, <1>4, <1>6, <1>7 DEF ReadSoFar

LEMMA DecryptingStep ==
  ASSUME Types, Shape, Encrypting, Nonces, Decrypting, Whole, Sed, [Next]_vars
  PROVE  Decrypting'
<1> SUFFICES ASSUME fn' = "decrypt", packet'.kind = "aead"
             PROVE  \E size \in SizeBytes : AllSealed(size)' /\ (writer' = "writable" => ReadSoFar(size)')
  BY DEF Decrypting
<1>1. CASE Deliver
  <2>1. /\ packet'.kind = packet.kind /\ packet'.plain = packet.plain /\ jobs' = <<>> /\ sealed' = sealed
        /\ held' = <<>> /\ output' = <<>> /\ chunkIndex' = 0
        /\ loop' = IF packet.kind = "aead" THEN "read" ELSE packet.kind
        /\ fn = "encrypt" /\ writer = "closed"
    BY <1>1, DeliverFields
  <2>2. PICK size \in SizeBytes : AllSealed(size)
    BY <2>1, PacketFacts DEF Encrypting
  <2>3. AllSealed(size)'
    BY <2>1, <2>2, AllSealedStays
  <2>4. Made' = 0 /\ Gone' = 0 /\ Written' = <<>> /\ loop' = "read" /\ DOMAIN jobs' = {}
    BY <2>1 DEF Made, Gone, Written
  <2>5. Len(sealed') \in Nat /\ Len(sealed') > 0
    BY <2>1, <2>2 DEF AllSealed, Types
  <2>6. SubSeq(packet'.plain, 1, Least(0 * 2 ^ size, PlainLength')) = <<>>
    <3>1. 2 ^ size \in Nat \ {0} /\ PlainLength \in Nat /\ packet.plain \in Seq(Byte) /\ PlainLength' = PlainLength
      BY <2>1, <2>2, PacketFacts DEF PlainLength
    <3>2. 0 * 2 ^ size = 0
      BY <3>1
    <3>3. Least(0, PlainLength) = 0
      BY <3>1 DEF Least
    <3> QED BY <2>1, <3>1, <3>2, <3>3
  <2>7. ReadSoFar(size)'
    <3>1. /\ 0 =< Gone' /\ Gone' =< Len(sealed') /\ ~(Gone' >= 1) /\ Gone' # Len(sealed')
      BY <2>4, <2>5
    <3>2. Written' = SubSeq(packet'.plain, 1, Least(Gone' * 2 ^ size, PlainLength'))
      BY <2>4, <2>6
    <3>3. loop' # "last" /\ \A i \in DOMAIN jobs' : FALSE
      BY <2>4
    <3> QED BY <3>1, <3>2, <3>3 DEF ReadSoFar
  <2> QED BY <2>2, <2>3, <2>7
<1>2. CASE ~Deliver
  <2>1. UNCHANGED <<fn, packet>>
    BY <1>2 DEF Next, Work, Crypt, Chain, vars, CryptChunk, CryptFinal, CryptThrows, Awaited, CloseWriter, WriteChunk,
                WriteArray, AbortWriter, Pull, EncryptSEIP, ReleaseSEIP, FinishSEIP, CryptSED
  <2>2. PICK size \in SizeBytes : AllSealed(size) /\ (writer = "writable" => ReadSoFar(size))
    BY <2>1 DEF Decrypting
  <2>3. packet.kind = "aead" /\ fn = "decrypt"
    BY <2>1
  <2>4. ~(EncryptSEIP \/ ReleaseSEIP \/ FinishSEIP \/ CryptSED)
    BY <2>3 DEF EncryptSEIP, ReleaseSEIP, FinishSEIP, CryptSED, Shape
  <2>5. UNCHANGED vars \/ Crypt \/ Chain \/ Pull
    BY <1>2, <2>4 DEF Next, Work
  <2>6. sealed' = sealed
    BY <2>3, <2>5 DEF vars, Crypt, Chain, CryptChunk, CryptFinal, CryptThrows, Awaited, CloseWriter, WriteChunk,
                      WriteArray, AbortWriter, Pull, Seal
  <2>7. AllSealed(size)'
    BY <2>1, <2>2, <2>6, AllSealedStays
  <2> SUFFICES ASSUME writer' = "writable" PROVE ReadSoFar(size)'
    BY <2>2, <2>7
  <2>8. writer = "writable" /\ ReadSoFar(size)
    BY <2>2, <2>5 DEF vars, pipeline, Crypt, Chain, CryptChunk, CryptFinal, CryptThrows, Awaited, CloseWriter,
                      WriteChunk, WriteArray, AbortWriter, Pull, Shape
  <2>9. CASE CryptChunk \/ CryptFinal
    BY <2>3, <2>8, <2>9, ReadAppend
  <2>10. CASE CryptThrows \/ CloseWriter \/ AbortWriter
    BY <2>8, <2>10 DEF CryptThrows, CloseWriter, AbortWriter
  <2>11. CASE UNCHANGED vars \/ Awaited \/ WriteChunk
    <3>1. /\ UNCHANGED <<packet, sealed, jobs, chunkIndex, held, output>>
          /\ loop' = loop \/ (loop = "await" /\ loop' = "read")
      BY <2>11 DEF vars, pipeline, Awaited, WriteChunk
    <3>2. Made' = Made /\ Gone' = Gone /\ Written' = Written /\ PlainLength' = PlainLength
      BY <3>1 DEF Made, Gone, Written, PlainLength
    <3>3. \A k, bytes : Opened(k, bytes)' <=> Opened(k, bytes)
      BY <3>1 DEF Opened
    <3> QED BY <2>8, <3>1, <3>2, <3>3 DEF ReadSoFar
  <2>12. CASE WriteArray \/ Pull
    <3>1. /\ jobs # <<>> /\ Head(jobs).ok /\ jobs' = Tail(jobs)
          /\ UNCHANGED <<packet, sealed, chunkIndex, loop>>
          /\ Written' = Written \o Head(jobs).bytes
      <4>1. CASE WriteArray
        BY <4>1 DEF WriteArray, Resolves, Written
      <4>2. CASE Pull
        BY <4>2, PullFields DEF Written
      <4> QED BY <2>12, <4>1, <4>2
    <3>2. /\ Gone + 1 =< Len(sealed) /\ packet.chunkSizeByte = size
          /\ Gone + 1 = Len(sealed) <=> loop = "last" /\ Len(jobs) = 1
          /\ Written \o Head(jobs).bytes = SubSeq(packet.plain, 1, Least((Gone + 1) * 2 ^ size, PlainLength))
      BY <2>2, <2>3, <2>8, <3>1, ReadNext
    <3>3. /\ jobs \in Seq(JobRec) /\ Len(jobs') = Len(jobs) - 1 /\ Len(jobs) \in Nat \ {0}
          /\ jobs' \in Seq(JobRec) /\ (Len(jobs) = 1 <=> jobs' = <<>>)
          /\ \A i \in 1..Len(jobs') : jobs'[i] = jobs[i + 1]
      <4>1. /\ jobs \in Seq(JobRec) /\ Len(jobs') = Len(jobs) - 1 /\ Len(jobs) \in Nat \ {0}
            /\ jobs' \in Seq(JobRec) /\ \A i \in 1..Len(jobs') : jobs'[i] = jobs[i + 1]
        BY <3>1, HeadOfJobs DEF Types
      <4>2. jobs' = <<>> <=> Len(jobs') = 0
        BY <4>1, EmptyLength
      <4> QED BY <4>1, <4>2
    <3>4. Made' = Made /\ PlainLength' = PlainLength /\ Made \in Nat /\ Gone' = Gone + 1 /\ Gone \in Nat
      <4>1. Made' = Made /\ PlainLength' = PlainLength /\ Made \in Nat
        BY <3>1 DEF Made, PlainLength, Types
      <4>2. 0 =< Gone
        BY <2>8 DEF ReadSoFar
      <4> QED BY <3>3, <4>1, <4>2 DEF Gone
    <3>5. ASSUME NEW i \in DOMAIN jobs', jobs'[i].ok PROVE Opened(Gone + i - 1, jobs[i].bytes)'
      <4>1. i \in 1..Len(jobs') /\ i + 1 \in DOMAIN jobs /\ jobs'[i] = jobs[i + 1]
        BY <3>3
      <4>2. Gone' + i - 1 = Gone + (i + 1) - 1
        BY <3>4, <4>1
      <4>3. Opened(Gone + (i + 1) - 1, jobs[i + 1].bytes)
        BY <2>8, <3>5, <4>1 DEF ReadSoFar
      <4>4. \A k, bytes : Opened(k, bytes)' <=> Opened(k, bytes)
        BY <3>1 DEF Opened
      <4> QED BY <4>1, <4>2, <4>3, <4>4
    <3>6. Written' = SubSeq(packet'.plain, 1, Least(Gone' * 2 ^ size, PlainLength'))
      BY <3>1, <3>2, <3>4
    <3>7. 0 =< Gone' /\ Gone' =< Len(sealed') /\ packet'.chunkSizeByte = size
      BY <3>1, <3>2, <3>4
    <3>8. Gone' = Len(sealed') <=> loop' = "last" /\ jobs' = <<>>
      BY <3>1, <3>2, <3>3, <3>4
    <3> QED BY <3>5, <3>6, <3>7, <3>8 DEF ReadSoFar
  <2> QED BY <2>5, <2>9, <2>10, <2>11, <2>12 DEF Crypt, Chain
<1> QED BY <1>1, <1>2

----------------------------------------------------------------------------
(* Packets that are decrypted in whole.                                    *)

\* Neither crypt() nor its chain is at work on them.
LEMMA NoChunks ==
  ASSUME Types, Shape, packet.kind # "aead"
  PROVE  ~Crypt /\ ~Chain /\ ~Pull
<1>1. jobs = <<>> /\ loop \in {"seip", "sed", "ended"}
  BY DEF Types, Shape
<1>2. fifo = <<>>
  BY <1>1 DEF Shape
<1>3. ~CryptChunk /\ ~CryptFinal /\ ~CryptThrows /\ ~Awaited /\ ~CloseWriter
  BY <1>1 DEF CryptChunk, CryptFinal, CryptThrows, Awaited, CloseWriter
<1>4. ~WriteChunk /\ ~WriteArray /\ ~AbortWriter /\ ~Pull
  BY <1>1, <1>2 DEF WriteChunk, WriteArray, Resolves, AbortWriter, Pull
<1> QED BY <1>3, <1>4 DEF Crypt, Chain

LEMMA WholeStep ==
  ASSUME Types, Shape, Whole, [Next]_vars
  PROVE  Whole'
<1> SUFFICES ASSUME packet'.kind = "seip" PROVE Whole'
  BY DEF Whole
<1>1. packet.kind = "seip"
  <2>1. CASE Deliver
    BY <2>1, DeliverFields
  <2>2. CASE ~Deliver
    BY <2>2 DEF Next, Work, Crypt, Chain, vars, CryptChunk, CryptFinal, CryptThrows, Awaited, CloseWriter, WriteChunk,
                WriteArray, AbortWriter, Pull, EncryptSEIP, ReleaseSEIP, FinishSEIP, CryptSED
  <2> QED BY <2>1, <2>2
<1>2. ~Crypt /\ ~Chain /\ ~Pull /\ loop \in {"seip", "ended"}
  BY <1>1, NoChunks DEF Shape
<1>3. CASE UNCHANGED vars
  <2>1. UNCHANGED <<packet, fn, loop, input, writer, output, sealed>>
    BY <1>3 DEF vars, pipeline
  <2>2. PacketBytes' = PacketBytes /\ Unauthenticated' = Unauthenticated
    BY <2>1 DEF PacketBytes, ToHash, Decrypted, Unauthenticated
  <2> QED BY <2>1, <2>2 DEF Whole
<1>4. CASE EncryptSEIP
  <2>1. loop = "seip" /\ fn = "encrypt" /\ fn' = fn /\ loop' = "ended" /\ UNCHANGED packet /\ input = packet.plain
    BY <1>1, <1>4 DEF EncryptSEIP, Whole
  <2>2. CASE packet.upstream = "fails"
    <3>1. writer' = "errored"
      BY <1>4, <2>2 DEF EncryptSEIP
    <3> QED BY <2>1, <3>1 DEF Whole
  <2>3. CASE packet.upstream # "fails"
    <3> DEFINE text == Prefix \o packet.plain \o MDC \o Hash
    <3>1. sealed' = <<[nonce |-> <<>>, adata |-> <<>>, text |-> text]>>
      BY <1>4, <2>1, <2>3 DEF EncryptSEIP
    <3> HIDE DEF text
    <3>2. Len(sealed') = 1 /\ sealed'[1].text = text
      BY <3>1
    <3>3. sealed'[1].text = Prefix \o packet'.plain \o MDC \o Hash
      BY <2>1, <3>2 DEF text
    <3> QED BY <2>1, <3>2, <3>3 DEF Whole, Prefix, MDC, Hash
  <2> QED BY <2>2, <2>3
<1>5. CASE ReleaseSEIP
  <2>1. /\ loop = "seip" /\ fn = "decrypt" /\ Unauthenticated /\ Len(output) < Len(PacketBytes)
        /\ output' = Append(output, PacketBytes[Len(output) + 1])
        /\ UNCHANGED <<packet, fn, input, loop, writer, sealed>>
    BY <1>5 DEF ReleaseSEIP
  <2>2. PacketBytes' = PacketBytes /\ Unauthenticated' = Unauthenticated
    BY <2>1 DEF PacketBytes, ToHash, Decrypted, Unauthenticated
  <2>3. /\ Len(sealed) = 1 /\ sealed[1].text = Prefix \o packet.plain \o MDC \o Hash /\ writer = "writable"
        /\ output = <<>> \/ output = SubSeq(PacketBytes, 1, Len(output))
    BY <1>1, <2>1 DEF Whole
  <2>4. PacketBytes \in Seq(Byte) /\ output \in Seq(Byte)
    BY <2>3, DecryptedTypes DEF Types
  <2>5. output' = SubSeq(PacketBytes, 1, Len(output) + 1) /\ Len(output') = Len(output) + 1
    <3> DEFINE b == PacketBytes
               l == Len(output)
    <3>1. b \in Seq(Byte) /\ l \in Nat /\ l < Len(b)
      BY <2>1, <2>4
    <3>2. output = SubSeq(b, 1, l)
      BY <2>3, <2>4, <3>1
    <3> HIDE DEF b, l
    <3>3. Append(SubSeq(b, 1, l), b[l + 1]) = SubSeq(b, 1, l + 1) /\ Len(SubSeq(b, 1, l + 1)) = l + 1
      BY <3>1
    <3> QED BY <2>1, <3>2, <3>3 DEF b, l
  <2>6. Len(output') =< Len(PacketBytes)
    BY <2>1, <2>4, <2>5
  <2> QED BY <2>1, <2>2, <2>3, <2>5, <2>6 DEF Whole, Prefix, MDC, Hash
<1>6. CASE FinishSEIP
  <2>1. fn = "decrypt" /\ loop' = "ended" /\ UNCHANGED <<packet, fn, sealed>>
    BY <1>6 DEF FinishSEIP
  <2> QED BY <1>1, <2>1 DEF Whole, Prefix, MDC, Hash
<1>7. CASE CryptSED
  BY <1>2, <1>7 DEF CryptSED
<1>8. CASE Deliver
  <2>1. /\ fn' = "decrypt" /\ writer = "closed" /\ sealed' = sealed /\ packet'.plain = packet.plain
        /\ writer' = "writable" /\ output' = <<>>
    BY <1>8, DeliverFields
  <2> QED BY <1>1, <2>1 DEF Whole, Prefix, MDC, Hash
<1> QED BY <1>2, <1>3, <1>4, <1>5, <1>6, <1>7, <1>8 DEF Next, Work

LEMMA SedStep ==
  ASSUME Types, Shape, Sed, [Next]_vars
  PROVE  Sed'
<1> SUFFICES ASSUME packet'.kind = "sed", loop' = "sed" PROVE writer' = "writable"
  BY DEF Sed
<1>1. CASE Deliver
  BY <1>1, DeliverFields
<1>2. CASE ~Deliver
  <2>1. UNCHANGED packet
    BY <1>2 DEF Next, Work, Crypt, Chain, vars, CryptChunk, CryptFinal, CryptThrows, Awaited, CloseWriter, WriteChunk,
                WriteArray, AbortWriter, Pull, EncryptSEIP, ReleaseSEIP, FinishSEIP, CryptSED
  <2>2. ~Crypt /\ ~Chain /\ ~Pull /\ loop \in {"sed", "ended"}
    BY <2>1, NoChunks DEF Shape
  <2>3. UNCHANGED vars \/ CryptSED
    BY <1>2, <2>2 DEF Next, Work, EncryptSEIP, ReleaseSEIP, FinishSEIP
  <2>4. ~CryptSED
    BY DEF CryptSED
  <2>5. UNCHANGED <<packet, loop, writer>>
    BY <2>3, <2>4 DEF vars, pipeline
  <2> QED BY <2>5 DEF Sed
<1> QED BY <1>1, <1>2

----------------------------------------------------------------------------
(* The invariant, and what follows from it.                                *)

LEMMA InitInvariant == Init => Types /\ IInv
<1> SUFFICES ASSUME Init PROVE Types /\ IInv
  OBVIOUS
<1>1. Types
  BY InitTypes
<1>2. /\ fn = "encrypt" /\ writer = "writable" /\ sealed = <<>> /\ jobs = <<>> /\ fifo = <<>>
      /\ held = <<>> /\ output = <<>> /\ chunkIndex = 0 /\ cryptedBytes = 0 /\ input = packet.plain
      /\ packet.iv = 1 /\ (packet.early => packet.kind = "seip") /\ loop = Entrance
  BY DEF Init
<1>3. Shape /\ Whole /\ Sed /\ Nonces /\ Decrypting
  BY <1>1, <1>2 DEF Shape, Whole, Sed, Nonces, Decrypting, Entrance, Types
<1>4. ASSUME packet.kind = "aead" PROVE SealedSoFar /\ WrittenSoFar
  <2>1. loop = "read" /\ Made = 0 /\ Len(sealed) = 0 /\ Len(jobs) = 0 /\ DOMAIN jobs = {}
    BY <1>2, <1>4 DEF Entrance, Made
  <2>2. /\ ChunkSize \in Nat \ {0} /\ PlainLength \in Nat /\ packet.plain \in Seq(Byte) /\ Len(packet.plain) = PlainLength
    BY <1>1, PacketFacts DEF PlainLength
  <2>3. Least(chunkIndex * ChunkSize, PlainLength) = 0
    <3>1. 0 * ChunkSize = 0
      BY <2>2
    <3> QED BY <1>2, <2>2, <3>1 DEF Least
  <2>4. input = SubSeq(packet.plain, 0 + 1, PlainLength)
    <3>1. SubSeq(packet.plain, 0 + 1, PlainLength) = packet.plain
      BY <2>2
    <3> QED BY <1>2, <3>1
  <2>5. SealedSoFar
    <3>1. Len(sealed) = Made /\ chunkIndex =< 1 /\ loop # "last" /\ \A j \in 1..chunkIndex : FALSE
      BY <1>2, <2>1
    <3>2. cryptedBytes = Least(chunkIndex * ChunkSize, PlainLength)
      BY <1>2, <2>3
    <3>3. input = SubSeq(packet.plain, cryptedBytes + 1, PlainLength)
      BY <1>2, <2>4
    <3> QED BY <3>1, <3>2, <3>3 DEF SealedSoFar
  <2>6. Gone = 0
    BY <2>1 DEF Gone
  <2>7. Written = <<>>
    BY <1>2 DEF Written
  <2>8. Offset(0 + 1) = 0
    BY <1>1, OffsetFacts
  <2>9. Placed(Written, Gone)
    BY <2>6, <2>7, <2>8 DEF Placed
  <2> QED BY <2>1, <2>5, <2>6, <2>9 DEF WrittenSoFar
<1>5. Encrypting
  BY <1>2, <1>4 DEF Encrypting
<1> QED BY <1>1, <1>3, <1>5 DEF IInv

LEMMA NextInvariant == Types /\ IInv /\ [Next]_vars => (Types /\ IInv)'
<1> SUFFICES ASSUME Types, IInv, [Next]_vars PROVE (Types /\ IInv)'
  OBVIOUS
<1>1. Shape /\ Encrypting /\ Nonces /\ Decrypting /\ Whole /\ Sed
  BY DEF IInv
<1>2. Types' /\ Shape'
  BY <1>1, NextTypes, ShapeStep
<1>3. Encrypting' /\ Nonces' /\ Decrypting'
  BY <1>1, EncryptingStep, NoncesStep, DecryptingStep
<1>4. Whole' /\ Sed'
  BY <1>1, WholeStep, SedStep
<1> QED BY <1>2, <1>3, <1>4 DEF IInv

\* The loop, the chain and the writer stay in step with the plaintext:
\* every reachable state satisfies the inductive invariant.
THEOREM InvariantHolds == Spec => [](Types /\ IInv)
<1>1. Init => Types /\ IInv
  BY InitInvariant
<1>2. (Types /\ IInv) /\ [Next]_vars => (Types /\ IInv)'
  BY NextInvariant
<1> QED BY <1>1, <1>2, PTL DEF Spec

\* crypt() that ends has sealed every chunk, once, in order and under a
\* nonce of its own, the length of the plaintext last (if four octets hold it),
\* and the chain has written all of that in order: for any plaintext, chunk size
\* and tag.
THEOREM CiphertextStays == Spec => []CiphertextRight
<1>1. Types /\ IInv => CiphertextRight
  BY CiphertextStands DEF IInv
<1> QED BY <1>1, InvariantHolds, PTL

----------------------------------------------------------------------------
(* Decryption implements AuthenticatedStream.                              *)

Reader == IF fn = "decrypt" THEN output ELSE <<>>
Status ==
    CASE writer = "errored" -> "failed"
      [] writer # "errored" /\ fn = "encrypt" -> "idle"
      [] OTHER -> IF writer = "closed" THEN "closed" ELSE "open"

LEMMA StatusCases ==
  ASSUME Types
  PROVE  /\ writer = "errored" => Status = "failed"
         /\ writer # "errored" /\ fn = "encrypt" => Status = "idle"
         /\ writer = "closed" /\ fn = "decrypt" => Status = "closed"
         /\ writer = "writable" /\ fn = "decrypt" => Status = "open"
BY DEF Types, Status

LEMMA StreamSteps ==
  /\ UNCHANGED <<packet, Reader, Status>> => UNCHANGED Stream!vars
  /\ Stream!Init <=> Reader = <<>> /\ Status = "idle"
  /\ Stream!Open <=> /\ Status = "idle" /\ Status' = "open"
                     /\ UNCHANGED <<packet.plain, packet.early, Reader>>
  /\ Stream!Release <=> /\ Status = "open" /\ Stream!IsPrefix(Reader, Reader')
                        /\ packet.early \/ Stream!IsPrefix(Reader', packet.plain)
                        /\ UNCHANGED <<packet.plain, packet.early, Status>>
  /\ Stream!Close <=> /\ Status = "open" /\ Stream!IsPrefix(Reader, Reader') /\ Reader' = packet.plain
                      /\ Status' = "closed" /\ UNCHANGED <<packet.plain, packet.early>>
  /\ Stream!Fail <=> /\ Status \in {"idle", "open"} /\ Status' = "failed"
                     /\ UNCHANGED <<packet.plain, packet.early, Reader>>
<1>1. UNCHANGED <<packet, Reader, Status>> => UNCHANGED Stream!vars
  BY DEF Stream!vars, Reader, Status
<1>2. Stream!Init <=> Reader = <<>> /\ Status = "idle"
  BY DEF Stream!Init, Reader, Status
<1>3. Stream!Open <=> /\ Status = "idle" /\ Status' = "open"
                      /\ UNCHANGED <<packet.plain, packet.early, Reader>>
  BY DEF Stream!Open, Reader, Status
<1>4. Stream!Release <=> /\ Status = "open" /\ Stream!IsPrefix(Reader, Reader')
                         /\ packet.early \/ Stream!IsPrefix(Reader', packet.plain)
                         /\ UNCHANGED <<packet.plain, packet.early, Status>>
  BY DEF Stream!Release, Reader, Status
<1>5. Stream!Close <=> /\ Status = "open" /\ Stream!IsPrefix(Reader, Reader') /\ Reader' = packet.plain
                       /\ Status' = "closed" /\ UNCHANGED <<packet.plain, packet.early>>
  BY DEF Stream!Close, Reader, Status
<1>6. Stream!Fail <=> /\ Status \in {"idle", "open"} /\ Status' = "failed"
                      /\ UNCHANGED <<packet.plain, packet.early, Reader>>
  BY DEF Stream!Fail, Reader, Status
<1> QED BY <1>1, <1>2, <1>3, <1>4, <1>5, <1>6

\* An intact hash means that the packets are those of the plaintext.
LEMMA HashMeansWhole ==
  ASSUME Types, Len(sealed) = 1, sealed[1].text = Prefix \o packet.plain \o MDC \o Hash, HashRight
  PROVE  PacketBytes = packet.plain
<1> DEFINE p == packet.plain
           n == Len(p)
           text == Prefix \o p \o MDC \o Hash
<1>0. p \in Seq(Byte) /\ n \in Nat /\ ToHash \in Seq(Byte)
  BY PacketFacts, DecryptedTypes
<1>1. /\ Prefix \in Seq(Byte) /\ MDC \in Seq(Byte) /\ Hash \in Seq(Byte)
      /\ Len(Prefix) = 1 /\ Len(MDC) = 1 /\ Len(Hash) = 1
  BY DEF Prefix, MDC, Hash, Byte
<1> HIDE DEF p, n
<1>2. text \in Seq(Byte) /\ Len(text) = n + 3 /\ \A i \in 1..n : text[i + 1] = p[i]
  <2> DEFINE a == Prefix \o p
             b == a \o MDC
  <2>0. p \in Seq(Byte) /\ Prefix \in Seq(Byte) /\ MDC \in Seq(Byte) /\ Hash \in Seq(Byte)
    BY <1>0, <1>1
  <2>1. a \in Seq(Byte) /\ Len(a) = Len(Prefix) + Len(p) /\ \A i \in 1..Len(p) : a[Len(Prefix) + i] = p[i]
    BY <2>0, ConcatParts
  <2> HIDE DEF a
  <2>a. a \in Seq(Byte)
    BY <2>1
  <2>2. b \in Seq(Byte) /\ Len(b) = Len(a) + Len(MDC) /\ \A i \in 1..Len(a) : b[i] = a[i]
    BY <2>0, <2>a, ConcatParts
  <2> HIDE DEF b
  <2>b. b \in Seq(Byte)
    BY <2>2
  <2>3. b \o Hash \in Seq(Byte) /\ Len(b \o Hash) = Len(b) + Len(Hash) /\ \A i \in 1..Len(b) : (b \o Hash)[i] = b[i]
    BY <2>0, <2>b, ConcatParts
  <2>4. text = b \o Hash
    BY DEF a, b
  <2> HIDE DEF text
  <2>5. Len(p) = n
    BY DEF n
  <2>6. Len(a) = n + 1 /\ Len(b) = n + 2 /\ Len(text) = n + 3
    BY <1>0, <1>1, <2>1, <2>2, <2>3, <2>4, <2>5
  <2>7. ASSUME NEW i \in 1..n PROVE text[i + 1] = p[i]
    <3>1. i + 1 \in 1..Len(b) /\ i + 1 \in 1..Len(a) /\ i \in 1..Len(p) /\ Len(Prefix) + i = i + 1
      BY <1>0, <1>1, <2>5, <2>6
    <3> QED BY <2>1, <2>2, <2>3, <2>4, <3>1
  <2> QED BY <2>3, <2>4, <2>6, <2>7
<1> HIDE DEF text
<1>3. ASSUME NEW s \in Seq(Byte), Len(s) >= 1
      PROVE  /\ Subarray(s, 0, -1) = SubSeq(s, 1, Len(s) - 1)
             /\ Subarray(s, 1, Len(s)) = SubSeq(s, 2, Len(s))
  <2> DEFINE l == Len(s)
  <2>1. l \in Nat /\ l >= 1
    BY <1>3
  <2> DEFINE At(i) == IF i < 0 THEN IF l + i < 0 THEN 0 ELSE l + i ELSE Least(i, l)
  <2>2. \A i, j : Subarray(s, i, j) = SubSeq(s, At(i) + 1, At(j))
    BY DEF Subarray
  <2> HIDE DEF l
  <2>3. At(0) = 0 /\ At(-1) = l - 1 /\ At(1) = 1 /\ At(l) = l
    BY <2>1 DEF Least
  <2> HIDE DEF At
  <2>4. 0 + 1 = 1 /\ 1 + 1 = 2
    OBVIOUS
  <2>5. Subarray(s, 0, -1) = SubSeq(s, At(0) + 1, At(-1)) /\ Subarray(s, 1, l) = SubSeq(s, At(1) + 1, At(l))
    BY <2>2
  <2> QED BY <2>3, <2>4, <2>5 DEF l
<1>4. ToHash = Subarray(text, 0, -1)
  <2> DEFINE S == Byte \cup {RealHash, Hash}
             t == Subarray(text, 0, -1)
  <2>1. t \in Seq(Byte)
    BY <1>2 DEF Subarray, Least
  <2>2. Append(ToHash, RealHash) = Append(t, Hash)
    BY <1>1 DEF HashRight, text, p
  <2> HIDE DEF t
  <2>3. ToHash \in Seq(S) /\ t \in Seq(S) /\ RealHash \in S /\ Hash \in S
    <3>1. Byte \subseteq S
      OBVIOUS
    <3> QED BY <1>0, <2>1, <3>1, SeqMonotonic
  <2> HIDE DEF S
  <2> QED BY <2>2, <2>3, AppendInjective DEF t
<1>5. ToHash = SubSeq(text, 1, n + 2)
  <2>1. Len(text) >= 1 /\ Len(text) - 1 = n + 2
    BY <1>0, <1>2
  <2> QED BY <1>2, <1>3, <1>4, <2>1
<1>6. Len(ToHash) = n + 2 /\ \A i \in 1..n : ToHash[i + 1] = p[i]
  <2>1. n + 2 \in Nat /\ n + 2 =< Len(text)
    BY <1>0, <1>2
  <2>2. \A l \in Nat : l =< Len(text) => /\ Len(SubSeq(text, 1, l)) = l
                                         /\ \A i \in 1..l : SubSeq(text, 1, l)[i] = text[i]
    BY <1>2
  <2>3. Len(ToHash) = n + 2 /\ \A i \in 1..(n + 2) : ToHash[i] = text[i]
    BY <1>5, <2>1, <2>2
  <2>4. \A i \in 1..n : i + 1 \in 1..(n + 2)
    BY <1>0
  <2> QED BY <1>2, <2>3, <2>4
<1> DEFINE u == Subarray(ToHash, 1, Len(ToHash))
<1>7. u \in Seq(Byte) /\ Len(u) = n + 1 /\ \A i \in 1..n : u[i] = p[i]
  <2>1. Len(ToHash) >= 1
    BY <1>0, <1>6
  <2>2. u = SubSeq(ToHash, 2, Len(ToHash))
    BY <1>0, <1>3, <2>1
  <2>3. \A t \in Seq(Byte) : Len(t) >= 1 => /\ SubSeq(t, 2, Len(t)) \in Seq(Byte)
                                           /\ Len(SubSeq(t, 2, Len(t))) = Len(t) - 1
                                           /\ \A i \in 1..(Len(t) - 1) : SubSeq(t, 2, Len(t))[i] = t[i + 1]
    <3> SUFFICES ASSUME NEW t \in Seq(Byte), NEW l \in Nat, Len(t) = l, l >= 1
                 PROVE  /\ SubSeq(t, 2, l) \in Seq(Byte) /\ Len(SubSeq(t, 2, l)) = l - 1
                        /\ \A i \in 1..(l - 1) : SubSeq(t, 2, l)[i] = t[i + 1]
      BY SMTT(30)
    <3>1. \A i \in 2..l : t[i] \in Byte
      OBVIOUS
    <3>2. /\ SubSeq(t, 2, l) \in Seq(Byte) /\ Len(SubSeq(t, 2, l)) = IF 2 =< l THEN l - 2 + 1 ELSE 0
          /\ \A i \in 1..(l - 2 + 1) : SubSeq(t, 2, l)[i] = t[2 + i - 1]
      BY <3>1, SubSeqProperties
    <3> QED BY <3>2
  <2> HIDE DEF u
  <2>4. u \in Seq(Byte) /\ Len(u) = Len(ToHash) - 1 /\ \A i \in 1..(Len(ToHash) - 1) : u[i] = ToHash[i + 1]
    BY <1>0, <2>1, <2>2, <2>3
  <2>5. Len(ToHash) - 1 = n + 1
    BY <1>0, <1>6
  <2>6. \A i \in 1..n : i \in 1..(n + 1)
    BY <1>0
  <2> QED BY <1>6, <2>4, <2>5, <2>6
<1> HIDE DEF u
<1>8. PacketBytes = SubSeq(u, 1, n)
  <2>1. PacketBytes = Subarray(u, 0, -1)
    BY <1>1 DEF PacketBytes, u
  <2>2. Len(u) >= 1 /\ Len(u) - 1 = n
    BY <1>0, <1>7
  <2> QED BY <1>3, <1>7, <2>1, <2>2
<1>9. SubSeq(u, 1, n) = p
  <2> DEFINE v == SubSeq(u, 1, n)
  <2>1. n =< Len(u)
    BY <1>0, <1>7
  <2>2. v \in Seq(Byte) /\ Len(v) = n /\ \A i \in 1..n : v[i] = u[i]
    BY <1>0, <1>7, <2>1
  <2>3. Len(p) = n
    BY DEF n
  <2> HIDE DEF v
  <2>4. v = p
    BY <1>0, <1>7, <2>2, <2>3, SeqEqual
  <2> QED BY <2>4 DEF v
<1> QED BY <1>8, <1>9 DEF p

\* What one sequence being the beginning of another means here.
LEMMA PrefixFacts ==
  ASSUME NEW s \in Seq(Byte)
  PROVE  /\ Stream!IsPrefix(s, s) /\ Stream!IsPrefix(<<>>, s)
         /\ \A t \in Seq(Byte) : Stream!IsPrefix(s, s \o t)
         /\ \A l \in 0..Len(s) : Stream!IsPrefix(SubSeq(s, 1, l), s)
<1>1. Len(s) \in Nat
  OBVIOUS
<1>2. Stream!IsPrefix(s, s)
  BY <1>1 DEF Stream!IsPrefix
<1>3. Stream!IsPrefix(<<>>, s)
  BY <1>1 DEF Stream!IsPrefix
<1>4. ASSUME NEW t \in Seq(Byte) PROVE Stream!IsPrefix(s, s \o t)
  <2> DEFINE u == s \o t
  <2>1. u \in Seq(Byte) /\ Len(u) = Len(s) + Len(t) /\ \A i \in 1..Len(s) : u[i] = s[i]
    BY ConcatParts
  <2> HIDE DEF u
  <2>2. Len(t) \in Nat
    OBVIOUS
  <2>3. Len(s) =< Len(u)
    BY <1>1, <2>1, <2>2
  <2>4. u \in Seq(Byte) /\ \A i \in 1..Len(s) : u[i] = s[i]
    BY <2>1
  <2>5. SubSeq(s, 1, Len(s)) = SubSeq(u, 1, Len(s))
    BY <1>1, <2>3, <2>4
  <2> QED BY <2>3, <2>5 DEF Stream!IsPrefix, u
<1>5. ASSUME NEW l \in 0..Len(s) PROVE Stream!IsPrefix(SubSeq(s, 1, l), s)
  <2> DEFINE u == SubSeq(s, 1, l)
  <2>1. l \in Nat /\ l =< Len(s)
    BY <1>1
  <2>2. u \in Seq(Byte) /\ Len(u) = l
    BY <2>1
  <2>3. SubSeq(u, 1, l) = u
    BY <2>1
  <2> HIDE DEF u
  <2> QED BY <2>1, <2>2, <2>3 DEF Stream!IsPrefix, u
<1> QED BY <1>2, <1>3, <1>4, <1>5

\* The step that each kind of step is for the reader of the plaintext.
LEMMA StepIdle ==
  ASSUME fn = "encrypt", fn' = "encrypt", packet' = packet, writer = "errored" => writer' = "errored"
  PROVE  [Stream!Next]_(Stream!vars)
<1>1. Reader = <<>> /\ Reader' = <<>>
  BY DEF Reader
<1>2. CASE writer = "errored" \/ writer' # "errored"
  <2>1. Status' = Status
    BY <1>2 DEF Status
  <2> QED BY <1>1, <2>1, StreamSteps
<1>3. CASE writer # "errored" /\ writer' = "errored"
  <2>1. Status = "idle" /\ Status' = "failed"
    BY <1>3 DEF Status
  <2>2. Stream!Fail
    BY <1>1, <2>1, StreamSteps
  <2> QED BY <2>2 DEF Stream!Next
<1> QED BY <1>2, <1>3

LEMMA StepUnseen ==
  ASSUME fn' = fn, packet' = packet, writer' = writer, output' = output
  PROVE  [Stream!Next]_(Stream!vars)
<1>1. Reader' = Reader /\ Status' = Status
  BY DEF Reader, Status
<1> QED BY <1>1, StreamSteps

LEMMA StepFails ==
  ASSUME fn = "decrypt", fn' = "decrypt", packet' = packet, output' = output,
         writer \in {"writable", "errored"}, writer' = "errored"
  PROVE  [Stream!Next]_(Stream!vars)
<1>1. CASE writer = "errored"
  BY <1>1, StepUnseen
<1>2. CASE writer = "writable"
  <2>1. Reader' = Reader /\ Status = "open" /\ Status' = "failed"
    BY <1>2 DEF Reader, Status
  <2>2. Stream!Fail
    BY <2>1, StreamSteps
  <2> QED BY <2>2 DEF Stream!Next
<1> QED BY <1>1, <1>2

LEMMA StepReleases ==
  ASSUME fn = "decrypt", fn' = "decrypt", packet' = packet, writer = "writable", writer' = "writable",
         Stream!IsPrefix(output, output'), packet.early \/ Stream!IsPrefix(output', packet.plain)
  PROVE  [Stream!Next]_(Stream!vars)
<1>1. Reader = output /\ Reader' = output' /\ Status = "open" /\ Status' = "open"
  BY DEF Reader, Status
<1>2. /\ Stream!IsPrefix(Reader, Reader')
      /\ packet.early \/ Stream!IsPrefix(Reader', packet.plain)
  BY <1>1
<1>3. Stream!Release
  BY <1>1, <1>2, StreamSteps
<1> QED BY <1>3 DEF Stream!Next

LEMMA StepCloses ==
  ASSUME fn = "decrypt", fn' = "decrypt", packet' = packet, writer = "writable", writer' = "closed",
         Stream!IsPrefix(output, output'), output' = packet.plain
  PROVE  [Stream!Next]_(Stream!vars)
<1>1. Reader = output /\ Reader' = output' /\ Status = "open" /\ Status' = "closed"
  BY DEF Reader, Status
<1>2. Stream!IsPrefix(Reader, Reader') /\ Reader' = packet.plain
  BY <1>1
<1>3. Stream!Close
  BY <1>1, <1>2, StreamSteps
<1> QED BY <1>3 DEF Stream!Next

LEMMA StepOpens ==
  ASSUME Types, Deliver
  PROVE  [Stream!Next]_(Stream!vars)
<1>1. fn = "encrypt" /\ writer = "closed" /\ fn' = "decrypt" /\ writer' = "writable" /\ output' = <<>>
  BY DEF Deliver
<1>2. packet'.plain = packet.plain /\ packet'.early = packet.early
  BY DeliverFields
<1>3. Reader = <<>> /\ Reader' = <<>> /\ Status = "idle" /\ Status' = "open"
  BY <1>1 DEF Reader, Status
<1>4. Stream!Open
  BY <1>2, <1>3, StreamSteps
<1> QED BY <1>4 DEF Stream!Next

LEMMA StepWhole ==
  ASSUME Types, Shape, Whole, Sed, fn = "decrypt", ReleaseSEIP \/ FinishSEIP \/ CryptSED
  PROVE  [Stream!Next]_(Stream!vars)
<1>0. /\ fn' = "decrypt" /\ packet' = packet /\ output \in Seq(Byte)
      /\ ~CryptSED => packet.kind = "seip" /\ loop = "seip"
  <2>1. fn' = "decrypt" /\ packet' = packet
    BY DEF ReleaseSEIP, FinishSEIP, CryptSED
  <2>2. output \in Seq(Byte)
    BY DEF Types
  <2>3. ~CryptSED => packet.kind = "seip" /\ loop = "seip"
    BY DEF ReleaseSEIP, FinishSEIP, Shape, Types
  <2> QED BY <2>1, <2>2, <2>3
<1>1. fn' = "decrypt" /\ packet' = packet /\ output \in Seq(Byte) /\ (~CryptSED => PacketBytes \in Seq(Byte))
  <2>1. ~CryptSED => Len(sealed) = 1
    BY <1>0 DEF Whole
  <2> QED BY <1>0, <2>1, DecryptedTypes
<1>2. CASE CryptSED
  <2>1. packet.kind = "sed" /\ writer = "writable" /\ writer' = "errored" /\ output' = output
    BY <1>2 DEF CryptSED, Shape, Sed, Types
  <2> QED BY <1>1, <2>1, StepFails
<1>3. CASE ReleaseSEIP /\ ~CryptSED
  <2>1. /\ packet.kind = "seip" /\ loop = "seip" /\ packet.early /\ writer' = writer
        /\ output' = Append(output, PacketBytes[Len(output) + 1])
        /\ Len(output) < Len(PacketBytes)
    BY <1>3 DEF ReleaseSEIP, Unauthenticated, Shape, Types
  <2>2. writer = "writable"
    BY <2>1 DEF Whole
  <2>0. PacketBytes \in Seq(Byte) /\ output \in Seq(Byte)
    BY <1>1, <1>3
  <2>3. PacketBytes[Len(output) + 1] \in Byte
    <3>1. Len(output) \in Nat /\ Len(PacketBytes) \in Nat
      BY <2>0
    <3>2. Len(output) + 1 \in 1..Len(PacketBytes)
      BY <2>1, <3>1
    <3> QED BY <2>0, <3>2
  <2>4. \A b \in Byte : Append(output, b) = output \o <<b>> /\ <<b>> \in Seq(Byte)
    BY <1>1
  <2>5. Stream!IsPrefix(output, output')
    BY <1>1, <2>1, <2>3, <2>4, PrefixFacts
  <2> QED BY <1>1, <2>1, <2>2, <2>5, StepReleases
<1>4. CASE FinishSEIP /\ ~CryptSED
  <2>1. packet.kind = "seip" /\ loop = "seip"
    BY <1>4 DEF FinishSEIP, Shape, Types
  <2>2. writer = "writable" /\ Len(sealed) = 1 /\ sealed[1].text = Prefix \o packet.plain \o MDC \o Hash
    BY <2>1 DEF Whole
  <2>3. CASE packet.upstream = "ends" /\ HashRight
    <3>1. output' = PacketBytes /\ writer' = "closed" /\ (Unauthenticated => output = PacketBytes)
      BY <1>4, <2>3 DEF FinishSEIP
    <3>2. PacketBytes = packet.plain
      BY <2>2, <2>3, HashMeansWhole
    <3>3. output = <<>> \/ output = PacketBytes
      BY <2>1, <3>1 DEF Whole
    <3>4. Stream!IsPrefix(output, output')
      BY <1>1, <1>4, <3>1, <3>3, PrefixFacts
    <3> QED BY <1>1, <2>2, <3>1, <3>2, <3>4, StepCloses
  <2>4. CASE ~(packet.upstream = "ends" /\ HashRight)
    <3>1. output' = output /\ writer' = "errored"
      BY <1>4, <2>4 DEF FinishSEIP
    <3> QED BY <1>1, <2>2, <3>1, StepFails
  <2> QED BY <2>3, <2>4
<1> QED BY <1>2, <1>3, <1>4

\* The reader takes what the chain wrote: the plaintext, up to some chunk.
LEMMA StepPull ==
  ASSUME Types, Types', Shape, Decrypting, Decrypting', fn = "decrypt", Pull
  PROVE  [Stream!Next]_(Stream!vars)
<1>1. /\ fn' = fn /\ packet' = packet /\ writer' = writer /\ output' = output \o fifo[1] /\ jobs # <<>>
      /\ writer = "writable" /\ packet.streaming /\ fifo = <<Head(jobs).bytes>>
  BY DEF Pull, Shape
<1>2. packet.kind = "aead"
  BY <1>1 DEF Shape
<1>3. output \in Seq(Byte) /\ output' \in Seq(Byte) /\ Head(jobs).bytes \in Seq(Byte) /\ output' = output \o Head(jobs).bytes
  <2>1. output \in Seq(Byte) /\ output' \in Seq(Byte) /\ Head(jobs) \in JobRec
    BY <1>1, HeadOfJobs DEF Types
  <2>2. Head(jobs).bytes \in Seq(Byte)
    BY <2>1 DEF JobRec
  <2> QED BY <1>1, <2>1, <2>2
<1>4. Stream!IsPrefix(output, output')
  BY <1>3, PrefixFacts
<1>5. PICK size \in SizeBytes : ReadSoFar(size)'
  BY <1>1, <1>2 DEF Decrypting
<1>6. output' = SubSeq(packet.plain, 1, Least(Gone' * 2 ^ size, PlainLength))
  BY <1>1, <1>5 DEF ReadSoFar, Written, PlainLength
<1>7. packet.plain \in Seq(Byte) /\ PlainLength = Len(packet.plain) /\ PlainLength \in Nat
  BY PacketFacts DEF PlainLength
<1>8. Least(Gone' * 2 ^ size, PlainLength) \in 0..PlainLength
  <2>1. 2 ^ size \in Nat
    BY PacketFacts
  <2>2. PICK g : g = Gone'
    OBVIOUS
  <2>3. g \in Nat
    BY <1>5, <2>2, SMTT(30) DEF ReadSoFar, Gone, Made, Types
  <2>4. g * 2 ^ size \in Nat
    BY <2>1, <2>3
  <2>5. \A a \in Nat : Least(a, PlainLength) \in 0..PlainLength
    BY <1>7 DEF Least
  <2> QED BY <2>2, <2>4, <2>5
<1>9. Stream!IsPrefix(output', packet.plain)
  BY <1>6, <1>7, <1>8, PrefixFacts
<1> QED BY <1>1, <1>4, <1>9, StepReleases

\* Closing the writer ends a stream that is whole.
LEMMA StepCloseWriter ==
  ASSUME Types, Shape, Decrypting, fn = "decrypt", CloseWriter
  PROVE  [Stream!Next]_(Stream!vars)
<1>1. /\ fn' = "decrypt" /\ packet' = packet /\ loop = "last" /\ jobs = <<>>
      /\ writer' = IF writer = "errored" THEN writer ELSE "closed"
      /\ output' = IF writer = "errored" THEN output ELSE output \o held
  BY DEF CloseWriter
<1>2. packet.kind = "aead" /\ writer \in {"writable", "errored"}
  BY <1>1 DEF Shape, Types
<1>3. CASE writer = "errored"
  BY <1>1, <1>3, StepUnseen
<1>4. CASE writer = "writable"
  <2>1. output \in Seq(Byte) /\ held \in Seq(Byte) /\ output' = output \o held /\ writer' = "closed"
    BY <1>1, <1>4 DEF Types
  <2>2. output' = Written
    BY <1>2, <1>4, <2>1, SMTT(60) DEF Shape, Written, Types
  <2>3. PICK size \in SizeBytes : AllSealed(size) /\ ReadSoFar(size)
    BY <1>2, <1>4 DEF Decrypting
  <2>4. PICK C \in Nat : Len(sealed) = C + 1 /\ PlainLength =< C * 2 ^ size
    BY <2>3, SealedFacts
  <2>5. Gone = C + 1
    BY <1>1, <2>3, <2>4 DEF ReadSoFar
  <2>6. 2 ^ size \in Nat \ {0} /\ PlainLength \in Nat /\ packet.plain \in Seq(Byte) /\ PlainLength = Len(packet.plain)
    BY PacketFacts DEF PlainLength
  <2>7. Least((C + 1) * 2 ^ size, PlainLength) = PlainLength
    <3>1. (C + 1) * 2 ^ size \in Nat /\ PlainLength =< (C + 1) * 2 ^ size
      <4>1. C * 2 ^ size \in Nat /\ (C + 1) * 2 ^ size = C * 2 ^ size + 2 ^ size
        BY <2>6, ChunkTimes
      <4> QED BY <2>4, <2>6, <4>1
    <3> QED BY <2>6, <3>1 DEF Least
  <2>8. Written = SubSeq(packet.plain, 1, PlainLength)
    BY <2>3, <2>5, <2>7 DEF ReadSoFar
  <2>9. output' = packet.plain
    BY <2>2, <2>6, <2>8
  <2>10. Stream!IsPrefix(output, output')
    BY <2>1, PrefixFacts
  <2> QED BY <1>1, <1>4, <2>1, <2>9, <2>10, StepCloses
<1> QED BY <1>2, <1>3, <1>4

LEMMA StreamStep ==
  ASSUME Types, IInv, (Types /\ IInv)', [Next]_vars
  PROVE  [Stream!Next]_(Stream!vars)
<1>0. Shape /\ Decrypting /\ Decrypting' /\ Whole /\ Sed /\ Types'
  BY DEF IInv
<1>1. CASE Deliver
  BY <1>1, StepOpens
<1>2. CASE ~Deliver
  <2>1. /\ UNCHANGED <<fn, packet>>
        /\ writer = "errored" => writer' = "errored" \/ ReleaseSEIP \/ FinishSEIP \/ EncryptSEIP \/ CryptSED
    BY <1>2 DEF Next, Work, Crypt, Chain, vars, pipeline, CryptChunk, CryptFinal, CryptThrows, Awaited, CloseWriter,
                WriteChunk, WriteArray, AbortWriter, Pull, EncryptSEIP, ReleaseSEIP, FinishSEIP, CryptSED
  <2>2. EncryptSEIP \/ CryptSED => writer = "writable"
    BY <1>0 DEF EncryptSEIP, CryptSED, Shape, Whole, Sed, Types
  <2>3. CASE fn = "encrypt"
    <3>1. ~ReleaseSEIP /\ ~FinishSEIP
      BY <2>3 DEF ReleaseSEIP, FinishSEIP
    <3> QED BY <2>1, <2>2, <2>3, <3>1, StepIdle
  <2>4. CASE fn = "decrypt"
    <3>1. ~EncryptSEIP
      BY <2>4 DEF EncryptSEIP
    <3>2. CASE ReleaseSEIP \/ FinishSEIP \/ CryptSED
      BY <1>0, <2>4, <3>2, StepWhole
    <3>3. CASE Pull
      BY <1>0, <2>4, <3>3, StepPull
    <3>4. CASE CloseWriter
      BY <1>0, <2>4, <3>4, StepCloseWriter
    <3>5. CASE CryptThrows \/ AbortWriter
      <4>1. writer' = "errored" /\ output' = output /\ writer \in {"writable", "errored"}
        BY <1>0, <3>5 DEF CryptThrows, AbortWriter, Shape, Types
      <4> QED BY <2>1, <2>4, <4>1, StepFails
    <3>6. CASE UNCHANGED vars \/ CryptChunk \/ CryptFinal \/ Awaited \/ WriteChunk \/ WriteArray
      <4>1. writer' = writer /\ output' = output
        BY <3>6 DEF vars, pipeline, CryptChunk, CryptFinal, Awaited, WriteChunk, WriteArray
      <4> QED BY <2>1, <4>1, StepUnseen
    <3> QED BY <1>2, <3>1, <3>2, <3>3, <3>4, <3>5, <3>6 DEF Next, Work, Crypt, Chain
  <2> QED BY <1>0, <2>3, <2>4 DEF Types
<1> QED BY <1>0, <1>1, <1>2

\* Decryption implements the safety part of AuthenticatedStream for every
\* message, chunk size and tag length, and whatever is cut, moved, repeated
\* or reheaded on the way: the reader is given a prefix of the plaintext,
\* and the stream ends only if it was given all of it.
THEOREM StreamSafe == Spec => StreamSafety
<1>1. Init => Stream!Init
  <2> SUFFICES ASSUME Init PROVE Stream!Init
    OBVIOUS
  <2>1. Reader = <<>> /\ Status = "idle"
    BY DEF Init, Reader, Status
  <2> QED BY <2>1, StreamSteps
<1>2. Types /\ IInv /\ (Types /\ IInv)' /\ [Next]_vars => [Stream!Next]_(Stream!vars)
  BY StreamStep
<1> QED BY <1>1, <1>2, InvariantHolds, PTL DEF Spec, StreamSafety, Stream!Safety

----------------------------------------------------------------------------
(* Backpressure: the bytes in the chain.                                   *)

\* The fold behind BytesOf is a running sum.
Adds(chain, n, sum) == \A k \in 1..n : sum[k] = sum[k - 1] + Len(chain[k].bytes)
Runs(chain, sum) == sum[0] = 0 /\ Adds(chain, Len(chain), sum)

\* The first n jobs of a are those of b after the first d.
Follow(a, b, n, d) == \A k \in 1..n : a[k] = b[k + d] /\ Len(a[k].bytes) \in Nat

LEMMA RunningSum ==
  ASSUME NEW chain \in Seq(JobRec)
  PROVE  \E sum \in [0..Len(chain) -> Nat] : Runs(chain, sum) /\ BytesOf(chain) = sum[Len(chain)]
<1> DEFINE D == DOMAIN chain
           n == Len(chain)
           h == [p \in D \X Nat |-> p[2] + Len(chain[p[1]].bytes)]
           c == [s \in SUBSET D |-> Max(s)]
<1>0. n \in Nat /\ D = 1..n
  OBVIOUS
<1>1. IsFiniteSet(D)
  BY <1>0, FS_Interval
<1>2. \A k \in D : Len(chain[k].bytes) \in Nat
  <2>1. \A k \in D : chain[k] \in JobRec
    OBVIOUS
  <2>2. \A k \in D : chain[k].bytes \in Seq(Byte)
    BY <2>1 DEF JobRec
  <2> QED BY <2>2
<1>3. h \in [D \X Nat -> Nat]
  <2>1. \A p \in D \X Nat : p[2] + Len(chain[p[1]].bytes) \in Nat
    BY <1>2
  <2> QED BY <2>1
<1>4. \A s \in SUBSET D : s # {} => c[s] \in s /\ c[s] = Max(s)
  BY <1>0, GreatestNumber
<1>5. \A k \in D, v \in Nat : h[<<k, v>>] = v + Len(chain[k].bytes)
  OBVIOUS
<1>6. D = DOMAIN chain
  OBVIOUS
<1> HIDE DEF D, h, c
<1>7. PICK iter \in [SUBSET D -> Nat] : Recursion(iter, 0, D, c, h)
  BY <1>1, <1>3, <1>4, FoldExists
<1> DEFINE Def(f) == [s \in SUBSET DOMAIN chain |->
                        IF s = {} THEN 0 ELSE f[s \ {Max(s)}] + Len(chain[Max(s)].bytes)]
<1>8. \E f : f = Def(f)
  <2>1. ASSUME NEW s \in SUBSET D PROVE iter[s] = Def(iter)[s]
    <3>1. iter[s] = IF s = {} THEN 0 ELSE h[<<c[s], iter[s \ {c[s]}]>>]
      BY <1>7 DEF Recursion
    <3>2. CASE s = {}
      BY <1>6, <3>1, <3>2
    <3>3. CASE s # {}
      <4>1. c[s] \in D /\ s \ {c[s]} \in SUBSET D /\ c[s] = Max(s)
        BY <1>4, <3>3
      <4>2. iter[s \ {c[s]}] \in Nat
        BY <1>7, <4>1
      <4>3. iter[s] = iter[s \ {Max(s)}] + Len(chain[Max(s)].bytes)
        BY <1>5, <3>1, <3>3, <4>1, <4>2
      <4> QED BY <1>6, <3>3, <4>3
    <3> QED BY <3>2, <3>3
  <2>2. iter = Def(iter)
    BY <1>7, <1>6, <2>1 DEF Recursion
  <2> QED BY <2>2
<1> DEFINE g == CHOOSE f : f = Def(f)
<1>9. g = Def(g)
  BY <1>8
<1>10. BytesOf(chain) = g[D]
  BY <1>6 DEF BytesOf, FoldLeft, MapThenFoldSet
<1>11. \A s \in SUBSET D : g[s] = IF s = {} THEN 0 ELSE g[s \ {Max(s)}] + Len(chain[Max(s)].bytes)
  BY <1>6, <1>9
<1> HIDE DEF g
<1> DEFINE sum == [k \in 0..n |-> g[1..k]]
<1>12. ASSUME NEW k \in 1..n PROVE g[1..k] = g[1..(k - 1)] + Len(chain[k].bytes)
  <2>1. k \in Nat /\ k > 0 /\ 1..k \in SUBSET D
    BY <1>0
  <2>2. Max(1..k) = k /\ (1..k) \ {Max(1..k)} = 1..(k - 1) /\ 1..k # {}
    BY <2>1, LastOfInterval
  <2> QED BY <1>11, <2>1, <2>2
<1>13. g[1..0] = 0
  <2>1. 1..0 = {}
    OBVIOUS
  <2> QED BY <1>11, <2>1
<1> DEFINE T == {k \in 0..n : g[1..k] \in Nat}
<1>14. \A k \in 0..n : k \in T
  <2>1. 0 \in T
    BY <1>0, <1>13
  <2>2. ASSUME NEW k \in 0..(n - 1), k \in T PROVE k + 1 \in T
    <3>1. k + 1 \in 1..n /\ (k + 1) - 1 = k /\ k + 1 \in 0..n /\ k + 1 \in D
      BY <1>0
    <3>2. g[1..(k + 1)] = g[1..k] + Len(chain[k + 1].bytes)
      BY <1>12, <3>1
    <3> QED BY <1>2, <2>2, <3>1, <3>2
  <2> HIDE DEF T
  <2> QED BY <1>0, <2>1, <2>2, BoundedInduction
<1>15. sum \in [0..n -> Nat] /\ \A k \in 0..n : sum[k] = g[1..k]
  BY <1>14
<1> HIDE DEF sum
<1>16. Runs(chain, sum)
  <2>1. \A k \in 1..n : k \in 0..n /\ k - 1 \in 0..n
    BY <1>0
  <2>2. 0 \in 0..n
    BY <1>0
  <2> QED BY <1>12, <1>13, <1>15, <2>1, <2>2 DEF Runs, Adds
<1>17. BytesOf(chain) = sum[n]
  <2>1. n \in 0..n
    BY <1>0
  <2> QED BY <1>0, <1>10, <1>15, <2>1
<1> QED BY <1>15, <1>16, <1>17

\* Running sums of the same jobs, but for those before the first, differ by
\* what those before add.
LEMMA SameSum ==
  ASSUME NEW n \in Nat, NEW d \in Nat, NEW a, NEW b,
         NEW f \in [0..n -> Nat], NEW g \in [0..(n + d) -> Nat],
         Adds(a, n, f), Adds(b, n + d, g), Follow(a, b, n, d)
  PROVE  f[n] - f[0] = g[n + d] - g[d]
<1> DEFINE T == {k \in 0..n : f[k] - f[0] = g[k + d] - g[d]}
<1>1. 0 \in T
  <2>1. 0 \in 0..n /\ d \in 0..(n + d) /\ 0 + d = d
    OBVIOUS
  <2>2. f[0] \in Nat /\ g[d] \in Nat
    BY <2>1
  <2> QED BY <2>1, <2>2
<1>2. ASSUME NEW k \in 0..(n - 1), k \in T PROVE k + 1 \in T
  <2>1. /\ k + 1 \in 1..n /\ k + 1 \in 0..n /\ (k + 1) - 1 = k /\ k \in 0..n
        /\ (k + 1) + d \in 1..(n + d) /\ ((k + 1) + d) - 1 = k + d
        /\ k + d \in 0..(n + d) /\ (k + 1) + d \in 0..(n + d) /\ 0 \in 0..n /\ d \in 0..(n + d)
    OBVIOUS
  <2>2. f[k + 1] = f[k] + Len(a[k + 1].bytes)
    BY <2>1 DEF Adds
  <2>3. g[(k + 1) + d] = g[k + d] + Len(a[k + 1].bytes)
    BY <2>1 DEF Adds, Follow
  <2> DEFINE l == Len(a[k + 1].bytes)
  <2>0. l \in Nat
    BY <2>1 DEF Follow
  <2>4. f[k] \in Nat /\ f[k + 1] \in Nat /\ f[0] \in Nat /\ g[d] \in Nat /\ g[k + d] \in Nat /\ g[(k + 1) + d] \in Nat
    BY <2>1
  <2>5. f[k] - f[0] = g[k + d] - g[d]
    BY <1>2
  <2>6. f[k + 1] - f[0] = g[(k + 1) + d] - g[d]
    <3>1. f[k + 1] = f[k] + l /\ g[(k + 1) + d] = g[k + d] + l
      BY <2>2, <2>3
    <3> DEFINE u == f[k]
               v == f[0]
               w == g[k + d]
               x == g[d]
    <3>2. u \in Nat /\ v \in Nat /\ w \in Nat /\ x \in Nat /\ u - v = w - x
      BY <2>4, <2>5
    <3> HIDE DEF l, u, v, w, x
    <3>3. (u + l) - v = (w + l) - x
      BY <2>0, <3>2
    <3>4. f[k + 1] = u + l /\ g[(k + 1) + d] = w + l
      BY <3>1 DEF u, w
    <3>5. f[k + 1] - v = g[(k + 1) + d] - x
      BY <3>3, <3>4
    <3> QED BY <3>5 DEF v, x
  <2> QED BY <2>1, <2>6
<1> HIDE DEF T
<1>3. n \in T
  <2>1. n \in 0..n
    OBVIOUS
  <2> QED BY <1>1, <1>2, <2>1, BoundedInduction
<1> QED BY <1>3 DEF T

LEMMA ChainEnds ==
  ASSUME NEW chain \in Seq(JobRec)
  PROVE  /\ BytesOf(chain) \in Nat
         /\ chain = <<>> => BytesOf(chain) = 0
         /\ \A i \in DOMAIN chain : Len(chain[i].bytes) \in Nat
<1>1. PICK sum \in [0..Len(chain) -> Nat] : Runs(chain, sum) /\ BytesOf(chain) = sum[Len(chain)]
  BY RunningSum
<1>2. Len(chain) \in 0..Len(chain)
  OBVIOUS
<1>3. \A i \in DOMAIN chain : Len(chain[i].bytes) \in Nat
  <2>1. \A i \in DOMAIN chain : chain[i] \in JobRec
    OBVIOUS
  <2> QED BY <2>1 DEF JobRec
<1> QED BY <1>1, <1>2, <1>3 DEF Runs

LEMMA BytesAppended ==
  ASSUME NEW chain \in Seq(JobRec), NEW job \in JobRec
  PROVE  BytesOf(Append(chain, job)) = BytesOf(chain) + Len(job.bytes) /\ Len(job.bytes) \in Nat
<1> DEFINE longer == Append(chain, job)
           n == Len(chain)
<1>1. /\ longer \in Seq(JobRec) /\ Len(longer) = n + 1 /\ longer[n + 1] = job /\ n \in Nat
      /\ \A k \in 1..n : longer[k] = chain[k]
  BY AppendProperties
<1>2. Follow(chain, longer, n, 0)
  BY <1>1, ChainEnds DEF Follow
<1>3. Len(job.bytes) \in Nat
  BY DEF JobRec
<1> HIDE DEF longer
<1>4. PICK f \in [0..n -> Nat] : Runs(chain, f) /\ BytesOf(chain) = f[n]
  BY RunningSum
<1>5. PICK g \in [0..Len(longer) -> Nat] : Runs(longer, g) /\ BytesOf(longer) = g[Len(longer)]
  BY <1>1, RunningSum
<1>6. g[n + 1] = g[n] + Len(job.bytes)
  <2>1. n + 1 \in 1..Len(longer) /\ (n + 1) - 1 = n
    BY <1>1
  <2> QED BY <1>1, <1>5, <2>1 DEF Runs, Adds
<1> DEFINE short == [k \in 0..(n + 0) |-> g[k]]
<1>7. /\ short \in [0..(n + 0) -> Nat] /\ short[0] = 0 /\ short[n + 0] = g[n]
      /\ Adds(longer, n + 0, short)
  <2>1. \A k \in 0..(n + 0) : k \in 0..Len(longer)
    BY <1>1
  <2>2. \A k \in 1..(n + 0) : k \in 0..(n + 0) /\ k - 1 \in 0..(n + 0) /\ k \in 1..Len(longer)
    BY <1>1
  <2>3. 0 \in 0..(n + 0) /\ n + 0 \in 0..(n + 0) /\ n + 0 = n
    BY <1>1
  <2> QED BY <1>5, <2>1, <2>2, <2>3 DEF Runs, Adds
<1> HIDE DEF short
<1>8. f[n] - f[0] = short[n + 0] - short[0]
  <2>1. Adds(chain, n, f)
    BY <1>4 DEF Runs
  <2>2. 0 \in Nat /\ n \in Nat
    BY <1>1
  <2> HIDE DEF n
  <2> QED BY <1>2, <1>4, <1>7, <2>1, <2>2, SameSum
<1>9. f[0] = 0 /\ f[n] \in Nat /\ g[n] \in Nat
  <2>1. n \in 0..n /\ n \in 0..Len(longer)
    BY <1>1
  <2> QED BY <1>4, <1>5, <2>1 DEF Runs
<1> HIDE DEF n
<1> QED BY <1>1, <1>3, <1>4, <1>5, <1>6, <1>7, <1>8, <1>9 DEF longer

LEMMA BytesTaken ==
  ASSUME Types, jobs # <<>>
  PROVE  BytesOf(jobs) = Len(Head(jobs).bytes) + BytesOf(Tail(jobs)) /\ Len(Head(jobs).bytes) \in Nat
<1> DEFINE rest == Tail(jobs)
           n == Len(rest)
<1>1. /\ jobs \in Seq(JobRec) /\ rest \in Seq(JobRec) /\ n \in Nat /\ Len(jobs) = n + 1
      /\ \A k \in 1..n : rest[k] = jobs[k + 1]
      /\ Head(jobs) = jobs[1]
  BY HeadOfJobs DEF Types
<1>2. Follow(rest, jobs, n, 1)
  BY <1>1, ChainEnds DEF Follow
<1>3. Len(jobs[1].bytes) \in Nat
  <2>1. 1 \in DOMAIN jobs
    BY <1>1
  <2> QED BY <1>1, <2>1, ChainEnds
<1> HIDE DEF rest
<1>4. PICK f \in [0..n -> Nat] : Runs(rest, f) /\ BytesOf(rest) = f[n]
  BY <1>1, RunningSum
<1>5. PICK g \in [0..(n + 1) -> Nat] : Runs(jobs, g) /\ BytesOf(jobs) = g[n + 1]
  BY <1>1, RunningSum
<1>6. f[n] - f[0] = g[n + 1] - g[1]
  <2>1. Adds(rest, n, f)
    BY <1>4 DEF Runs
  <2>2. Adds(jobs, n + 1, g)
    BY <1>1, <1>5 DEF Runs
  <2> HIDE DEF n
  <2> QED BY <1>1, <1>2, <1>4, <1>5, <2>1, <2>2, SameSum
<1>7. f[0] = 0 /\ g[1] = Len(jobs[1].bytes) /\ f[n] \in Nat /\ g[n + 1] \in Nat
  <2>1. 1 \in 1..Len(jobs) /\ 1 - 1 = 0 /\ n \in 0..n /\ n + 1 \in 0..(n + 1)
    BY <1>1
  <2> QED BY <1>3, <1>4, <1>5, <2>1, SMTT(30) DEF Runs, Adds
<1> QED BY <1>1, <1>3, <1>4, <1>5, <1>6, <1>7 DEF rest

\* The pieces that one turn of the loop makes when it decrypts: with a tag or
\* less left, the chunk is shorter than a tag.
LEMMA DecryptPieces ==
  ASSUME Types, fn = "decrypt"
  PROVE  /\ Len(Chunk) \in Nat /\ Len(FinalChunk) \in Nat /\ Len(FinalChunk) =< TagLength
         /\ Len(Chunk) =< ChunkSize + TagLength
         /\ Len(input) =< TagLength => Len(Chunk) < TagLength /\ Rest = <<>>
         /\ Len(Chunk) < TagLength => Rest = <<>>
<1>0. input \in Seq(Byte) /\ ChunkSize \in Nat \ {0} /\ TagLength \in Nat \ {0} /\ TagIfDecrypting = TagLength
  BY PacketFacts DEF Types, TagIfDecrypting
<1>1. PICK l \in Nat : l = Len(input)
  BY <1>0
<1> DEFINE w == Least(Wanted, Len(input))
<1>2. w \in Nat /\ w =< l /\ w =< ChunkSize + TagLength + TagLength
      /\ (w = l \/ w = ChunkSize + TagLength + TagLength)
  BY <1>0, <1>1 DEF Wanted, Least
<1>3. Taken \in Seq(Byte) /\ Len(Taken) = w
  <2> HIDE DEF w
  <2>1. SubSeq(input, 1, w) \in Seq(Byte) /\ Len(SubSeq(input, 1, w)) = w
    BY <1>0, <1>1, <1>2
  <2> QED BY <2>1 DEF Taken, w
<1>4. w = l => Rest = <<>>
  <2>1. SubSeq(input, l + 1, l) = <<>>
    BY <1>0, <1>1
  <2> QED BY <1>1, <2>1 DEF Rest
<1> HIDE DEF w
\* Where the chunk ends: subarray counts from the end when there is no tag.
<1> DEFINE e == IF w < TagLength THEN IF w + (w - TagLength) < 0 THEN 0 ELSE w + (w - TagLength)
                ELSE w - TagLength
<1>5. e \in Nat /\ e =< w /\ w - e =< TagLength /\ (w < TagLength => e < TagLength)
      /\ (w >= TagLength => e = w - TagLength)
  BY <1>0, <1>2
<1>6. Chunk = SubSeq(Taken, 1, e) /\ FinalChunk = SubSeq(Taken, e + 1, w)
  BY <1>0, <1>2, <1>3 DEF Chunk, FinalChunk, Subarray, Least
<1> HIDE DEF e
<1>7. Len(Chunk) = e /\ Len(FinalChunk) = w - e
  BY <1>3, <1>2, <1>5, <1>6
<1>8. Len(Chunk) < TagLength => w = l
  BY <1>0, <1>1, <1>2, <1>5, <1>7
<1>9. l =< TagLength => Len(Chunk) < TagLength
  BY <1>0, <1>1, <1>2, <1>5, <1>7
<1> QED BY <1>0, <1>1, <1>2, <1>4, <1>5, <1>7, <1>8, <1>9

\* What a text adds to the chain when it is opened, and when it is sealed.
LEMMA OpenedLength ==
  ASSUME Types, fn = "decrypt", NEW text \in Seq(Byte), NEW adata
  PROVE  LET n == Len(Job(text, adata).bytes) IN n = 0 \/ (n = Len(text) - TagLength /\ n \in Nat)
<1> DEFINE found == Opening(text, adata)
           j == CHOOSE j \in found : TRUE
<1>1. CASE found = {}
  BY <1>1 DEF Job
<1>2. CASE found # {}
  <2>1. j \in found /\ Job(text, adata).bytes = sealed[j].text
    BY <1>2 DEF Job
  <2>2. j \in DOMAIN sealed /\ text = Bytes(j, Len(sealed[j].text) + TagLength)
    BY <2>1 DEF Opening
  <2> HIDE DEF j
  <2>3. sealed[j].text \in Seq(Byte)
    <3>1. sealed[j] \in SealRec
      BY <2>2 DEF Types
    <3> QED BY <3>1 DEF SealRec
  <2>4. PICK n \in Nat : n = Len(sealed[j].text)
    BY <2>3
  <2>5. TagLength \in Nat
    BY PacketFacts
  <2>6. Len(Bytes(j, n + TagLength)) = n + TagLength
    BY <2>4, <2>5 DEF Bytes
  <2> QED BY <2>1, <2>2, <2>4, <2>5, <2>6
<1> QED BY <1>1, <1>2

LEMMA SealedLength ==
  ASSUME Types, fn = "encrypt", NEW text \in Seq(Byte), NEW adata
  PROVE  Len(Job(text, adata).bytes) = Len(text) + TagLength
<1>1. Job(text, adata).bytes = Bytes(Len(sealed) + 1, Len(text) + TagLength)
  BY DEF Job
<1>2. Len(text) + TagLength \in Nat
  BY PacketFacts
<1> QED BY <1>1, <1>2 DEF Bytes

LEMMA MarkFacts ==
  ASSUME Types
  PROVE  HighWaterMark \in Nat /\ ChunkSize \in Nat /\ TagLength \in Nat \ {0}
<1>1. ChunkSize \in Nat /\ TagLength \in Nat \ {0} /\ Concurrency \in Nat
  BY PacketFacts, EncryptedDataAssumption
<1> QED BY <1>1 DEF HighWaterMark

\* A turn of the loop puts at most one chunk and its tag on the chain, and
\* counts at least what it puts there as long as there is more than a tag.
LEMMA LoopQueues ==
  ASSUME Types, Shape, QueueRight, packet.streaming, CryptChunk \/ CryptFinal
  PROVE  QueueRight'
<1>0. /\ HighWaterMark \in Nat /\ ChunkSize \in Nat /\ TagLength \in Nat \ {0}
      /\ queuedBytes \in Int /\ jobs \in Seq(JobRec) /\ Len(input) \in Nat
  BY MarkFacts DEF Types
<1>1. loop = "read" /\ UNCHANGED <<packet, fn>>
  BY DEF CryptChunk, CryptFinal
<1>2. HighWaterMark' = HighWaterMark /\ ChunkSize' = ChunkSize
  BY <1>1 DEF HighWaterMark, ChunkSize
<1>3. PICK sum \in Nat : /\ sum = BytesOf(jobs) /\ sum =< HighWaterMark
                         /\ sum =< queuedBytes \/ (fn = "decrypt" /\ Len(input) =< TagLength)
  <2>1. BytesOf(jobs) \in Nat
    BY <1>0, ChainEnds
  <2>2. /\ BytesOf(jobs) =< HighWaterMark
        /\ BytesOf(jobs) =< queuedBytes \/ (fn = "decrypt" /\ Len(input) =< TagLength)
    BY <1>1 DEF QueueRight
  <2> QED BY <2>1, <2>2
<1>4. Chunk \in Seq(Byte) /\ FinalChunk \in Seq(Byte) /\ Rest \in Seq(Byte)
  BY ReadPieces
<1>5. fn \in {"encrypt", "decrypt"}
  BY DEF Types
<1>6. CASE CryptChunk
  <2> DEFINE job == Job(Chunk, AData)
             more == Len(job.bytes)
             c == Len(Chunk)
  <2>1. job \in JobRec
    BY <1>4, <1>6, ADataTypes, JobType DEF CryptChunk
  <2>2. more \in Nat /\ BytesOf(jobs') = sum + more
    BY <1>0, <1>3, <1>6, <2>1, BytesAppended DEF CryptChunk
  <2>3. queuedBytes' = queuedBytes + c - TagIfDecrypting + TagIfEncrypting
        /\ (loop' = "read" => ~Backpressure(queuedBytes')) /\ input' = FinalChunk \o Rest
    BY <1>6 DEF CryptChunk
  <2>4. c \in Nat
    BY <1>4
  <2>5. loop' = "read" => queuedBytes' =< HighWaterMark
    <3>1. InFifo \in Nat
      <4>1. fifo # <<>> => jobs # <<>> /\ fifo[1] = Head(jobs).bytes
        BY DEF Shape
      <4>2. fifo # <<>> => Len(fifo[1]) \in Nat
        BY <4>1, HeadOfJobs
      <4> QED BY <4>2 DEF InFifo
    <3>2. queuedBytes' \in Int
      BY <1>0, <2>3, <2>4, PacketFacts
    <3> QED BY <1>0, <2>3, <3>1, <3>2 DEF Backpressure
  <2>6. CASE fn = "encrypt"
    <3>1. more = c + TagLength /\ queuedBytes' = queuedBytes + c + TagLength
      BY <1>0, <1>4, <2>3, <2>4, <2>6, SealedLength DEF TagIfDecrypting, TagIfEncrypting
    <3>2. c =< ChunkSize
      <4>1. Chunk = SubSeq(input, 1, Least(ChunkSize, Len(input))) /\ input \in Seq(Byte)
        BY <2>6, ReadPieces DEF Types
      <4>2. PICK n \in Nat : n = Least(ChunkSize, Len(input)) /\ n =< ChunkSize /\ n =< Len(input)
        BY <1>0 DEF Least
      <4>3. Len(SubSeq(input, 1, n)) = n
        BY <4>1, <4>2
      <4> QED BY <4>1, <4>2, <4>3
    <3> HIDE DEF c, more, job
    <3>3. sum + more =< queuedBytes' /\ sum + more =< HighWaterMark + ChunkSize + TagLength
      BY <1>0, <1>3, <2>4, <2>6, <3>1, <3>2
    <3> QED BY <1>0, <1>2, <2>2, <2>5, <2>4, <3>1, <3>3 DEF QueueRight, PipelineBounded
  <2>7. CASE fn = "decrypt"
    <3>1. more = 0 \/ more = c - TagLength
      BY <1>4, <2>7, OpenedLength
    <3>2. queuedBytes' = queuedBytes + c - TagLength
      BY <1>0, <2>3, <2>4, <2>7 DEF TagIfDecrypting, TagIfEncrypting
    <3>3. /\ Len(FinalChunk) \in Nat /\ Len(FinalChunk) =< TagLength /\ c =< ChunkSize + TagLength
          /\ (Len(input) =< TagLength => c < TagLength /\ Rest = <<>>)
          /\ (c < TagLength => Rest = <<>>)
      BY <2>7, DecryptPieces
    <3>4. Rest = <<>> => Len(input') =< TagLength
      BY <1>4, <2>3, <3>3
    <3> HIDE DEF c, more, job
    <3>5. CASE c < TagLength
      <4>1. more = 0 /\ Len(input') =< TagLength
        BY <1>0, <2>2, <2>4, <3>1, <3>3, <3>4, <3>5
      <4> QED BY <1>0, <1>1, <1>2, <1>3, <2>2, <2>7, <4>1 DEF QueueRight, PipelineBounded
    <3>6. CASE c >= TagLength
      <4>1. sum =< queuedBytes
        BY <1>0, <1>3, <2>4, <3>3, <3>6
      <4>2. sum + more =< queuedBytes' /\ sum + more =< HighWaterMark + ChunkSize + TagLength
        <5>1. more =< c - TagLength /\ more =< ChunkSize
          BY <1>0, <2>2, <2>4, <3>1, <3>3, <3>6
        <5>2. sum + more =< queuedBytes'
          BY <1>0, <2>2, <2>4, <3>2, <4>1, <5>1
        <5>3. sum + more =< HighWaterMark + ChunkSize + TagLength
          BY <1>0, <1>3, <2>2, <5>1
        <5> QED BY <5>2, <5>3
      <4> QED BY <1>0, <1>2, <2>2, <2>4, <2>5, <3>2, <4>2 DEF QueueRight, PipelineBounded
    <3> QED BY <1>0, <2>4, <3>5, <3>6
  <2> QED BY <1>5, <2>6, <2>7
<1>7. CASE CryptFinal
  <2> DEFINE job == Job(FinalChunk, ADataTag)
             more == Len(job.bytes)
  <2>1. job \in JobRec
    BY <1>4, <1>7, ADataTypes, JobType DEF CryptFinal
  <2>2. more \in Nat /\ BytesOf(jobs') = sum + more
    BY <1>0, <1>3, <1>7, <2>1, BytesAppended DEF CryptFinal
  <2>3. queuedBytes' = queuedBytes + TagIfEncrypting /\ loop' = "last" /\ input' = Rest
    BY <1>7 DEF CryptFinal
  <2>4. CASE fn = "encrypt"
    <3>1. more = TagLength /\ queuedBytes' = queuedBytes + TagLength
      <4>1. Len(FinalChunk) = 0
        BY <2>4, ReadPieces
      <4>2. more = Len(FinalChunk) + TagLength
        BY <1>4, <2>4, SealedLength
      <4> HIDE DEF more, job
      <4> QED BY <1>0, <2>3, <2>4, <4>1, <4>2 DEF TagIfEncrypting
    <3> HIDE DEF more, job
    <3> QED BY <1>0, <1>2, <1>3, <2>2, <2>3, <2>4, <3>1 DEF QueueRight, PipelineBounded
  <2>5. CASE fn = "decrypt"
    <3>1. more = 0
      <4>1. Len(FinalChunk) \in Nat /\ Len(FinalChunk) =< TagLength
        BY <2>5, DecryptPieces
      <4>2. more = 0 \/ more = Len(FinalChunk) - TagLength
        BY <1>4, <2>5, OpenedLength
      <4> HIDE DEF more
      <4> QED BY <1>0, <2>2, <4>1, <4>2
    <3>2. queuedBytes' = queuedBytes
      BY <1>0, <2>3, <2>5 DEF TagIfEncrypting
    <3>3. Len(input) =< TagLength => Len(input') =< TagLength
      BY <1>0, <2>3, <2>5, DecryptPieces
    <3> HIDE DEF more, job
    <3> QED BY <1>0, <1>1, <1>2, <1>3, <2>2, <2>3, <2>5, <3>1, <3>2, <3>3 DEF QueueRight, PipelineBounded
  <2> QED BY <1>5, <2>4, <2>5
<1> QED BY <1>6, <1>7

LEMMA QueueStep ==
  ASSUME Types, Types', Shape, QueueRight, [Next]_vars
  PROVE  QueueRight'
<1>0. /\ HighWaterMark \in Nat /\ ChunkSize \in Nat /\ TagLength \in Nat \ {0}
      /\ queuedBytes \in Int /\ jobs \in Seq(JobRec)
  BY MarkFacts DEF Types
<1>1. CASE CryptChunk \/ CryptFinal
  <2>1. packet' = packet
    BY <1>1 DEF CryptChunk, CryptFinal
  <2>2. ~packet.streaming => QueueRight'
    BY <2>1 DEF QueueRight
  <2> QED BY <1>1, <2>2, LoopQueues
<1>2. CASE Deliver
  <2>1. jobs' = <<>> /\ queuedBytes' = 0
    BY <1>2 DEF Deliver
  <2>2. BytesOf(jobs') = 0
    <3>1. <<>> \in Seq(JobRec)
      OBVIOUS
    <3> QED BY <2>1, <3>1, ChainEnds
  <2>3. HighWaterMark' \in Nat /\ ChunkSize' \in Nat
    <3>1. ChunkSize' \in Nat /\ Concurrency \in Nat
      <4>1. packet'.chunkSizeByte \in SizeBytes
        BY DEF Types
      <4> QED BY <4>1, EncryptedDataAssumption, PowerPositive DEF ChunkSize
    <3>2. HighWaterMark' = Concurrency * ChunkSize'
      BY DEF HighWaterMark
    <3>3. PICK m \in Nat : m = ChunkSize'
      BY <3>1
    <3>4. Concurrency * m \in Nat
      BY <3>1
    <3> QED BY <3>1, <3>2, <3>3, <3>4
  <2> QED BY <1>0, <2>1, <2>2, <2>3 DEF QueueRight, PipelineBounded
<1>3. CASE AbortWriter \/ Pull \/ WriteArray
  <2>1. /\ jobs # <<>> /\ jobs' = Tail(jobs) /\ UNCHANGED <<packet, fn, loop, input>>
        /\ (packet.streaming => queuedBytes' = queuedBytes \/ queuedBytes' = queuedBytes - Len(Head(jobs).bytes))
    <3>1. fifo # <<>> => jobs # <<>> /\ fifo[1] = Head(jobs).bytes
      BY DEF Shape
    <3> QED BY <1>3, <3>1 DEF AbortWriter, Pull, WriteArray, Resolves
  <2>2. PICK l \in Nat, rest \in Nat : /\ l = Len(Head(jobs).bytes) /\ rest = BytesOf(Tail(jobs))
                                       /\ BytesOf(jobs) = l + rest
    BY <2>1, BytesTaken, HeadOfJobs, ChainEnds
  <2>3. HighWaterMark' = HighWaterMark /\ ChunkSize' = ChunkSize /\ BytesOf(jobs') = rest
    BY <2>1, <2>2 DEF HighWaterMark, ChunkSize
  <2> SUFFICES ASSUME packet.streaming PROVE QueueRight'
    BY <2>1 DEF QueueRight
  <2>4. /\ l + rest =< HighWaterMark + ChunkSize + TagLength
        /\ loop = "read" => l + rest =< HighWaterMark
        /\ l + rest =< queuedBytes \/ (fn = "decrypt" /\ Len(input) =< TagLength)
    BY <2>2 DEF QueueRight, PipelineBounded
  <2>5. queuedBytes' = queuedBytes \/ queuedBytes' = queuedBytes - l
    BY <2>1, <2>2
  <2>6. /\ rest =< HighWaterMark + ChunkSize + TagLength
        /\ loop' = "read" => rest =< HighWaterMark
        /\ rest =< queuedBytes' \/ (fn' = "decrypt" /\ Len(input') =< TagLength)
    BY <1>0, <2>1, <2>4, <2>5
  <2> QED BY <2>3, <2>6 DEF QueueRight, PipelineBounded
<1>4. CASE Awaited
  <2>1. jobs = <<>> /\ UNCHANGED <<packet, fn, jobs, input, queuedBytes>>
    BY <1>4 DEF Awaited
  <2>2. BytesOf(jobs) = 0
    BY <1>0, <2>1, ChainEnds
  <2>3. HighWaterMark' = HighWaterMark /\ ChunkSize' = ChunkSize /\ BytesOf(jobs') = 0
    BY <2>1, <2>2 DEF HighWaterMark, ChunkSize
  <2> QED BY <1>0, <2>1, <2>2, <2>3 DEF QueueRight, PipelineBounded
<1>5. CASE \/ CryptThrows \/ CloseWriter \/ WriteChunk \/ EncryptSEIP \/ ReleaseSEIP \/ FinishSEIP \/ CryptSED
           \/ UNCHANGED vars
  <2>1. UNCHANGED <<packet, fn, jobs, input, queuedBytes>> /\ (loop' = "read" => loop = "read")
    BY <1>5 DEF CryptThrows, CloseWriter, WriteChunk, EncryptSEIP, ReleaseSEIP, FinishSEIP, CryptSED, vars, pipeline
  <2>2. HighWaterMark' = HighWaterMark /\ ChunkSize' = ChunkSize /\ BytesOf(jobs') = BytesOf(jobs)
    BY <2>1 DEF HighWaterMark, ChunkSize
  <2> QED BY <2>1, <2>2 DEF QueueRight, PipelineBounded
<1> QED BY <1>1, <1>2, <1>3, <1>4, <1>5 DEF Next, Work, Crypt, Chain

\* The bytes in the chain stay below the high-water mark and a chunk, however
\* slow the reader is, for messages, chunks and tags of any length, in both
\* directions and with chunks that do not open: crypt() counts them right.
THEOREM QueueStaysBounded == Spec => []PipelineBounded
<1>1. Init => QueueRight
  <2> SUFFICES ASSUME Init PROVE QueueRight
    OBVIOUS
  <2>1. jobs = <<>> /\ queuedBytes = 0
    BY DEF Init
  <2>2. BytesOf(jobs) = 0
    <3>1. jobs \in Seq(JobRec)
      BY <2>1
    <3> QED BY <2>1, <3>1, ChainEnds
  <2>3. HighWaterMark \in Nat /\ ChunkSize \in Nat /\ TagLength \in Nat
    BY InitInvariant, MarkFacts
  <2> QED BY <2>1, <2>2, <2>3 DEF QueueRight, PipelineBounded
<1>2. (Types /\ IInv) /\ (Types /\ IInv)' /\ QueueRight /\ [Next]_vars => QueueRight'
  BY QueueStep DEF IInv
<1>3. QueueRight => PipelineBounded
  BY DEF QueueRight, PipelineBounded
<1> QED BY <1>1, <1>2, <1>3, InvariantHolds, PTL DEF Spec
============================================================================
