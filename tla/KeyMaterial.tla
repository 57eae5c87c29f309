---------------------------- MODULE KeyMaterial ----------------------------
(***************************************************************************)
(* The algorithm-specific part of key, session key and signature packets   *)
(* (crypto/crypto.js, crypto/signature.js, type/): which parameters an     *)
(* algorithm has, in which order, and how each is written and read.        *)
(* A parameter is its bytes; KDF parameters are <<hash, cipher>>, and the  *)
(* symmetric key of X25519 is its algorithm, 0 for none, before its bytes. *)
(***************************************************************************)
EXTENDS ByteStrings

(* enums.publicKey                                                         *)
RSA == {1, 2, 3}
elgamal == 16
dsa == 17
ecdh == 18
ecdsa == 19
eddsaLegacy == 22
x25519 == 25
ed25519 == 27
EncryptionAlgorithms == {1, 2, elgamal, ecdh, x25519}
SigningAlgorithms == RSA \cup {dsa, ecdsa, eddsaLegacy, ed25519}

(* The curves with the lengths of a coordinate or a seed.                  *)
Curves ==
    {[oid |-> <<42, 134, 72, 206, 61, 3, 1, 7>>, payloadSize |-> 32],
     [oid |-> <<43, 129, 4, 0, 34>>, payloadSize |-> 48],
     [oid |-> <<43, 129, 4, 0, 35>>, payloadSize |-> 66],
     [oid |-> <<43, 129, 4, 0, 10>>, payloadSize |-> 32],
     [oid |-> <<43, 6, 1, 4, 1, 218, 71, 15, 1>>, payloadSize |-> 32],
     [oid |-> <<43, 6, 1, 4, 1, 151, 85, 1, 5, 1>>, payloadSize |-> 32],
     [oid |-> <<43, 36, 3, 3, 2, 8, 1, 1, 7>>, payloadSize |-> 32],
     [oid |-> <<43, 36, 3, 3, 2, 8, 1, 1, 11>>, payloadSize |-> 48],
     [oid |-> <<43, 36, 3, 3, 2, 8, 1, 1, 13>>, payloadSize |-> 64]}
SupportedCurve(oid) == \E c \in Curves : c.oid = oid
payloadSize(oid) == (CHOOSE c \in Curves : c.oid = oid).payloadSize

(***************************************************************************)
(* Layouts: a sequence of fields for every algorithm.                      *)
(***************************************************************************)
MPI == [kind |-> "mpi", size |-> 0]
Padded(n) == [kind |-> "padded", size |-> n]
Raw(n) == [kind |-> "raw", size |-> n]
Oid == [kind |-> "oid", size |-> 0]
Counted == [kind |-> "counted", size |-> 0]
Kdf == [kind |-> "kdf", size |-> 0]
XKey == [kind |-> "xkey", size |-> 0]

PublicLayout(algo) ==
    CASE algo \in RSA -> <<MPI, MPI>>
      [] algo = dsa -> <<MPI, MPI, MPI, MPI>>
      [] algo = elgamal -> <<MPI, MPI, MPI>>
      [] algo = ecdsa -> <<Oid, MPI>>
      [] algo = eddsaLegacy -> <<Oid, Padded(33)>>
      [] algo = ecdh -> <<Oid, MPI, Kdf>>
      [] algo \in {ed25519, x25519} -> <<Raw(32)>>
(* The public parameters tell the curve.                                   *)
PrivateUnpadded(algo, publicParams) ==
    IF algo \in {ecdsa, ecdh, eddsaLegacy} THEN <<MPI>> ELSE <<Raw(32)>>
PrivateLayout(algo, publicParams) ==
    CASE algo \in RSA -> <<MPI, MPI, MPI, MPI>>
      [] algo \in {dsa, elgamal} -> <<MPI>>
      [] algo \in {ecdsa, ecdh, eddsaLegacy} -> <<Padded(payloadSize(publicParams[1]))>>
      [] algo \in {ed25519, x25519} -> <<Raw(32)>>
SessionLayout(algo) ==
    CASE algo \in {1, 2} -> <<MPI>>
      [] algo = elgamal -> <<MPI, MPI>>
      [] algo = ecdh -> <<MPI, Counted>>
      [] algo = x25519 -> <<Raw(32), XKey>>
SignatureLayout(algo) ==
    CASE algo \in RSA -> <<MPI>>
      [] algo \in {dsa, ecdsa} -> <<MPI, MPI>>
      [] algo = eddsaLegacy -> <<Padded(32), Padded(32)>>
      [] algo = ed25519 -> <<Raw(64)>>

(***************************************************************************)
(* One field.  A count that promises more than there is throws, as do an   *)
(* unknown curve and other KDF parameters; too short an MPI does not.      *)
(***************************************************************************)
CountedFits(bytes) == bytes # <<>> /\ Len(bytes) >= 1 + bytes[1]
FieldFits(field, bytes) ==
    CASE field.kind = "oid" -> CountedFits(bytes) /\ SupportedCurve(Slice(bytes, 1, 1 + bytes[1]))
      [] field.kind = "counted" -> CountedFits(bytes)
      [] field.kind = "kdf" -> Len(bytes) >= 4 /\ Slice(bytes, 0, 2) = <<3, 1>>
      [] field.kind = "padded" -> Len(readMPI(bytes)) =< field.size
      [] OTHER -> TRUE
(* The symmetric key has an even length, so that an odd count shows that   *)
(* the algorithm precedes it.                                              *)
readXKey(bytes) ==
    LET followLength == ByteAt(bytes, 1)
    IN  IF followLength % 2 = 1 THEN Slice(bytes, 1, 1 + followLength) ELSE <<0>> \o Slice(bytes, 1, 1 + followLength)
ReadField(field, bytes) ==
    CASE field.kind = "mpi" -> readMPI(bytes)
      [] field.kind = "padded" -> leftPad(readMPI(bytes), field.size)
      [] field.kind = "raw" -> Slice(bytes, 0, field.size)
      [] field.kind \in {"oid", "counted"} -> Slice(bytes, 1, 1 + bytes[1])
      [] field.kind = "kdf" -> Slice(bytes, 2, 4)
      [] field.kind = "xkey" -> readXKey(bytes)
FieldLength(field, bytes) ==
    CASE field.kind \in {"mpi", "padded"} -> Len(readMPI(bytes)) + 2
      [] field.kind = "raw" -> Len(Slice(bytes, 0, field.size))
      [] field.kind \in {"oid", "counted"} -> 1 + bytes[1]
      [] field.kind = "kdf" -> 4
      [] field.kind = "xkey" -> Len(Slice(bytes, 0, 1 + ByteAt(bytes, 1)))
WriteField(field, value) ==
    CASE field.kind \in {"mpi", "padded"} -> uint8ArrayToMPI(value)
      [] field.kind = "raw" -> value
      [] field.kind \in {"oid", "counted"} -> <<Len(value)>> \o value
      [] field.kind = "kdf" -> <<3, 1>> \o value
      [] field.kind = "xkey" -> IF value[1] # 0 THEN <<Len(value)>> \o value ELSE <<Len(value) - 1>> \o Tail(value)

serializeParams(layout, params) == FlattenSeq(Tuple([i \in DOMAIN layout |-> WriteField(layout[i], params[i])]))

(* The four functions that parse: one field after the other.               *)
ParseParams(layout, bytes) ==
    FoldLeft(LAMBDA p, field :
                 LET rest == Remainder(bytes, p.read)
                 IN  IF ~p.ok \/ ~FieldFits(field, rest) THEN [p EXCEPT !.ok = FALSE]
                     ELSE [p EXCEPT !.params = Append(@, ReadField(field, rest)), !.read = @ + FieldLength(field, rest)],
             [ok |-> TRUE, params |-> <<>>, read |-> 0], layout)

(* What the algorithm is given to verify: numbers of the length that the   *)
(* native implementations expect.                                          *)
VerifiedParams(algo, params, publicParams) ==
    CASE algo \in RSA -> <<leftPad(params[1], Len(publicParams[1]))>>
      [] algo = ecdsa -> [i \in 1..2 |-> leftPad(params[i], payloadSize(publicParams[1]))]
      [] OTHER -> params
============================================================================
