----------------------------- MODULE MCFormats -----------------------------
(***************************************************************************)
(* Algorithms: texts around the block boundaries, every bit offset of an   *)
(* OCB nonce, streams cut in all ways, padding at its limits, toy primes.  *)
(* Packets: a key of every algorithm, two of some, versions 4 and 5; every *)
(* kind of specifier; counts and lengths at their boundaries.              *)
(***************************************************************************)
EXTENDS Formats

MCLengths == {0, 5, 16, 33}
MCOCBCases == {<<n, a, b>> : n \in {0, 5, 16, 40, 80}, a \in {0, 16, 33, 64}, b \in {7}} \cup {<<20, 0, b>> : b \in 0..63}
MCShapes == {[block |-> 8, length |-> 19], [block |-> 16, length |-> 16], [block |-> 16, length |-> 33]}
MCPayloads == {<<>>, <<5>>, <<0, 1>>, <<0, 128>>, <<3, 3>>, <<7, 0, 0>>, <<1, 2, 3, 4>>, Bytes(8, 1), Append(Bytes(6, 1), 2)}

MCDSAKeys ==
    {[p |-> 67, q |-> 11, g |-> 64, x |-> x, y |-> y] : x \in {3, 7}, y \in {(64 * 64 * 64) % 67}}
      \cup {[p |-> 67, q |-> 11, g |-> g, x |-> 3, y |-> (g * g * g) % 67] : g \in {1, 2, 9}}
      \cup {[p |-> 67, q |-> 3, g |-> 29, x |-> 1, y |-> 29], [p |-> 61, q |-> 15, g |-> 12, x |-> 1, y |-> 12]}
MCElGamalKeys ==
    {[p |-> 23, g |-> g, x |-> x, y |-> (g * g) % 23] : g \in {1, 2, 5, 22}, x \in {2, 3}}
      \cup {[p |-> 7, g |-> 3, x |-> 1, y |-> 3], [p |-> 33, g |-> 5, x |-> 1, y |-> 5]}

Text(n, seed) == Tuple(Bytes(n, seed))
Modulus == [Text(47, 8) EXCEPT ![1] = 201]
Curve(n) == CHOOSE oid \in {c.oid : c \in Curves} : Last(oid) = n
P256 == Curve(7)
P521 == Curve(35)
Ed == <<43, 6, 1, 4, 1, 218, 71, 15, 1>>
X == <<43, 6, 1, 4, 1, 151, 85, 1, 5, 1>>
Key(version, algorithm, publicParams, secret) ==
    [version |-> version, created |-> <<80, 0, 0, algorithm>>, algorithm |-> algorithm, publicParams |-> publicParams, secret |-> secret]
MCKeys ==
    {Key(4, 1, <<Modulus, <<5>>>>, 5), Key(5, 1, <<Modulus, <<7>>>>, 7),
     Key(4, elgamal, <<Modulus, <<3>>, Point(9)>>, 9), Key(4, elgamal, <<Modulus, <<3>>, Point(4)>>, 4),
     Key(4, ecdh, <<X, Point(11), <<8, 9>>>>, 11), Key(5, ecdh, <<X, Point(12), <<8, 7>>>>, 12),
     Key(4, x25519, <<XPoint(6)>>, 6), Key(5, x25519, <<XPoint(8)>>, 8),
     Key(4, dsa, <<<<67>>, <<11>>, <<64>>, <<9>>>>, 3),
     Key(4, ecdsa, <<P256, Text(65, 1)>>, 13), Key(5, ecdsa, <<P521, Text(133, 1)>>, 14),
     Key(4, eddsaLegacy, <<Ed, <<64>> \o Text(32, 2)>>, 15), Key(5, ed25519, <<Text(32, 4)>>, 16)}
K(algorithm, version) == CHOOSE k \in MCKeys : k.algorithm = algorithm /\ k.version = version

Case(kind, k, params) == [kind |-> kind, k |-> k, params |-> params]
MCParamCases ==
    {Case("public", k, k.publicParams) : k \in MCKeys}
      \cup {Case("private", K(1, 4), <<<<5, 0>>, <<7>>, <<1, 255>>, <<128>>>>), Case("private", K(dsa, 4), <<<<3>>>>),
            Case("private", K(elgamal, 4), <<<<9>>>>), Case("private", K(ed25519, 5), <<Zeros(4) \o Text(28, 1)>>),
            Case("private", K(x25519, 4), <<Text(30, 1) \o Zeros(2)>>)}
      \cup {Case("private", K(a[1], a[2]), <<Zeros(zeros) \o Text(payloadSize(K(a[1], a[2]).publicParams[1]) - zeros, 3)>>) :
               a \in {<<ecdsa, 4>>, <<ecdsa, 5>>, <<ecdh, 4>>, <<eddsaLegacy, 4>>}, zeros \in {0, 1, 4}}
      \cup {Case("signature", k, SignatureOf(k, Text(32, seed))) : k \in {o \in MCKeys : o.algorithm \in SigningAlgorithms}, seed \in 1..6}

Salt == Text(8, 5)
Specifier(type, algorithm, c) == [type |-> type, algorithm |-> algorithm, salt |-> Salt, c |-> c]
MCS2Ks ==
    {[s2k |-> Specifier(type, algorithm, 0), passphrase |-> Text(5, 1), numBytes |-> 32] :
        type \in {"simple", "salted", "iterated", "gnu-dummy"}, algorithm \in {1, 2, 8}}
      \cup {[s2k |-> Specifier("iterated", algorithm, c), passphrase |-> Text(n, 1), numBytes |-> numBytes] :
               algorithm \in {2, 8}, c \in {0, 1, 17}, n \in {0, 22, 23, 24, 26, 40}, numBytes \in {16, 32}}

MCSessions == {[algorithm |-> 7, key |-> Text(16, 1)], [algorithm |-> 9, key |-> Text(32, 2)], [algorithm |-> 9, key |-> Zeros(31) \o <<3>>],
               [algorithm |-> 2, key |-> Text(24, 3)]}
MCPasswordCases ==
    {[version |-> IF aead = 0 THEN 4 ELSE 5, keyAlgorithm |-> a, aead |-> aead, s2k |-> s2k] :
        a \in {7, 9}, aead \in {0, 1, 2, 100}, s2k \in {Specifier("iterated", 8, 1), Specifier("salted", 2, 0)}}

(* Subpackets: of every plain type, with bodies at the length boundaries.  *)
Some(pairs) == [t \in {p[1] : p \in pairs} |-> (CHOOSE p \in pairs : p[1] = t)[2]]
Few == Some({<<3, <<0, 1, 0, 0>>>>, <<9, <<0, 0, 9, 9>>>>, <<27, <<3>>>>, <<30, <<7>>>>})
Many == Some({<<4, <<1>>>>, <<5, <<2, 60>>>>, <<7, <<0>>>>, <<11, <<9, 8, 7>>>>, <<12, Text(22, 6)>>, <<21, Text(190, 7)>>, <<22, <<2, 1>>>>,
              <<23, <<128>>>>, <<24, <<104, 228>>>>, <<25, <<1>>>>, <<26, <<104, 116, 116, 112>>>>, <<28, <<1000, 64>>>>, <<29, <<3, 101, 102>>>>, <<34, <<2, 1>>>>})
Note(name, size, critical) == [name |-> name, value |-> Text(size, 4), humanReadable |-> size = 1, critical |-> critical]
UserData(k, tag, bytes) == [key |-> k, tag |-> tag, bytes |-> bytes]
CRLF == <<97, 13, 10, 98>>
LF == <<97, 10, 98>>
Sub(k) == [key |-> k, bind |-> K(x25519, 4)]
Alone(k) == [key |-> k]
S(k, type, sub, notations, embedded, data, detached) ==
    [k |-> k, type |-> type, sub |-> sub, notations |-> notations, embedded |-> embedded, data |-> data, detached |-> detached]
Embedded ==
    Sign(Prepared(S(K(eddsaLegacy, 4), 25, <<>>, <<>>, <<>>, Sub(K(ecdsa, 4)), FALSE)), K(eddsaLegacy, 4), Sub(K(ecdsa, 4)), <<90, 0, 0, 0>>, FALSE)
MCSignatureCases ==
    {S(k, 0, Few, <<>>, <<>>, BytesLiteral(bytes), detached) : k \in {K(1, 4), K(ed25519, 5)}, bytes \in {CRLF, LF}, detached \in BOOLEAN}
      \cup {S(k, 1, Few, <<Note(<<97>>, 1, TRUE)>>, <<>>, TextLiteral(<<228, 10>>), detached) :
               k \in {K(dsa, 4), K(ecdsa, 5)}, detached \in BOOLEAN}
      \cup {S(K(ecdsa, 4), type, Many, <<Note(<<97, 228>>, 200, FALSE), Note(<<98>>, 1, TRUE)>>, <<>>, UserData(K(ecdsa, 4), tag, <<65, 66>>), FALSE) :
               type \in {19, 48}, tag \in {180, 209}}
      \cup {S(K(1, 4), 24, Few, <<>>, <<Embedded>>, Sub(K(1, 4)), FALSE), S(K(eddsaLegacy, 4), 40, Few, <<>>, <<>>, Sub(K(eddsaLegacy, 4)), FALSE)}
      \cup {S(K(1, 5), 31, Few, <<>>, <<>>, Alone(K(1, 5)), FALSE), S(K(1, 4), 32, Few, <<>>, <<>>, Alone(K(1, 4)), FALSE),
            S(K(1, 4), 2, Few, <<>>, <<>>, BytesLiteral(LF), FALSE)}
MCAttachments ==
    {<<>>, <<<<100, 9>>>>, <<<<228, 9>>>>, <<<<2, 90, 0, 0, 9>>, <<3, 0, 0, 0, 1>>>>, <<<<27, 255>>, <<9, 0, 0, 0, 0>>>>, <<<<issuer>> \o Text(8, 9)>>,
     <<<<issuer>> \o keyID(K(1, 4))>>, <<Tail(writeNotation(Note(<<99>>, 3, FALSE)))>>, <<<<embeddedSignature>> \o WriteSignature(Embedded), <<29, 0, 65>>>>}
Literals == {BytesLiteral(CRLF), BytesLiteral(LF), [BytesLiteral(LF) EXCEPT !.header[1] = 116], BytesLiteral(<<97>>), TextLiteral(<<228, 10>>),
             GotText(TextLiteral(<<228>>))}
Users == {UserData(k, tag, <<65, 66>>) : k \in {K(ecdsa, 4), K(ecdsa, 5)}, tag \in {180, 209}}
MCOtherData ==
    [type \in {0, 1, 2, 19, 24, 31, 32, 40, 48} |->
        CASE type \in {0, 1} -> Literals
          [] type \in {19, 48} -> Users
          [] type \in {24, 40} -> {Sub(K(1, 5)), [Sub(K(1, 4)) EXCEPT !.bind = K(x25519, 5)]}
          [] type \in {31, 32} -> {Alone(K(1, 4)), Alone(K(1, 5))}
          [] type = 2 -> {BytesLiteral(CRLF)}]
============================================================================
