--------------------------- MODULE MCKeySelection ---------------------------
(***************************************************************************)
(* Keys for KeySelection, in three families: two users with one or two     *)
(* self-certifications each; one user with expiring certifications, direct *)
(* signatures and revocations of the key; two subkeys with one or two      *)
(* binding signatures each.                                                *)
(***************************************************************************)
EXTENDS KeySelection

Sig(created) == [issuer |-> "self", good |-> TRUE, created |-> created, expiration |-> 0,
                 keyExpiration |-> 0, flags |-> NoFlags, primary |-> FALSE, embedded |-> <<>>]
Third(sig)   == [sig EXCEPT !.issuer = "third"]
Rev(created) == [issuer |-> "self", good |-> TRUE, created |-> created, expiration |-> 0]

Lists(S)     == {<<a>> : a \in S} \cup {<<a, b>> : a \in S, b \in S}
UserOf(id, self, other, revs) == [userID |-> id, self |-> self, other |-> other, revs |-> revs]
KeyOf(users, directs, revs, subkeys) ==
    [created |-> 1, algorithm |-> "signOrEncrypt", strong |-> TRUE,
     users |-> users, directs |-> directs, revs |-> revs, subkeys |-> subkeys]

\* Certifications that differ in age, expiration, primary flag and validity.
Certs == {Sig(1), [Sig(1) EXCEPT !.primary = TRUE], Sig(2),
          [Sig(2) EXCEPT !.expiration = 1, !.primary = TRUE], [Sig(3) EXCEPT !.good = FALSE]}
UserKeys ==
    {KeyOf(<<UserOf("alice", a, <<>>, <<>>), UserOf("bob", b, <<>>, <<>>)>>, <<>>, <<>>, <<>>) :
        a \in Lists(Certs), b \in {<<c>> : c \in Certs}} \cup
    {KeyOf(<<UserOf(id, <<Sig(1)>>, o, r), UserOf("bob", <<Sig(1)>>, <<>>, <<>>)>>, <<>>, <<>>, <<>>) :
        id \in {"alice", NoUser}, o \in {<<Third(Sig(1))>>, <<Third(Sig(2))>>},
        r \in {<<>>, <<Third(Rev(2))>>, <<[Rev(2) EXCEPT !.expiration = 1]>>}}

ExpiringCerts == {Sig(1), [Sig(1) EXCEPT !.keyExpiration = 2], [Sig(2) EXCEPT !.keyExpiration = 1]}
Directs == {<<>>} \cup
    {<<d>> : d \in {Sig(1), [Sig(2) EXCEPT !.keyExpiration = 1], [Sig(1) EXCEPT !.keyExpiration = 2],
                    [Sig(1) EXCEPT !.keyExpiration = 1, !.good = FALSE],
                    [Sig(1) EXCEPT !.keyExpiration = 1, !.expiration = 2]}}
ExpiringKeys ==
    {KeyOf(<<UserOf("alice", c, <<>>, <<>>)>>, d, r, <<>>) :
        c \in Lists(ExpiringCerts), d \in Directs, r \in {<<>>, <<Third(Rev(1))>>, <<[Rev(2) EXCEPT !.good = FALSE]>>}}

\* Binding signatures that differ in purpose, age, expiration of signature and
\* of subkey, and in the subkey's own signature.
Cross == <<[Rev(1) EXCEPT !.issuer = "subkey"]>>
Bindings == {[Sig(1) EXCEPT !.flags = {"sign"}, !.embedded = Cross],
             [Sig(1) EXCEPT !.flags = {"encrypt"}],
             [Sig(2) EXCEPT !.flags = {"sign", "encrypt"}],
             [Sig(2) EXCEPT !.flags = {"encrypt"}, !.keyExpiration = 2],
             [Sig(2) EXCEPT !.expiration = 1, !.embedded = Cross],
             [Sig(3) EXCEPT !.good = FALSE]}
SubkeyOf(created, algorithm, strong, bindings, revs) ==
    [created |-> created, algorithm |-> algorithm, strong |-> strong, bindings |-> bindings, revs |-> revs]
SubkeyKeys ==
    {KeyOf(<<UserOf("alice", <<[Sig(1) EXCEPT !.flags = f]>>, <<>>, <<>>)>>, <<>>, <<>>,
           <<SubkeyOf(1, "signOrEncrypt", TRUE, a, <<>>), SubkeyOf(c, "signOrEncrypt", TRUE, <<b>>, <<>>)>>) :
        f \in {{"sign"}}, a \in Lists(Bindings), b \in Bindings, c \in {1, 2}} \cup
    {KeyOf(<<UserOf("alice", <<Sig(1)>>, <<>>, <<>>)>>, <<>>, <<>>, <<SubkeyOf(2, a, w, <<b>>, r)>>) :
        a \in {"signOnly", "encryptOnly"}, w \in BOOLEAN, b \in Bindings,
        r \in {<<>>, <<Rev(2)>>, <<Third(Rev(1))>>, <<Third(Rev(1)), [Rev(1) EXCEPT !.expiration = 1]>>}}

MCKeys == UserKeys \cup ExpiringKeys \cup SubkeyKeys
=============================================================================
