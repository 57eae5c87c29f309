---------------------------- MODULE KeySelection ----------------------------
(***************************************************************************)
(* Which parts of a key may be used, and when: the queries of key/key.js,  *)
(* key/subkey.js, key/user.js and key/private_key.js that pick a signing,  *)
(* encryption or decryption key, a primary user or an expiration time at a *)
(* given date, and the helpers of key/helper.js they rest on.              *)
(*                                                                         *)
(* The signatures of a key do not change, with one exception: isDataRevoked*)
(* stores its outcome in the `revoked` property of the signature it was    *)
(* asked about, and later calls trust that property.  A key is therefore a *)
(* value, and `revoked` the set of signatures whose property is true.      *)
(*                                                                         *)
(* Every signature packet is a record: who issued it, whether everything   *)
(* that does not depend on the date verifies (digest, algorithms, critical *)
(* notations), its creation and expiration times, and the subpackets the   *)
(* queries look at.  A query is one step: its awaits only let other        *)
(* queries set `revoked`, never clear it.                                  *)
(***************************************************************************)
EXTENDS Integers, FiniteSets, Sequences, SequencesExt

CONSTANTS Keys,              \* the keys to ask about
          Dates,             \* the dates to ask for
          Infinity,          \* later than every date
          RevocationsExpire, \* config.revocationsExpire
          RevocationDates,   \* bound: when components get revoked
          MaxRevocations     \* bound: how many components get revoked

\* A date argument of null: the checks that depend on the date are left out.
NoDate  == 0
\* No userID argument, and the user ID of a user attribute.
NoUser  == "none"
\* No keyID argument.
NoKeyID == <<"any", 0>>

(***************************************************************************)
(* The packets of a key, as the queries see them.  A signature is issued   *)
(* by the key itself, by one of its subkeys or by a third key.             *)
(***************************************************************************)
Revocations == [issuer : {"self", "subkey", "third"}, good : BOOLEAN, created : Nat, expiration : Nat]
Signatures  == [issuer : {"self", "subkey", "third"}, good : BOOLEAN, created : Nat, expiration : Nat,
                keyExpiration : Nat, flags : SUBSET STRING, primary : BOOLEAN, embedded : Seq(Revocations)]
UserPackets   == [userID : STRING, self : Seq(Signatures), other : Seq(Signatures), revs : Seq(Revocations)]
SubkeyPackets == [created : Nat, algorithm : STRING, strong : BOOLEAN,
                  bindings : Seq(Signatures), revs : Seq(Revocations)]
KeyPackets == [created : Nat, algorithm : STRING, strong : BOOLEAN, users : Seq(UserPackets),
               directs : Seq(Signatures), revs : Seq(Revocations), subkeys : Seq(SubkeyPackets)]

ASSUME KeyAssumption == Keys \subseteq KeyPackets
ASSUME DateAssumption == /\ Dates \subseteq Nat \ {NoDate}
                         /\ RevocationDates \subseteq Dates
                         /\ Infinity \in Nat /\ \A d \in Dates : d < Infinity
ASSUME ConfigAssumption == RevocationsExpire \in BOOLEAN /\ MaxRevocations \in Nat

VARIABLES key,       \* the key the application holds
          revoked,   \* where signature.revoked is true: a set of <<component, index>>
          revokedBy, \* the components the application has revoked
          answer     \* the outcome of the query that has just returned

vars == <<key, revoked, revokedBy, answer>>
-----------------------------------------------------------------------------
\* Components of a key and its signing, encryption and decryption keys.
Primary   == <<"key", 0>>
Subkey(s) == <<"subkey", s>>
User(u)   == <<"user", u>>

\* keyFlags of a signature without that subpacket.
NoFlags == {"absent"}

\* Outcomes of a query: a set of components, or one of these.
Throws        == {<<"throws", 0>>}
Passes        == {<<"passes", 0>>}
ExpiresAt(t)  == {<<"date", t>>}
NullResult    == {<<"null", 0>>}
Failed(r)     == r = Throws

Earliest(s, t) == IF s < t THEN s ELSE t
-----------------------------------------------------------------------------
(* SignaturePacket *)

\* getExpirationTime: the expiration subpacket counts from the creation time.
SigExpirationTime(sig) == IF sig.expiration = 0 THEN Infinity ELSE sig.created + sig.expiration

\* verify: issued by that key, cryptographically valid, neither in the future nor expired.
Verifies(sig, issuer, date) ==
    /\ sig.issuer = issuer
    /\ sig.good
    /\ date # NoDate => sig.created <= date /\ date < SigExpirationTime(sig)

\* isExpired.
SigIsExpired(sig, date) ==
    date # NoDate /\ ~(sig.created <= date /\ date < SigExpirationTime(sig))
-----------------------------------------------------------------------------
(* key/helper.js *)

\* A plausible bug: the first valid signature met ends the search.
LatestIsLastListed(sigs, issuer, date) ==
    LET Visit(i, latestValid) ==
            IF latestValid = 0 /\ Verifies(sigs[i], issuer, date) THEN i ELSE latestValid
    IN  FoldRightDomain(Visit, sigs, 0)

\* getLatestValidSignature: the index of the signature, 0 if it throws.  The
\* loop goes from the last signature to the first and skips those older than
\* the latest valid one.
getLatestValidSignature(sigs, issuer, date) ==
    LET Visit(i, latestValid) ==
            IF /\ latestValid # 0 => sigs[i].created >= sigs[latestValid].created
               /\ Verifies(sigs[i], issuer, date)
            THEN i ELSE latestValid
    IN  FoldRightDomain(Visit, sigs, 0)

getKeyExpirationTime(packet, sig) ==
    IF sig.keyExpiration = 0 THEN Infinity ELSE packet.created + sig.keyExpiration

\* A plausible bug: the last moment counts as valid.
DataExpiredLate(packet, sig, date) ==
    date # NoDate /\ ~(packet.created <= date /\ date <= getKeyExpirationTime(packet, sig))

isDataExpired(packet, sig, date) ==
    date # NoDate /\ ~(packet.created <= date /\ date < getKeyExpirationTime(packet, sig))

\* The part of isDataRevoked that does not touch `revoked`: some revocation by
\* the issuer of the signature (by anyone, if no signature is given) verifies.
RevocationVerifies(revs, sigIssuers, issuer, date) ==
    \E r \in ToSet(revs) : /\ r.issuer \in sigIssuers
                           /\ Verifies(r, issuer, IF RevocationsExpire THEN date ELSE NoDate)

\* A plausible bug: a revocation counts only from its creation on.
RevokedFromDate(cache, at, revs, sig, issuer, date) ==
    at \in cache \/ \E r \in ToSet(revs) : r.issuer = sig.issuer /\ Verifies(r, issuer, date)

\* isDataRevoked for the signature at a place: true once, true for ever.
isDataRevoked(cache, at, revs, sig, issuer, date) ==
    at \in cache \/ RevocationVerifies(revs, {sig.issuer}, issuer, date)

isValidSigningKeyPacket(packet, sig) ==
    packet.algorithm # "encryptOnly" /\ (sig.flags = NoFlags \/ "sign" \in sig.flags)

isValidEncryptionKeyPacket(packet, sig) ==
    packet.algorithm # "signOnly" /\ (sig.flags = NoFlags \/ "encrypt" \in sig.flags)

\* config.allowInsecureDecryptionWithSigningKeys is false, as by default.
isValidDecryptionKeyPacket(sig) == sig.flags = NoFlags \/ "encrypt" \in sig.flags

\* checkKeyRequirements does not throw: not a rejected algorithm, curve or length.
MeetsRequirements(packet) == packet.strong
-----------------------------------------------------------------------------
(* Queries: each is a record of its result and of the set `revoked` after it. *)

Outcome(result, cache) == [result |-> result, revoked |-> cache]

\* Indices of the users getPrimaryUser considers: a user ID that matches, with
\* a valid self-certification.
Candidates(k, date, uid) ==
    {u \in DOMAIN k.users :
        /\ k.users[u].userID # NoUser
        /\ uid # NoUser => k.users[u].userID = uid
        /\ getLatestValidSignature(k.users[u].self, "self", date) # 0}

CertIndex(k, u, date) == getLatestValidSignature(k.users[u].self, "self", date)
Cert(k, u, date)      == k.users[u].self[CertIndex(k, u, date)]
CertPlace(k, u, date) == <<User(u), CertIndex(k, u, date)>>

CertRevoked(k, cache, u, date) ==
    isDataRevoked(cache, CertPlace(k, u, date), k.users[u].revs, Cert(k, u, date), "self", date)

\* A plausible bug: revoked users are not moved to the front.
SortedIgnoringRevocation(k, cache, u, v, date) ==
    LET A == Cert(k, u, date)
        B == Cert(k, v, date)
    IN  \/ ~A.primary /\ B.primary
        \/ A.primary = B.primary /\ A.created < B.created
        \/ A.primary = B.primary /\ A.created = B.created /\ u < v

\* The comparison function of the sort: u is ordered before v.  The sort is
\* stable, so that of two users that compare equal the first stays first.
SortedBefore(k, cache, u, v, date) ==
    LET A == Cert(k, u, date)
        B == Cert(k, v, date)
        a == CertRevoked(k, cache, u, date)
        b == CertRevoked(k, cache, v, date)
    IN  \/ a /\ ~b
        \/ (a <=> b) /\ ~A.primary /\ B.primary
        \/ (a <=> b) /\ A.primary = B.primary /\ A.created < B.created
        \/ (a <=> b) /\ A.primary = B.primary /\ A.created = B.created /\ u < v

\* getPrimaryUser: every candidate is asked about, the last one of the sort
\* is returned unless it is revoked.
getPrimaryUser(k, cache, date, uid) ==
    LET users == Candidates(k, date, uid)
        marked == cache \cup {CertPlace(k, u, date) : u \in {v \in users : CertRevoked(k, cache, v, date)}}
        last  == {u \in users : \A v \in users \ {u} : SortedBefore(k, cache, v, u, date)}
    IN  Outcome(IF \E u \in last : ~CertRevoked(k, cache, u, date)
                THEN {User(u) : u \in last} ELSE Throws, marked)

PrimaryCert(k, r, date) == Cert(k, (CHOOSE u \in DOMAIN k.users : User(u) \in r), date)

\* Key.isRevoked without a signature.
KeyRevoked(k, date) == RevocationVerifies(k.revs, {"self", "third"}, "self", date)

verifyPrimaryKey(k, cache, date, uid) ==
    LET user   == getPrimaryUser(k, cache, date, uid)
        direct == getLatestValidSignature(k.directs, "self", date)
    IN  IF KeyRevoked(k, date) THEN Outcome(Throws, cache)
        ELSE Outcome(
            IF \/ Failed(user.result)
               \/ isDataExpired(k, PrimaryCert(k, user.result, date), date)
               \/ direct # 0 /\ isDataExpired(k, k.directs[direct], date)
            THEN Throws ELSE Passes, user.revoked)

\* Key.getExpirationTime.
getExpirationTime(k, cache, uid) ==
    LET user   == getPrimaryUser(k, cache, NoDate, uid)
        cert   == PrimaryCert(k, user.result, NoDate)
        direct == getLatestValidSignature(k.directs, "self", NoDate)
        bySelf == Earliest(getKeyExpirationTime(k, cert), SigExpirationTime(cert))
    IN  Outcome(IF Failed(user.result) THEN NullResult
                ELSE IF direct = 0 THEN ExpiresAt(bySelf)
                ELSE ExpiresAt(Earliest(bySelf, getKeyExpirationTime(k, k.directs[direct]))),
                user.revoked)

BindingIndex(sub, date) == getLatestValidSignature(sub.bindings, "self", date)

\* Subkey.verify.
SubkeyRevoked(k, cache, s, date) ==
    LET sub == k.subkeys[s]
        i   == BindingIndex(sub, date)
    IN  i # 0 /\ isDataRevoked(cache, <<Subkey(s), i>>, sub.revs, sub.bindings[i], "self", date)

SubkeyMarks(k, cache, s, date) ==
    IF SubkeyRevoked(k, cache, s, date)
    THEN {<<Subkey(s), BindingIndex(k.subkeys[s], date)>>} ELSE {}

subkeyVerify(k, cache, s, date) ==
    LET sub == k.subkeys[s]
        i   == BindingIndex(sub, date)
    IN  Outcome(IF i = 0 \/ SubkeyRevoked(k, cache, s, date) \/ isDataExpired(sub, sub.bindings[i], date)
                THEN Throws ELSE Passes,
                cache \cup SubkeyMarks(k, cache, s, date))

subkeyGetExpirationTime(k, cache, s, date) ==
    LET sub == k.subkeys[s]
        i   == BindingIndex(sub, date)
    IN  Outcome(IF i = 0 THEN NullResult
                ELSE ExpiresAt(Earliest(getKeyExpirationTime(sub, sub.bindings[i]),
                                        SigExpirationTime(sub.bindings[i]))), cache)

Asked(keyID, component) == keyID \in {NoKeyID, component}

\* A plausible bug: the subkeys are tried as listed.
TriedAsListed(k, s, t) == s < t

\* The order of the sort by creation time, latest first.
TriedBefore(k, s, t) ==
    \/ k.subkeys[s].created > k.subkeys[t].created
    \/ k.subkeys[s].created = k.subkeys[t].created /\ s < t

\* May the packet serve the purpose, by its algorithm and the flags of the signature?
Serves(purpose, packet, sig) ==
    IF purpose = "signing" THEN isValidSigningKeyPacket(packet, sig)
                           ELSE isValidEncryptionKeyPacket(packet, sig)

\* A signing subkey must have signed its binding itself (embeddedSignature).
CrossSigned(purpose, sig, date) ==
    purpose = "signing" => getLatestValidSignature(sig.embedded, "subkey", date) # 0

\* The subkeys that verify and serve, and the first one the loop comes to.
Suitable(purpose, k, cache, keyID, date) ==
    {s \in DOMAIN k.subkeys :
        /\ Asked(keyID, Subkey(s))
        /\ ~Failed(subkeyVerify(k, cache, s, date).result)
        /\ LET sub == k.subkeys[s]
               sig == sub.bindings[BindingIndex(sub, date)]
           IN  Serves(purpose, sub, sig) /\ CrossSigned(purpose, sig, date)
        /\ MeetsRequirements(k.subkeys[s])}
FirstOf(k, subs) == {s \in subs : \A t \in subs \ {s} : TriedBefore(k, s, t)}

\* The loop asks about every subkey up to the one it returns.
LoopMarks(k, cache, keyID, date, first) ==
    UNION {SubkeyMarks(k, cache, s, date) :
              s \in {t \in DOMAIN k.subkeys : /\ Asked(keyID, Subkey(t))
                                              /\ first \subseteq {t} \/ \A f \in first : TriedBefore(k, t, f)}}

\* After the loop, with the primary user asked for once more: the primary key
\* if it was asked for and serves.
PrimaryOrThrow(purpose, k, keyID, date, user) ==
    Outcome(IF /\ ~Failed(user.result)
               /\ Asked(keyID, Primary)
               /\ Serves(purpose, k, PrimaryCert(k, user.result, date))
               /\ MeetsRequirements(k)
            THEN {Primary} ELSE Throws, user.revoked)

\* The loop and what follows it.
SelectAmong(purpose, k, keyID, date, uid, first, marked) ==
    IF first # {} THEN Outcome({Subkey(s) : s \in first}, marked)
    ELSE PrimaryOrThrow(purpose, k, keyID, date, getPrimaryUser(k, marked, date, uid))

SelectIf(purpose, k, cache, keyID, date, uid, primary, first) ==
    IF Failed(primary.result) THEN primary
    ELSE SelectAmong(purpose, k, keyID, date, uid, first,
                     primary.revoked \cup LoopMarks(k, cache, keyID, date, first))

\* What getSigningKey and getEncryptionKey have in common: the primary key
\* must verify; then the first suitable subkey, else the primary key.
SelectKey(purpose, k, cache, keyID, date, uid) ==
    SelectIf(purpose, k, cache, keyID, date, uid, verifyPrimaryKey(k, cache, date, uid),
             FirstOf(k, Suitable(purpose, k, cache, keyID, date)))

getSigningKey(k, cache, keyID, date, uid)    == SelectKey("signing", k, cache, keyID, date, uid)
getEncryptionKey(k, cache, keyID, date, uid) == SelectKey("encryption", k, cache, keyID, date, uid)

\* A plausible bug: revoked and expired subkeys are left out.
DecryptsIfVerified(k, cache, s, date) ==
    LET sub == k.subkeys[s]
    IN  /\ ~Failed(subkeyVerify(k, cache, s, date).result)
        /\ isValidDecryptionKeyPacket(sub.bindings[BindingIndex(sub, date)])

\* Neither the revocation nor the expiration of a subkey matters here.
DecryptsWith(k, cache, s, date) ==
    LET i == BindingIndex(k.subkeys[s], date)
    IN  i # 0 /\ isValidDecryptionKeyPacket(k.subkeys[s].bindings[i])

\* PrivateKey.getDecryptionKeys: without a primary user the whole call fails.
getDecryptionKeys(k, cache, keyID, date, uid) ==
    LET user == getPrimaryUser(k, cache, date, uid)
        subs == {s \in DOMAIN k.subkeys : Asked(keyID, Subkey(s)) /\ DecryptsWith(k, cache, s, date)}
    IN  Outcome(IF Failed(user.result) THEN Throws
                ELSE {Subkey(s) : s \in subs} \cup
                     {p \in {Primary} : /\ Asked(keyID, p)
                                        /\ isValidDecryptionKeyPacket(PrimaryCert(k, user.result, date))},
                user.revoked)

\* User.verify: from the last self-certification to the first, until one is
\* neither revoked nor invalid.
userVerify(k, cache, u, date) ==
    LET user    == k.users[u]
        gone(i) == isDataRevoked(cache, <<User(u), i>>, user.revs, user.self[i], "self", date)
        valid   == {i \in DOMAIN user.self : ~gone(i) /\ Verifies(user.self[i], "self", date)}
        asked   == {i \in DOMAIN user.self : \A j \in valid : i >= j}
    IN  Outcome(IF valid = {} THEN Throws ELSE Passes,
                cache \cup {<<User(u), i>> : i \in {j \in asked : gone(j)}})

\* User.verifyCertificate with this key or a third key as verification key.  A
\* third key is taken to be good for signing at all times; this one must be
\* so when the certificate was created (`signing`, the outcome of getSigningKey).
CertificateIf(k, cache, u, i, cert, verifier, date, signing) ==
    LET gone == isDataRevoked(cache, <<User(u), i>>, k.users[u].revs, cert, verifier, date)
    IN  IF Failed(signing.result) THEN signing
        ELSE Outcome(IF ~gone /\ Verifies(cert, verifier, date) THEN Passes ELSE Throws,
                     signing.revoked \cup {p \in {<<User(u), i>>} : gone})

verifyCertificate(k, cache, u, i, verifier, date) ==
    LET cert == (k.users[u].self \o k.users[u].other)[i]
    IN  IF cert.issuer # verifier THEN Outcome(NullResult, cache)
        ELSE CertificateIf(k, cache, u, i, cert, verifier, date,
                 IF verifier = "self" THEN getSigningKey(k, cache, Primary, cert.created, NoUser)
                                      ELSE Outcome(Passes, cache))

\* User.verifyAllCertifications: the certificates that verify.
AllCertifications(cache, each) ==
    Outcome({<<"valid", i>> : i \in {j \in DOMAIN each : each[j].result = Passes}},
            cache \cup UNION {each[i].revoked : i \in DOMAIN each})

verifyAllCertifications(k, cache, u, verifier, date) ==
    AllCertifications(cache, [i \in DOMAIN (k.users[u].self \o k.users[u].other) |->
                                 verifyCertificate(k, cache, u, i, verifier, date)])

\* Key.getRevocationCertificate: the index of the revocation signature.
getRevocationCertificate(k, cache, date) ==
    LET i == getLatestValidSignature(k.revs, "self", date)
    IN  Outcome(IF i = 0 THEN Throws ELSE {<<"revocation", i>>}, cache)
-----------------------------------------------------------------------------
(* The application asks, or revokes. *)

NoAnswer == [query |-> "none", date |-> NoDate, uid |-> NoUser, on |-> NoKeyID,
             result |-> {}, fresh |-> {}]

Init == /\ key \in Keys
        /\ revoked = {}
        /\ revokedBy = {}
        /\ answer = NoAnswer

\* A query returns.  `fresh` is what it would have returned on a key object
\* read anew from the same packets, none of whose signatures is marked.
Respond(query, date, uid, on, Query(_)) ==
    /\ answer = NoAnswer
    /\ \E outcome \in {Query(revoked)} :
          /\ revoked' = outcome.revoked
          /\ answer' = [query |-> query, date |-> date, uid |-> uid, on |-> on,
                        result |-> outcome.result, fresh |-> Query({}).result]
    /\ UNCHANGED <<key, revokedBy>>

Dated   == Dates \cup {NoDate}
UserIDs == {NoUser} \cup {key.users[u].userID : u \in DOMAIN key.users}
KeyIDs  == {NoKeyID, Primary} \cup {Subkey(s) : s \in DOMAIN key.subkeys}

GetPrimaryUser ==
    \E d \in Dated, uid \in UserIDs :
        Respond("primaryUser", d, uid, Primary, LAMBDA c : getPrimaryUser(key, c, d, uid))
VerifyPrimaryKey ==
    \E d \in Dated, uid \in UserIDs :
        Respond("verifyPrimary", d, uid, Primary, LAMBDA c : verifyPrimaryKey(key, c, d, uid))
IsRevoked ==
    \E d \in Dated :
        Respond("isRevoked", d, NoUser, Primary,
                LAMBDA c : Outcome(IF KeyRevoked(key, d) THEN Passes ELSE Throws, c))
GetExpirationTime ==
    \E uid \in UserIDs :
        Respond("expiration", NoDate, uid, Primary, LAMBDA c : getExpirationTime(key, c, uid))
GetSigningKey ==
    \E d \in Dated, id \in KeyIDs :
        Respond("signing", d, NoUser, id, LAMBDA c : getSigningKey(key, c, id, d, NoUser))
GetEncryptionKey ==
    \E d \in Dated, id \in KeyIDs :
        Respond("encryption", d, NoUser, id, LAMBDA c : getEncryptionKey(key, c, id, d, NoUser))
GetDecryptionKeys ==
    \E d \in Dated, id \in KeyIDs :
        Respond("decryption", d, NoUser, id, LAMBDA c : getDecryptionKeys(key, c, id, d, NoUser))
SubkeyVerify ==
    \E d \in Dated, s \in DOMAIN key.subkeys :
        Respond("subkeyVerify", d, NoUser, Subkey(s), LAMBDA c : subkeyVerify(key, c, s, d))
SubkeyGetExpirationTime ==
    \E d \in Dated, s \in DOMAIN key.subkeys :
        Respond("subkeyExpiration", d, NoUser, Subkey(s), LAMBDA c : subkeyGetExpirationTime(key, c, s, d))
UserVerify ==
    \E d \in Dated, u \in DOMAIN key.users :
        Respond("userVerify", d, NoUser, User(u), LAMBDA c : userVerify(key, c, u, d))
VerifyAllCertifications ==
    \E d \in Dated, u \in DOMAIN key.users, verifier \in {"self", "third"} :
        Respond("certifications", d, NoUser, User(u), LAMBDA c : verifyAllCertifications(key, c, u, verifier, d))
GetRevocationCertificate ==
    \E d \in Dated :
        Respond("certificate", d, NoUser, Primary, LAMBDA c : getRevocationCertificate(key, c, d))

\* The application takes the answer and goes on.
Proceed ==
    /\ answer # NoAnswer
    /\ answer' = NoAnswer
    /\ UNCHANGED <<key, revoked, revokedBy>>

\* A revocation signature made by this key.
Revocation(date) == [issuer |-> "self", good |-> TRUE, created |-> date, expiration |-> 0]

\* PrivateKey.revoke: a clone with one more revocation signature.
RevokedKey(k, date) == [k EXCEPT !.revs = Append(@, Revocation(date))]

\* A plausible bug: a list of revocations that is not empty is kept as it is.
RevokedSubkeyOnce(k, s, date) ==
    [k EXCEPT !.subkeys[s].revs = IF @ = <<>> THEN <<Revocation(date)>> ELSE @]

\* Subkey.revoke: a subkey with the new revocation signature, into which the
\* original one is merged; revocations that do not verify are left behind.
\* Its binding signatures are the very packets of the original.
SurvivesUpdate(r, date) == ~SigIsExpired(r, date) /\ RevocationVerifies(<<r>>, {"self", "third"}, "self", date)
Surviving(revs, date) ==
    FoldLeft(LAMBDA kept, r : IF SurvivesUpdate(r, date) THEN Append(kept, r) ELSE kept, <<>>, revs)
RevokedSubkey(k, s, date) ==
    [k EXCEPT !.subkeys[s].revs = <<Revocation(date)>> \o Surviving(@, date)]

\* User.revoke calls update without a configuration: no revocation of the
\* original passes the check, and only the new one is left.
RevokedUser(k, u, date) == [k EXCEPT !.users[u].revs = <<Revocation(date)>>]

\* The application goes on with the key, or puts the revoked user or subkey
\* in the place of the original.
Revoke(component, revokedKey) ==
    /\ answer = NoAnswer
    /\ Cardinality(revokedBy) < MaxRevocations
    /\ key' = revokedKey
    /\ revokedBy' = revokedBy \cup {component}
    /\ UNCHANGED <<revoked, answer>>

RevokeKey    == \E d \in RevocationDates : Revoke(Primary, RevokedKey(key, d))
RevokeSubkey == \E d \in RevocationDates, s \in DOMAIN key.subkeys : Revoke(Subkey(s), RevokedSubkey(key, s, d))
RevokeUser   == \E d \in RevocationDates, u \in DOMAIN key.users : Revoke(User(u), RevokedUser(key, u, d))

\* applyRevocationCertificate with any signature: it must be issued by this
\* key, good and valid at the date, or the call throws.
ApplyRevocationCertificate ==
    \E c \in RevocationDates, issuer \in {"self", "third"}, good \in BOOLEAN, d \in Dated :
        LET certificate == [Revocation(c) EXCEPT !.issuer = issuer, !.good = good]
        IN  IF Verifies(certificate, "self", d)
            THEN Revoke(Primary, [key EXCEPT !.revs = Append(@, certificate)])
            ELSE Respond("apply", d, NoUser, Primary, LAMBDA cache : Outcome(Throws, cache))

Next == \/ GetPrimaryUser \/ VerifyPrimaryKey \/ IsRevoked \/ GetExpirationTime
        \/ GetSigningKey \/ GetEncryptionKey \/ GetDecryptionKeys
        \/ SubkeyVerify \/ SubkeyGetExpirationTime
        \/ UserVerify \/ VerifyAllCertifications \/ GetRevocationCertificate
        \/ RevokeKey \/ RevokeSubkey \/ RevokeUser \/ ApplyRevocationCertificate
        \/ Proceed

Spec == Init /\ [][Next]_vars
-----------------------------------------------------------------------------
(* Properties *)

\* Only existing signatures are marked, the key keeps its users and subkeys,
\* and an answer is one of those the queries can give.
TypeOK ==
    /\ \A p \in revoked :
          \/ \E u \in DOMAIN key.users : p[1] = User(u) /\ p[2] \in DOMAIN (key.users[u].self \o key.users[u].other)
          \/ \E s \in DOMAIN key.subkeys : p[1] = Subkey(s) /\ p[2] \in DOMAIN key.subkeys[s].bindings
    /\ answer.date \in Dated /\ answer.uid \in UserIDs
    /\ answer.query \notin {"certifications", "none", "decryption"} =>
          Cardinality(answer.result) = 1

\* The signature in force at a date: it verifies, and none that verifies is newer.
InForce(sigs, i, date) ==
    /\ i \in DOMAIN sigs
    /\ Verifies(sigs[i], "self", date)
    /\ \A j \in DOMAIN sigs : Verifies(sigs[j], "self", date) =>
          sigs[j].created < sigs[i].created \/ (sigs[j].created = sigs[i].created /\ i <= j)
InForceOf(sigs, date) == {sigs[i] : i \in {j \in DOMAIN sigs : InForce(sigs, j, date)}}

\* Made by this key, whenever that was: revocations do not expire.
SelfRevoked(revs) == \E i \in DOMAIN revs : revs[i].issuer = "self" /\ revs[i].good

\* The users that may speak for the key, by the rule getPrimaryUser documents:
\* among those not revoked, flagged ones first, then the latest self-signature.
LiveUsers(k, date, uid) ==
    {u \in DOMAIN k.users :
        /\ k.users[u].userID # NoUser /\ (uid = NoUser \/ uid = k.users[u].userID)
        /\ InForceOf(k.users[u].self, date) # {}
        /\ ~SelfRevoked(k.users[u].revs)}
Outranks(a, b) == \/ a.primary /\ ~b.primary
                  \/ a.primary = b.primary /\ a.created > b.created
Speakers(k, date, uid) ==
    LET live == LiveUsers(k, date, uid)
        cert(u) == InForceOf(k.users[u].self, date)
    IN  {u \in live : \A v \in live : \A a \in cert(v), b \in cert(u) : ~Outranks(a, b)}

\* A user its documentation allows, and none only if there is no such user.
PrimaryUserRight ==
    answer.query = "primaryUser" =>
        LET speakers == {User(u) : u \in Speakers(key, answer.date, answer.uid)}
        IN  IF speakers = {} THEN Failed(answer.result)
            ELSE answer.result # {} /\ answer.result \subseteq speakers

AliveAt(packet, sigs, date) ==
    \A sig \in sigs : date # NoDate => /\ packet.created <= date
                                       /\ sig.keyExpiration # 0 => date < packet.created + sig.keyExpiration
PrimaryAlive(k, u, date) ==
    /\ ~SelfRevoked(k.revs)
    /\ AliveAt(k, InForceOf(k.users[u].self, date), date)
    /\ AliveAt(k, InForceOf(k.directs, date), date)
SubkeyAlive(sub, date) ==
    /\ InForceOf(sub.bindings, date) # {}
    /\ ~SelfRevoked(sub.revs)
    /\ AliveAt(sub, InForceOf(sub.bindings, date), date)

\* What a component may be used for, given the signatures in force.
Permits(purpose, packet, sigs) ==
    /\ packet.strong
    /\ packet.algorithm # (IF purpose = "signing" THEN "encryptOnly" ELSE "signOnly")
    /\ \A sig \in sigs : sig.flags = NoFlags \/ (IF purpose = "signing" THEN "sign" ELSE "encrypt") \in sig.flags
SubkeyMay(purpose, sub, date) ==
    /\ SubkeyAlive(sub, date)
    /\ Permits(purpose, sub, InForceOf(sub.bindings, date))
    /\ purpose = "signing" => \A sig \in InForceOf(sub.bindings, date) :
          \E e \in ToSet(sig.embedded) : Verifies(e, "subkey", date)

\* A key that may be used for the purpose: the last created such subkey, the
\* primary key only if there is none.
KeyRight ==
    answer.query \in {"signing", "encryption"} =>
        LET subs   == {s \in DOMAIN key.subkeys : /\ Asked(answer.on, Subkey(s))
                                                  /\ SubkeyMay(answer.query, key.subkeys[s], answer.date)}
            latest == {s \in subs : \A t \in subs : key.subkeys[t].created <= key.subkeys[s].created}
            users  == Speakers(key, answer.date, NoUser)
            alive  == {u \in users : PrimaryAlive(key, u, answer.date)}
            may    == {u \in alive : /\ Asked(answer.on, Primary)
                                     /\ Permits(answer.query, key, InForceOf(key.users[u].self, answer.date))}
        IN  \/ Failed(answer.result) /\ (users = {} \/ alive # users \/ (subs = {} /\ may # users))
            \/ alive # {} /\ \E s \in latest : answer.result = {Subkey(s)}
            \/ subs = {} /\ may # {} /\ answer.result = {Primary}

\* getSigningKey and getEncryptionKey return the last created subkey that may
\* be used for the purpose at that date, the primary key only if no subkey
\* may, and throw only if neither may or the primary key itself is not alive.
\* getPrimaryUser returns a user its documentation allows, and throws only if
\* there is none: a revoked user never hides one that is not.
SelectionRight == TypeOK /\ PrimaryUserRight /\ KeyRight

\* Whatever was asked before, and at whatever dates, a query answers as it
\* would on a key just read: the marks left on signatures never change an
\* answer.  (Third-party certificates are the exception: User.revoke loses the
\* revocations of third parties, and the mark of one may outlive it.)
HistoryIndependent ==
    IF answer.query = "certifications" THEN answer.result \subseteq answer.fresh
    ELSE answer.result = answer.fresh

\* What the application has revoked is never selected again, at any date.
RevocationHolds ==
    /\ answer.query \in {"signing", "encryption"} =>
          answer.result \cap revokedBy = {} /\ (Primary \in revokedBy => Failed(answer.result))
    /\ answer.query = "primaryUser" => answer.result \cap revokedBy = {}
    /\ answer.query \in {"subkeyVerify", "userVerify"} /\ answer.on \in revokedBy => Failed(answer.result)
    /\ answer.query = "certificate" /\ Primary \in revokedBy /\ answer.date = NoDate => ~Failed(answer.result)

AllSigs(k) == (UNION {ToSet(k.users[u].self) : u \in DOMAIN k.users}) \cup ToSet(k.directs) \cup
              (UNION {ToSet(k.subkeys[s].bindings) : s \in DOMAIN k.subkeys})
\* The case the code supports: no signature expires ("We do not support the
\* edge case where the direct signature expires"), and all exist at the date.
Settled(k, date) == /\ k.created <= date
                    /\ \A sig \in AllSigs(k) : sig.expiration = 0 /\ sig.created <= date

\* An expiration time that has come; no time announced counts as come.
Over(result, date) == \A e \in result : e[1] = "date" => e[2] <= date

\* The expiration time that Key.getExpirationTime and Subkey.getExpirationTime
\* announce is the moment from which verifyPrimaryKey and Subkey.verify fail,
\* for a key that is not revoked.
ExpirationTimeRight ==
    /\ answer.query = "expiration" /\ ~SelfRevoked(key.revs) =>
          \A d \in {e \in Dates : Settled(key, e)} :
              Failed(verifyPrimaryKey(key, revoked, d, answer.uid).result) <=> Over(answer.result, d)
    /\ answer.query = "subkeyVerify" /\ answer.date # NoDate =>
          \A s \in DOMAIN key.subkeys :
              /\ answer.on = Subkey(s)
              /\ ~SelfRevoked(key.subkeys[s].revs)
              /\ key.subkeys[s].created <= answer.date
              => (Failed(answer.result) <=>
                    Over(subkeyGetExpirationTime(key, revoked, s, answer.date).result, answer.date))

\* What is encrypted for a key can be decrypted: the key that getEncryptionKey
\* selects is among those getDecryptionKeys offers for a message (which asks
\* without a date), and stays there when it is revoked.
EncryptedStaysDecryptable ==
    answer.query = "encryption" /\ Settled(key, answer.date) /\ ~Failed(answer.result) =>
        \A c \in answer.result, d \in RevocationDates :
            LET revocations == {key, RevokedKey(key, d)} \cup {RevokedSubkey(key, s, d) : s \in DOMAIN key.subkeys}
            IN  \A k \in revocations : c \in getDecryptionKeys(k, revoked, c, NoDate, NoUser).result
=============================================================================
