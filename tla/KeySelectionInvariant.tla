------------------------ MODULE KeySelectionInvariant ------------------------
(***************************************************************************)
(* The inductive invariant behind HistoryIndependent and RevocationHolds   *)
(* of KeySelection: what a mark that isDataRevoked left on a signature     *)
(* says of the key, whichever date it was left for.                        *)
(***************************************************************************)
EXTENDS KeySelection

\* A signature that was found revoked belongs to a user or a subkey that the
\* key itself has revoked; unless it was made by a third key.
Certificates(user) == user.self \o user.other
MarksRight(k, cache) ==
    \A p \in cache :
        \/ \E u \in DOMAIN k.users : \E i \in DOMAIN Certificates(k.users[u]) :
              /\ p = <<User(u), i>>
              /\ Certificates(k.users[u])[i].issuer = "self" => SelfRevoked(k.users[u].revs)
        \/ \E s \in DOMAIN k.subkeys : \E i \in DOMAIN k.subkeys[s].bindings :
              /\ p = <<Subkey(s), i>>
              /\ SelfRevoked(k.subkeys[s].revs)

\* What the application has revoked has a good revocation by the key itself.
RevokedRight(k, components) ==
    /\ components \subseteq {Primary} \cup {User(u) : u \in DOMAIN k.users} \cup {Subkey(s) : s \in DOMAIN k.subkeys}
    /\ Primary \in components => SelfRevoked(k.revs)
    /\ \A u \in DOMAIN k.users : User(u) \in components => SelfRevoked(k.users[u].revs)
    /\ \A s \in DOMAIN k.subkeys : Subkey(s) \in components => SelfRevoked(k.subkeys[s].revs)

IInv ==
    /\ key \in KeyPackets
    /\ MarksRight(key, revoked)
    /\ RevokedRight(key, revokedBy)
    /\ HistoryIndependent
    /\ RevocationHolds

\* Every answer but the list of certifications is what the query makes of the
\* packets alone: no mark, no earlier query.
FreshRight ==
    LET q     == answer.query
        date  == answer.date
        uid   == answer.uid
        on    == answer.on
        fresh == answer.fresh
    IN  /\ date \in Dated /\ uid \in UserIDs
        /\ q \in {"none", "primaryUser", "verifyPrimary", "isRevoked", "expiration", "signing", "encryption",
                  "decryption", "subkeyVerify", "subkeyExpiration", "userVerify", "certifications",
                  "certificate", "apply"}
        /\ q = "primaryUser" => fresh = getPrimaryUser(key, {}, date, uid).result
        /\ q = "verifyPrimary" => fresh = verifyPrimaryKey(key, {}, date, uid).result
        /\ q = "isRevoked" => fresh \in {Passes, Throws}
        /\ q = "expiration" => fresh = getExpirationTime(key, {}, uid).result
        /\ q \in {"signing", "encryption"} => fresh = SelectKey(q, key, {}, on, date, NoUser).result
        /\ q = "subkeyVerify" =>
              \E s \in DOMAIN key.subkeys : on = Subkey(s) /\ fresh = subkeyVerify(key, {}, s, date).result
        /\ q = "subkeyExpiration" =>
              \E s \in DOMAIN key.subkeys : fresh = subkeyGetExpirationTime(key, {}, s, date).result
        /\ q = "userVerify" => \E u \in DOMAIN key.users : fresh = userVerify(key, {}, u, date).result
        /\ q = "certificate" => fresh = getRevocationCertificate(key, {}, date).result
        /\ q = "apply" => fresh = Throws
=============================================================================
