---------------------------- MODULE KeyStructure ----------------------------
(***************************************************************************)
(* How key.js turns the packets of a key block into a key object with its  *)
(* users and subkeys (packetListToStructure), and back (toPacketList).     *)
(*                                                                         *)
(* The list arrives packet by packet; a packet that could not be parsed is *)
(* an UnparseablePacket that keeps only its tag.  Packets are told apart   *)
(* by their position in the list.                                          *)
(***************************************************************************)
EXTENDS Naturals, Sequences, SequencesExt

CONSTANTS Unparseable,  \* tags of the packets that may be unparseable
          MaxPackets    \* bound: packets in the list

KeyTags    == {"publicKey", "secretKey"}
SubkeyTags == {"publicSubkey", "secretSubkey"}
UserTags   == {"userID", "userAttribute"}
Tags       == KeyTags \cup SubkeyTags \cup UserTags \cup {"signature"}
CertTypes  == {"certification"}     \* generic, persona, casual and positive alike
SigTypes   == CertTypes \cup
              {"certRevocation", "key", "subkeyBinding", "keyRevocation", "subkeyRevocation", "other"}

ASSUME TagAssumption == Unparseable \subseteq Tags /\ MaxPackets \in Nat

VARIABLES kind,      \* which class createKey instantiates
          packets,   \* the packets processed
          key        \* the key object, and the loop's local variables

vars == <<kind, packets, key>>
-----------------------------------------------------------------------------
\* type: of a signature; self: whether its issuer is the primary key.
Packet == [pos : Nat, tag : Tags, ok : BOOLEAN, type : SigTypes \cup {"none"}, self : BOOLEAN]
NoPacket == [pos |-> 0, tag |-> "signature", ok |-> FALSE, type |-> "none", self |-> FALSE]

\* The packets that the list may hold, at position n.
Bare(n, tag, ok) == [pos |-> n, tag |-> tag, ok |-> ok, type |-> "none", self |-> FALSE]
Signature(n, type, self) ==
  [pos |-> n, tag |-> "signature", ok |-> TRUE, type |-> type, self |-> self]
Incoming(n) ==
  {Bare(n, t, TRUE) : t \in Tags \ {"signature"}} \cup
  {Bare(n, t, FALSE) : t \in Unparseable} \cup
  {Signature(n, y, FALSE) : y \in SigTypes} \cup
  {Signature(n, y, TRUE) : y \in CertTypes}

\* user and subkey: whether these locals refer to the last user and subkey;
\* ignoreUntil: the set of tags that it holds.
EmptyKey == [keyPacket |-> NoPacket, revocationSignatures |-> <<>>, directSignatures |-> <<>>,
             users |-> <<>>, subkeys |-> <<>>,
             user |-> FALSE, subkey |-> FALSE, ignoreUntil |-> {}, threw |-> FALSE]
NewUser(p)   == [packet |-> p, selfCertifications |-> <<>>, otherCertifications |-> <<>>,
                 revocationSignatures |-> <<>>]
NewSubkey(p) == [packet |-> p, bindingSignatures |-> <<>>, revocationSignatures |-> <<>>]

TypeOK ==
  /\ kind \in {"PublicKey", "PrivateKey"}
  /\ packets \in Seq(Packet) /\ Len(packets) <= MaxPackets
  /\ key.keyPacket \in Packet
  /\ key.revocationSignatures \in Seq(Packet) /\ key.directSignatures \in Seq(Packet)
  /\ \A i \in DOMAIN key.users : key.users[i].packet.tag \in UserTags
  /\ \A i \in DOMAIN key.subkeys : key.subkeys[i].packet.tag \in SubkeyTags
  /\ key.user => key.users # <<>>
  /\ key.subkey <=> key.subkeys # <<>>
  /\ key.threw \in BOOLEAN
-----------------------------------------------------------------------------
\* enums.packet has no privateKey and no privateSubkey: these two sets hold
\* undefined in the place of the secret key tags.
mainKeyPacketTags == {"publicKey", "undefined"}
keyPacketTags     == {"publicKey", "publicSubkey", "undefined"}

disallowedPackets(k) ==
  IF k = "PublicKey" THEN {"secretKey", "secretSubkey"} ELSE {"publicKey", "publicSubkey"}

Throw(st) == [st EXCEPT !.threw = TRUE]

\* Mutants: unparseable packets are skipped; after an unparseable primary key,
\* the next subkey ends the part to ignore.
OnUnparseableSkips(st, p) == st
OnUnparseableAnyKey(st, p) ==
  IF p.tag \in keyPacketTags /\ st.ignoreUntil = {}
  THEN [st EXCEPT !.ignoreUntil = keyPacketTags] ELSE st

\* A packet that could not be parsed.
OnUnparseable(st, p) ==
  IF p.tag \in keyPacketTags /\ st.ignoreUntil = {}
  THEN [st EXCEPT !.ignoreUntil = IF p.tag \in mainKeyPacketTags THEN mainKeyPacketTags
                                  ELSE keyPacketTags]
  ELSE st

OnKey(st, p) ==
  IF st.keyPacket # NoPacket THEN Throw(st) ELSE [st EXCEPT !.keyPacket = p]
OnUser(st, p) ==
  [st EXCEPT !.user = TRUE, !.users = Append(@, NewUser(p))]
\* Mutant: a subkey leaves `user' as it was.
OnSubkeyKeepsUser(st, p) ==
  [st EXCEPT !.subkey = TRUE, !.subkeys = Append(@, NewSubkey(p))]
OnSubkey(st, p) ==
  [st EXCEPT !.user = FALSE, !.subkey = TRUE, !.subkeys = Append(@, NewSubkey(p))]

\* A certification before the primary key has no key ID to compare with.
OnCertification(st, p) ==
  LET n == Len(st.users)
  IN  IF ~st.user THEN st
      ELSE IF st.keyPacket = NoPacket THEN Throw(st)
      ELSE IF p.self THEN [st EXCEPT !.users[n].selfCertifications = Append(@, p)]
      ELSE [st EXCEPT !.users[n].otherCertifications = Append(@, p)]

OnCertRevocation(st, p) ==
  IF st.user THEN [st EXCEPT !.users[Len(st.users)].revocationSignatures = Append(@, p)]
  ELSE [st EXCEPT !.directSignatures = Append(@, p)]

OnSubkeyBinding(st, p) ==
  IF st.subkey THEN [st EXCEPT !.subkeys[Len(st.subkeys)].bindingSignatures = Append(@, p)] ELSE st
OnSubkeyRevocation(st, p) ==
  IF st.subkey THEN [st EXCEPT !.subkeys[Len(st.subkeys)].revocationSignatures = Append(@, p)] ELSE st

OnSignature(st, p) ==
  CASE p.type \in CertTypes        -> OnCertification(st, p)
    [] p.type = "certRevocation"   -> OnCertRevocation(st, p)
    [] p.type = "key"              -> [st EXCEPT !.directSignatures = Append(@, p)]
    [] p.type = "subkeyBinding"    -> OnSubkeyBinding(st, p)
    [] p.type = "keyRevocation"    -> [st EXCEPT !.revocationSignatures = Append(@, p)]
    [] p.type = "subkeyRevocation" -> OnSubkeyRevocation(st, p)
    [] OTHER                       -> st

\* One iteration of packetListToStructure, for a key object of class k.
Step(k, st, p) ==
  LET found == [st EXCEPT !.ignoreUntil = {}]
  IN  IF st.threw THEN st
      ELSE IF ~p.ok THEN OnUnparseable(st, p)
      ELSE IF st.ignoreUntil # {} /\ p.tag \notin st.ignoreUntil THEN st
      ELSE IF p.tag \in disallowedPackets(k) THEN Throw(found)
      ELSE IF p.tag \in KeyTags THEN OnKey(found, p)
      ELSE IF p.tag \in UserTags THEN OnUser(found, p)
      ELSE IF p.tag \in SubkeyTags THEN OnSubkey(found, p)
      ELSE OnSignature(found, p)

packetListToStructure(k, list) == FoldLeft(LAMBDA st, p : Step(k, st, p), EmptyKey, list)
-----------------------------------------------------------------------------
\* Mutant: certifications by others are not written.
UserPacketsSelf(u) == <<u.packet>> \o u.revocationSignatures \o u.selfCertifications
UserPackets(u) ==
  <<u.packet>> \o u.revocationSignatures \o u.selfCertifications \o u.otherCertifications
SubkeyPackets(s) == <<s.packet>> \o s.revocationSignatures \o s.bindingSignatures

toPacketList(k) ==
  <<k.keyPacket>> \o k.revocationSignatures \o k.directSignatures
  \o FlattenSeq([i \in DOMAIN k.users |-> UserPackets(k.users[i])])
  \o FlattenSeq([i \in DOMAIN k.subkeys |-> SubkeyPackets(k.subkeys[i])])

\* Mutant: secret subkeys are left as they are.
publicPacketPrimary(p) == [p EXCEPT !.tag = IF @ = "secretKey" THEN "publicKey" ELSE @]

\* PrivateKey.toPublic: the packets, with public key packets for secret ones.
publicPacket(p) == [p EXCEPT !.tag = CASE @ = "secretKey"    -> "publicKey"
                                       [] @ = "secretSubkey" -> "publicSubkey"
                                       [] OTHER              -> @]
toPublicList(k) == [i \in DOMAIN toPacketList(k) |-> publicPacket(toPacketList(k)[i])]
-----------------------------------------------------------------------------
Init == kind \in {"PublicKey", "PrivateKey"} /\ packets = <<>> /\ key = EmptyKey

\* createKey instantiates the class of the first primary key that was parsed.
Instantiable(p) ==
  p.ok /\ p.tag \in KeyTags /\ (\A i \in DOMAIN packets : ~(packets[i].ok /\ packets[i].tag \in KeyTags))
    => p.tag \notin disallowedPackets(kind)

Read(p) ==
  /\ Len(packets) < MaxPackets /\ ~key.threw /\ Instantiable(p)
  /\ packets' = Append(packets, p)
  /\ key' = Step(kind, key, p)
  /\ UNCHANGED kind

Next == \E p \in Incoming(Len(packets) + 1) : Read(p)

Spec == Init /\ [][Next]_vars
-----------------------------------------------------------------------------
(* Properties *)

\* The constructor accepts the list read so far.
Constructed == ~key.threw /\ key.keyPacket # NoPacket

\* The block starts with its primary key, as the slices of readKeys do.
KeyFirst == Constructed /\ key.keyPacket.pos = 1

\* What the object keeps of its structure when it is read back: all but the
\* loop's locals.
Structure(st) == [st EXCEPT !.user = FALSE, !.subkey = FALSE, !.ignoreUntil = {}]

\* Writing a key and reading it back loses, moves and invents nothing,
\* whatever the order of the packets it was first read from: clone() and
\* armor() rely on toPacketList and packetListToStructure being inverse.
\* And the public half of a private key has the same users, subkeys and
\* signatures, in the same places (PrivateKey.toPublic).
RoundTrip ==
  /\ TypeOK
  /\ Constructed =>
       /\ Structure(packetListToStructure(kind, toPacketList(key))) = Structure(key)
       /\ LET pub == packetListToStructure("PublicKey", toPublicList(key))
          IN  ~pub.threw /\ toPacketList(pub) = toPublicList(key)

\* Position of the last packet before position n that has one of the tags.
LastBefore(n, tags) == SelectLastInSubSeq(packets, 1, n - 1, LAMBDA p : p.tag \in tags)

\* A user's signatures come after its packet with no key or other user packet
\* in between (packetListToStructure resets `user' at a subkey).
UserSigsAttached ==
  \A i \in DOMAIN key.users :
    LET u == key.users[i]
        sigs == u.selfCertifications \o u.otherCertifications \o u.revocationSignatures
    IN  \A j \in DOMAIN sigs :
          LastBefore(sigs[j].pos, UserTags \cup KeyTags \cup SubkeyTags) = u.packet.pos

\* "non-key packets apply to the preceding key packet": a subkey's signatures
\* come after its packet with no other key packet in between, parsed or not
\* (ignoreUntil in packetListToStructure).
SubkeySigsAttached ==
  \A i \in DOMAIN key.subkeys :
    LET s == key.subkeys[i]
        sigs == s.bindingSignatures \o s.revocationSignatures
    IN  \A j \in DOMAIN sigs :
          LastBefore(sigs[j].pos, KeyTags \cup SubkeyTags) = s.packet.pos

\* All packets after a primary key up to the next one belong to it: the users
\* and subkeys of the object follow its own primary key packet with no other
\* in between, parsed or not (mainKeyPacketTags in packetListToStructure).
\* A primary key that cannot be parsed amid packets that are skipped already,
\* those of an unparseable subkey, does not widen what is skipped.
SubkeySkipped(n) == \E i \in 1 .. n - 1 : ~packets[i].ok /\ packets[i].tag \in SubkeyTags
PrimaryOwns ==
  \A p \in {key.users[i].packet : i \in DOMAIN key.users} \cup
           {key.subkeys[i].packet : i \in DOMAIN key.subkeys} :
    SubkeySkipped(p.pos) \/ LastBefore(p.pos, KeyTags) = key.keyPacket.pos

\* Nothing of a key is filed under the wrong component, whatever the order of
\* the packets and whichever of them cannot be parsed.
FiledRight == KeyFirst => UserSigsAttached /\ SubkeySigsAttached /\ PrimaryOwns
=============================================================================
