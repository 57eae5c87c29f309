------------------------ MODULE KeyStructureInvariant ------------------------
(***************************************************************************)
(* The inductive invariant behind FiledRight of KeyStructure: what the     *)
(* loop's local variables mean for the next packet.                        *)
(***************************************************************************)
EXTENDS KeyStructure

Users   == [packet : Packet, selfCertifications : Seq(Packet), otherCertifications : Seq(Packet),
            revocationSignatures : Seq(Packet)]
Subkeys == [packet : Packet, bindingSignatures : Seq(Packet), revocationSignatures : Seq(Packet)]
Keys    == [keyPacket : Packet, revocationSignatures : Seq(Packet), directSignatures : Seq(Packet),
            users : Seq(Users), subkeys : Seq(Subkeys), user : BOOLEAN, subkey : BOOLEAN,
            ignoreUntil : {{}, mainKeyPacketTags, keyPacketTags}, threw : BOOLEAN]

\* Packets are known by their places; the object is empty until there is one.
PacketsRight == /\ packets \in Seq(Packet) /\ Len(packets) <= MaxPackets
                /\ \A i \in DOMAIN packets : /\ packets[i].pos = i
                                             /\ packets[i].ok \/ packets[i].tag \in Unparseable
Sound(st) == /\ st \in Keys
             /\ \A i \in DOMAIN st.users : st.users[i].packet.tag \in UserTags
             /\ \A i \in DOMAIN st.subkeys : st.subkeys[i].packet.tag \in SubkeyTags
             /\ st.user => st.users # <<>>
             /\ st.subkey <=> st.subkeys # <<>>
KeyRight == /\ kind \in {"PublicKey", "PrivateKey"} /\ Sound(key)
            /\ packets = <<>> => key = EmptyKey

\* The place of the packet to come.
Here == Len(packets) + 1
Structural == UserTags \cup KeyTags \cup SubkeyTags

UserSigs(u)   == ToSet(u.selfCertifications) \cup ToSet(u.otherCertifications) \cup ToSet(u.revocationSignatures)
SubkeySigs(s) == ToSet(s.bindingSignatures) \cup ToSet(s.revocationSignatures)

\* A packet read under the primary key, the first packet of the block.
Owned(p) == p.pos \in 1 .. Len(packets) /\ (SubkeySkipped(p.pos) \/ LastBefore(p.pos, KeyTags) = 1)
Filed(p, tags, sigs) ==
  Owned(p) /\ \A sig \in sigs : sig.pos \in 1 .. Len(packets) /\ LastBefore(sig.pos, tags) = p.pos
UsersFiled(us)   == \A i \in DOMAIN us : Filed(us[i].packet, Structural, UserSigs(us[i]))
SubkeysFiled(ss) == \A i \in DOMAIN ss : Filed(ss[i].packet, KeyTags \cup SubkeyTags, SubkeySigs(ss[i]))
ComponentsFiled  == UsersFiled(key.users) /\ SubkeysFiled(key.subkeys)

\* What a packet to come would be filed under, unless packets are skipped.
LocalsRight ==
  /\ key.ignoreUntil = {} =>
       /\ key.user => key.users[Len(key.users)].packet.pos = LastBefore(Here, Structural)
       /\ key.subkey => key.subkeys[Len(key.subkeys)].packet.pos = LastBefore(Here, KeyTags \cup SubkeyTags)
       /\ SubkeySkipped(Here) \/ LastBefore(Here, KeyTags) = 1
  /\ key.ignoreUntil = keyPacketTags => SubkeySkipped(Here)

\* What a key object of class k may consist of: each list has signatures of
\* its own type, by the issuer that its name says.
SigsOf(types) == {p \in Packet : p.ok /\ p.tag = "signature" /\ p.type \in types}
Primaries(k) == {p \in Packet : p.ok /\ p.tag \in KeyTags \ disallowedPackets(k)}
UserContents == [packet : {p \in Packet : p.ok /\ p.tag \in UserTags},
                 selfCertifications : Seq({p \in SigsOf(CertTypes) : p.self}),
                 otherCertifications : Seq({p \in SigsOf(CertTypes) : ~p.self}),
                 revocationSignatures : Seq(SigsOf({"certRevocation"}))]
SubkeyContents(k) == [packet : {p \in Packet : p.ok /\ p.tag \in SubkeyTags \ disallowedPackets(k)},
                      bindingSignatures : Seq(SigsOf({"subkeyBinding"})),
                      revocationSignatures : Seq(SigsOf({"subkeyRevocation"}))]
Contents(k, st) ==
  /\ st.keyPacket \in {NoPacket} \cup Primaries(k)
  /\ st.revocationSignatures \in Seq(SigsOf({"keyRevocation"}))
  /\ st.directSignatures \in Seq(SigsOf({"key", "certRevocation"}))
  /\ st.users \in Seq(UserContents) /\ st.subkeys \in Seq(SubkeyContents(k))
ContentsRight == Contents(kind, key)

IInv == /\ PacketsRight /\ KeyRight
        /\ KeyFirst => ComponentsFiled /\ LocalsRight
=============================================================================
