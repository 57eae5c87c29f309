------------------------- MODULE KeyStructureProofs -------------------------
(***************************************************************************)
(* Theorems about KeyStructure, for packet lists of any length.            *)
(***************************************************************************)
EXTENDS KeyStructureInvariant, FoldProofs

-----------------------------------------------------------------------------
(* Where a packet is filed *)

\* Which packets may be unparseable: with the others, packets are filed
\* under what precedes the unparseable one.
Readable == Unparseable \cap (UserTags \cup {"secretKey", "secretSubkey"}) = {}

LEMMA TagsApart ==
  /\ KeyTags \cap SubkeyTags = {} /\ KeyTags \cap UserTags = {} /\ SubkeyTags \cap UserTags = {}
  /\ "signature" \notin Structural /\ "signature" \in Tags
  /\ mainKeyPacketTags # {} /\ keyPacketTags # {} /\ mainKeyPacketTags # keyPacketTags
BY DEF KeyTags, SubkeyTags, UserTags, Tags, Structural, mainKeyPacketTags, keyPacketTags

\* The packets that a list may hold at position n.
LEMMA IncomingFacts ==
  ASSUME NEW n \in Nat, NEW p \in Incoming(n)
  PROVE  /\ p \in Packet /\ p.pos = n /\ (p.ok \/ p.tag \in Unparseable)
         /\ p.tag = "signature" /\ p.ok => p.type \in SigTypes
<1>1. Unparseable \subseteq Tags
  BY TagAssumption
<1>2. ASSUME NEW t \in Tags, NEW ok \in BOOLEAN
      PROVE  Bare(n, t, ok) \in Packet /\ Bare(n, t, ok).pos = n /\ Bare(n, t, ok).tag = t /\ Bare(n, t, ok).ok = ok
  BY DEF Bare, Packet
<1>3. ASSUME NEW y \in SigTypes, NEW self \in BOOLEAN
      PROVE  /\ Signature(n, y, self) \in Packet /\ Signature(n, y, self).pos = n /\ Signature(n, y, self).ok
             /\ Signature(n, y, self).type = y
  BY TagsApart DEF Signature, Packet
<1>4. CertTypes \subseteq SigTypes
  BY DEF SigTypes
<1>5. CASE p \in {Bare(n, t, TRUE) : t \in Tags \ {"signature"}}
  <2>1. PICK t \in Tags \ {"signature"} : p = Bare(n, t, TRUE)
    BY <1>5
  <2> QED BY <1>2, <2>1
<1>6. CASE p \in {Bare(n, t, FALSE) : t \in Unparseable}
  <2>1. PICK t \in Unparseable : p = Bare(n, t, FALSE)
    BY <1>6
  <2> QED BY <1>1, <1>2, <2>1
<1>7. CASE p \in {Signature(n, y, FALSE) : y \in SigTypes} \cup {Signature(n, y, TRUE) : y \in CertTypes}
  <2>1. PICK y \in SigTypes, self \in BOOLEAN : p = Signature(n, y, self)
    BY <1>4, <1>7
  <2> QED BY <1>3, <2>1
<1> QED BY <1>5, <1>6, <1>7 DEF Incoming

\* A packet that comes leaves alone what is before it.
LEMMA PacketComes ==
  ASSUME PacketsRight, NEW p \in Packet, packets' = Append(packets, p)
  PROVE  /\ Len(packets) \in Nat /\ Here \in Nat /\ Len(packets') = Here /\ Here' = Here + 1
         /\ packets' \in Seq(Packet) /\ packets'[Here] = p /\ \A i \in 1 .. Len(packets) : packets'[i] = packets[i]
         /\ \A n \in 1 .. Here : \A tags : LastBefore(n, tags)' = LastBefore(n, tags)
         /\ \A tags : LastBefore(Here, tags)' = IF p.tag \in tags THEN Here ELSE LastBefore(Here, tags)
         /\ \A n \in 1 .. Here : SubkeySkipped(n)' <=> SubkeySkipped(n)
         /\ SubkeySkipped(Here)' <=> SubkeySkipped(Here) \/ (~p.ok /\ p.tag \in SubkeyTags)
<1>1. /\ Len(packets) \in Nat /\ Here \in Nat /\ Len(packets') = Here /\ Here' = Here + 1
      /\ packets' \in Seq(Packet) /\ packets'[Here] = p /\ \A i \in 1 .. Len(packets) : packets'[i] = packets[i]
  BY DEF PacketsRight, Here
<1> DEFINE With(n, tags) == {i \in 1 .. (n - 1) : packets[i].tag \in tags}
<1>2. \A n, tags : LastBefore(n, tags) = IF With(n, tags) # {} THEN Max(With(n, tags)) ELSE 0
  BY DEF LastBefore, SelectLastInSubSeq
<1>3. \A n, tags : LastBefore(n, tags)' = IF With(n, tags)' # {} THEN Max(With(n, tags)') ELSE 0
  BY DEF LastBefore, SelectLastInSubSeq
<1>4. \A n \in 1 .. Here : \A tags : With(n, tags)' = With(n, tags)
  <2> SUFFICES ASSUME NEW n \in 1 .. Here, NEW tags PROVE With(n, tags)' = With(n, tags)
    OBVIOUS
  <2>1. \A i \in 1 .. (n - 1) : packets'[i] = packets[i]
    BY <1>1 DEF Here
  <2> QED BY <2>1
<1>5. \A tags : With(Here, tags)' = IF p.tag \in tags THEN With(Here, tags) \cup {Here} ELSE With(Here, tags)
  <2> SUFFICES ASSUME NEW tags
               PROVE  With(Here, tags)' = IF p.tag \in tags THEN With(Here, tags) \cup {Here} ELSE With(Here, tags)
    OBVIOUS
  <2>1. With(Here, tags)' = {i \in 1 .. Here : packets'[i].tag \in tags}
    BY <1>1
  <2>2. \A i : i \in 1 .. Here <=> i \in 1 .. (Here - 1) \/ i = Here
    BY <1>1
  <2>3. \A i \in 1 .. (Here - 1) : packets'[i] = packets[i]
    BY <1>1 DEF Here
  <2> QED BY <1>1, <2>1, <2>2, <2>3
<1>6. \A tags : Max(With(Here, tags) \cup {Here}) = Here
  <2> SUFFICES ASSUME NEW tags PROVE Max(With(Here, tags) \cup {Here}) = Here
    OBVIOUS
  <2> DEFINE S == With(Here, tags) \cup {Here}
  <2>1. S \subseteq 1 .. Here /\ S # {} /\ Here \in S
    BY <1>1 DEF Here
  <2> HIDE DEF S
  <2>2. Max(S) \in S /\ \A y \in S : Max(S) >= y
    BY <1>1, <2>1, GreatestNumber
  <2>3. PICK m : m = Max(S)
    OBVIOUS
  <2>4. m \in 1 .. Here /\ m >= Here
    BY <2>1, <2>2, <2>3
  <2>5. m = Here
    BY <1>1, <2>4
  <2> QED BY <2>3, <2>5 DEF S
<1> HIDE DEF With
<1>7. \A n \in 1 .. Here : \A tags : LastBefore(n, tags)' = LastBefore(n, tags)
  BY <1>2, <1>3, <1>4
<1>8. \A tags : LastBefore(Here, tags)' = IF p.tag \in tags THEN Here ELSE LastBefore(Here, tags)
  <2> SUFFICES ASSUME NEW tags
               PROVE  LastBefore(Here, tags)' = IF p.tag \in tags THEN Here ELSE LastBefore(Here, tags)
    OBVIOUS
  <2>1. LastBefore(Here, tags)' = IF With(Here, tags)' # {} THEN Max(With(Here, tags)') ELSE 0
    BY DEF LastBefore, SelectLastInSubSeq, With
  <2> QED BY <1>2, <1>5, <1>6, <2>1
<1>9. \A n \in 1 .. Here : SubkeySkipped(n)' <=> SubkeySkipped(n)
  <2> SUFFICES ASSUME NEW n \in 1 .. Here PROVE SubkeySkipped(n)' <=> SubkeySkipped(n)
    OBVIOUS
  <2>1. \A i \in 1 .. (n - 1) : packets'[i] = packets[i]
    BY <1>1 DEF Here
  <2> QED BY <2>1 DEF SubkeySkipped
<1>10. SubkeySkipped(Here)' <=> SubkeySkipped(Here) \/ (~p.ok /\ p.tag \in SubkeyTags)
  <2>1. SubkeySkipped(Here)' <=> \E i \in 1 .. Here : ~packets'[i].ok /\ packets'[i].tag \in SubkeyTags
    BY <1>1 DEF SubkeySkipped
  <2>2. \A i : i \in 1 .. Here <=> i \in 1 .. (Here - 1) \/ i = Here
    BY <1>1
  <2>3. \A i \in 1 .. (Here - 1) : packets'[i] = packets[i]
    BY <1>1 DEF Here
  <2> QED BY <1>1, <2>1, <2>2, <2>3 DEF SubkeySkipped
<1> QED BY <1>1, <1>7, <1>8, <1>9, <1>10
-----------------------------------------------------------------------------
(* What a packet does to the key object *)

Same(st, st2) ==
  /\ st2.keyPacket = st.keyPacket /\ st2.users = st.users /\ st2.subkeys = st.subkeys
  /\ st2.user = st.user /\ st2.subkey = st.subkey
Throws(st, st2) == st2.threw /\ Same(st, st2)
SetsIgnore(st, p, st2) ==
  /\ ~p.ok /\ Same(st, st2)
  /\ st2.ignoreUntil = IF p.tag \in keyPacketTags /\ st.ignoreUntil = {}
                       THEN IF p.tag \in mainKeyPacketTags THEN mainKeyPacketTags ELSE keyPacketTags
                       ELSE st.ignoreUntil
Skips(st, p, st2) == Same(st, st2) /\ st2.ignoreUntil = st.ignoreUntil /\ st.ignoreUntil # {}
TakesKey(st, p, st2) ==
  /\ p.tag \in KeyTags /\ st.keyPacket = NoPacket /\ st2.keyPacket = p
  /\ st2.users = st.users /\ st2.subkeys = st.subkeys /\ st2.user = st.user /\ st2.subkey = st.subkey
TakesUser(st, p, st2) ==
  /\ p.tag \in UserTags /\ st2.keyPacket = st.keyPacket
  /\ st2.users = Append(st.users, NewUser(p)) /\ st2.subkeys = st.subkeys
  /\ st2.user = TRUE /\ st2.subkey = st.subkey
TakesSubkey(st, p, st2) ==
  /\ p.tag \in SubkeyTags /\ st2.keyPacket = st.keyPacket
  /\ st2.users = st.users /\ st2.subkeys = Append(st.subkeys, NewSubkey(p))
  /\ st2.user = FALSE /\ st2.subkey = TRUE
SignsUser(st, p, st2) ==
  /\ p.tag = "signature" /\ st.user /\ st.users # <<>>
  /\ st2.keyPacket = st.keyPacket /\ st2.subkeys = st.subkeys
  /\ st2.user = st.user /\ st2.subkey = st.subkey
  /\ \E w \in Users : /\ st2.users = [st.users EXCEPT ![Len(st.users)] = w]
                      /\ w.packet = st.users[Len(st.users)].packet
                      /\ UserSigs(w) = UserSigs(st.users[Len(st.users)]) \cup {p}
SignsSubkey(st, p, st2) ==
  /\ p.tag = "signature" /\ st.subkey /\ st.subkeys # <<>>
  /\ st2.keyPacket = st.keyPacket /\ st2.users = st.users
  /\ st2.user = st.user /\ st2.subkey = st.subkey
  /\ \E w \in Subkeys : /\ st2.subkeys = [st.subkeys EXCEPT ![Len(st.subkeys)] = w]
                        /\ w.packet = st.subkeys[Len(st.subkeys)].packet
                        /\ SubkeySigs(w) = SubkeySigs(st.subkeys[Len(st.subkeys)]) \cup {p}
SignsKey(st, p, st2) == p.tag = "signature" /\ Same(st, st2)
Takes(st, p, st2) ==
  /\ p.ok /\ st2.ignoreUntil = {} /\ (st.ignoreUntil = {} \/ p.tag \in st.ignoreUntil)
  /\ \/ TakesKey(st, p, st2) \/ TakesUser(st, p, st2) \/ TakesSubkey(st, p, st2)
     \/ SignsUser(st, p, st2) \/ SignsSubkey(st, p, st2) \/ SignsKey(st, p, st2)
Effect(st, p, st2) ==
  Throws(st, st2) \/ SetsIgnore(st, p, st2) \/ Skips(st, p, st2) \/ Takes(st, p, st2)

LEMMA ToSetAppend ==
  ASSUME NEW S, NEW s \in Seq(S), NEW e \in S
  PROVE  ToSet(Append(s, e)) = ToSet(s) \cup {e} /\ Append(s, e) \in Seq(S)
<1>1. /\ Append(s, e) \in Seq(S) /\ Len(Append(s, e)) = Len(s) + 1 /\ Len(s) \in Nat
      /\ \A i \in 1 .. Len(s) : Append(s, e)[i] = s[i]
      /\ Append(s, e)[Len(s) + 1] = e
  OBVIOUS
<1> DEFINE a == Append(s, e)
<1>2. DOMAIN a = 1 .. (Len(s) + 1) /\ DOMAIN s = 1 .. Len(s)
  BY <1>1
<1>3. \A i : i \in DOMAIN a <=> i \in DOMAIN s \/ i = Len(s) + 1
  BY <1>1, <1>2
<1>4. a[Len(s) + 1] = e /\ \A i \in DOMAIN s : a[i] = s[i]
  BY <1>1, <1>2
<1> HIDE DEF a
<1>5. ToSet(a) = ToSet(s) \cup {e}
  BY <1>3, <1>4 DEF ToSet
<1> QED BY <1>1, <1>5 DEF a

\* A signature added to the record of the last user or subkey.
LEMMA SignedUser ==
  ASSUME NEW u \in Users, NEW p \in Packet
  PROVE  /\ [u EXCEPT !.selfCertifications = Append(@, p)] \in Users
         /\ [u EXCEPT !.otherCertifications = Append(@, p)] \in Users
         /\ [u EXCEPT !.revocationSignatures = Append(@, p)] \in Users
         /\ \A w \in {[u EXCEPT !.selfCertifications = Append(@, p)],
                      [u EXCEPT !.otherCertifications = Append(@, p)],
                      [u EXCEPT !.revocationSignatures = Append(@, p)]} :
              w.packet = u.packet /\ UserSigs(w) = UserSigs(u) \cup {p}
<1> DEFINE a == [u EXCEPT !.selfCertifications = Append(@, p)]
           b == [u EXCEPT !.otherCertifications = Append(@, p)]
           c == [u EXCEPT !.revocationSignatures = Append(@, p)]
<1>1. /\ u.selfCertifications \in Seq(Packet) /\ u.otherCertifications \in Seq(Packet)
      /\ u.revocationSignatures \in Seq(Packet) /\ u.packet \in Packet
  BY DEF Users
<1>2. /\ Append(u.selfCertifications, p) \in Seq(Packet) /\ Append(u.otherCertifications, p) \in Seq(Packet)
      /\ Append(u.revocationSignatures, p) \in Seq(Packet)
      /\ ToSet(Append(u.selfCertifications, p)) = ToSet(u.selfCertifications) \cup {p}
      /\ ToSet(Append(u.otherCertifications, p)) = ToSet(u.otherCertifications) \cup {p}
      /\ ToSet(Append(u.revocationSignatures, p)) = ToSet(u.revocationSignatures) \cup {p}
  BY <1>1, ToSetAppend
<1>3. a \in Users /\ b \in Users /\ c \in Users
  BY <1>2 DEF Users
<1>4. /\ a.packet = u.packet /\ a.selfCertifications = Append(u.selfCertifications, p)
      /\ a.otherCertifications = u.otherCertifications /\ a.revocationSignatures = u.revocationSignatures
  BY DEF Users
<1>5. /\ b.packet = u.packet /\ b.otherCertifications = Append(u.otherCertifications, p)
      /\ b.selfCertifications = u.selfCertifications /\ b.revocationSignatures = u.revocationSignatures
  BY DEF Users
<1>6. /\ c.packet = u.packet /\ c.revocationSignatures = Append(u.revocationSignatures, p)
      /\ c.selfCertifications = u.selfCertifications /\ c.otherCertifications = u.otherCertifications
  BY DEF Users
<1> HIDE DEF a, b, c
<1>7. a.packet = u.packet /\ UserSigs(a) = UserSigs(u) \cup {p}
  BY <1>2, <1>4 DEF UserSigs
<1>8. b.packet = u.packet /\ UserSigs(b) = UserSigs(u) \cup {p}
  BY <1>2, <1>5 DEF UserSigs
<1>9. c.packet = u.packet /\ UserSigs(c) = UserSigs(u) \cup {p}
  BY <1>2, <1>6 DEF UserSigs
<1>10. \A w \in {a, b, c} : w.packet = u.packet /\ UserSigs(w) = UserSigs(u) \cup {p}
  BY <1>7, <1>8, <1>9
<1> QED BY <1>3, <1>10 DEF a, b, c

LEMMA SignedSubkey ==
  ASSUME NEW s \in Subkeys, NEW p \in Packet
  PROVE  /\ [s EXCEPT !.bindingSignatures = Append(@, p)] \in Subkeys
         /\ [s EXCEPT !.revocationSignatures = Append(@, p)] \in Subkeys
         /\ \A w \in {[s EXCEPT !.bindingSignatures = Append(@, p)],
                      [s EXCEPT !.revocationSignatures = Append(@, p)]} :
              w.packet = s.packet /\ SubkeySigs(w) = SubkeySigs(s) \cup {p}
<1> DEFINE a == [s EXCEPT !.bindingSignatures = Append(@, p)]
           b == [s EXCEPT !.revocationSignatures = Append(@, p)]
<1>1. /\ s.bindingSignatures \in Seq(Packet) /\ s.revocationSignatures \in Seq(Packet) /\ s.packet \in Packet
  BY DEF Subkeys
<1>2. /\ Append(s.bindingSignatures, p) \in Seq(Packet) /\ Append(s.revocationSignatures, p) \in Seq(Packet)
      /\ ToSet(Append(s.bindingSignatures, p)) = ToSet(s.bindingSignatures) \cup {p}
      /\ ToSet(Append(s.revocationSignatures, p)) = ToSet(s.revocationSignatures) \cup {p}
  BY <1>1, ToSetAppend
<1>3. a \in Subkeys /\ b \in Subkeys
  BY <1>2 DEF Subkeys
<1>4. /\ a.packet = s.packet /\ a.bindingSignatures = Append(s.bindingSignatures, p)
      /\ a.revocationSignatures = s.revocationSignatures
  BY DEF Subkeys
<1>5. /\ b.packet = s.packet /\ b.revocationSignatures = Append(s.revocationSignatures, p)
      /\ b.bindingSignatures = s.bindingSignatures
  BY DEF Subkeys
<1> HIDE DEF a, b
<1>6. a.packet = s.packet /\ SubkeySigs(a) = SubkeySigs(s) \cup {p}
  BY <1>2, <1>4 DEF SubkeySigs
<1>7. b.packet = s.packet /\ SubkeySigs(b) = SubkeySigs(s) \cup {p}
  BY <1>2, <1>5 DEF SubkeySigs
<1>8. \A w \in {a, b} : w.packet = s.packet /\ SubkeySigs(w) = SubkeySigs(s) \cup {p}
  BY <1>6, <1>7
<1> QED BY <1>3, <1>8 DEF a, b

LEMMA KeyFields ==
  ASSUME NEW st \in Keys
  PROVE  /\ st.keyPacket \in Packet /\ st.revocationSignatures \in Seq(Packet) /\ st.directSignatures \in Seq(Packet)
         /\ st.users \in Seq(Users) /\ st.subkeys \in Seq(Subkeys)
         /\ st.user \in BOOLEAN /\ st.subkey \in BOOLEAN /\ st.threw \in BOOLEAN
         /\ st.ignoreUntil \in {{}, mainKeyPacketTags, keyPacketTags}
BY DEF Keys

LEMMA NewComponents ==
  ASSUME NEW p \in Packet
  PROVE  /\ NewUser(p) \in Users /\ NewUser(p).packet = p /\ UserSigs(NewUser(p)) = {}
         /\ NewSubkey(p) \in Subkeys /\ NewSubkey(p).packet = p /\ SubkeySigs(NewSubkey(p)) = {}
<1>1. ToSet(<<>>) = {} /\ <<>> \in Seq(Packet)
  BY DEF ToSet
<1>2. /\ NewUser(p).packet = p /\ NewUser(p).selfCertifications = <<>>
      /\ NewUser(p).otherCertifications = <<>> /\ NewUser(p).revocationSignatures = <<>>
      /\ NewSubkey(p).packet = p /\ NewSubkey(p).bindingSignatures = <<>> /\ NewSubkey(p).revocationSignatures = <<>>
  BY DEF NewUser, NewSubkey
<1>3. NewUser(p) \in Users /\ NewSubkey(p) \in Subkeys
  BY <1>1 DEF NewUser, NewSubkey, Users, Subkeys
<1> QED BY <1>1, <1>2, <1>3 DEF UserSigs, SubkeySigs

LEMMA Thrown ==
  ASSUME NEW st \in Keys
  PROVE  Throw(st) \in Keys /\ Throws(st, Throw(st))
BY DEF Keys, Throw, Throws, Same

LEMMA SeqExcept ==
  ASSUME NEW S, NEW s \in Seq(S), NEW i, NEW e \in S
  PROVE  LET s2 == [s EXCEPT ![i] = e]
         IN  /\ s2 \in Seq(S) /\ Len(s2) = Len(s) /\ DOMAIN s2 = DOMAIN s
             /\ \A j \in DOMAIN s : s2[j] = IF j = i THEN e ELSE s[j]
<1> DEFINE s2 == [s EXCEPT ![i] = e]
<1>1. Len(s) \in Nat /\ DOMAIN s = 1 .. Len(s) /\ s \in [1 .. Len(s) -> S]
  OBVIOUS
<1>2. PICK n \in Nat : n = Len(s)
  BY <1>1
<1>3. s2 \in [1 .. n -> S] /\ DOMAIN s2 = 1 .. n /\ \A j \in 1 .. n : s2[j] = IF j = i THEN e ELSE s[j]
  BY <1>1, <1>2
<1> HIDE DEF s2
<1>4. s2 \in Seq(S) /\ Len(s2) = n
  BY <1>2, <1>3
<1> QED BY <1>1, <1>2, <1>3, <1>4 DEF s2

\* The effect of a signature on a key object that skips nothing.
LEMMA SignatureEffect ==
  ASSUME NEW st \in Keys, NEW p \in Packet, p.tag = "signature",
         st.user => st.users # <<>>, st.subkey => st.subkeys # <<>>
  PROVE  LET st2 == OnSignature(st, p)
         IN  /\ st2 \in Keys /\ st2.ignoreUntil = st.ignoreUntil
             /\ Throws(st, st2) \/ SignsUser(st, p, st2) \/ SignsSubkey(st, p, st2) \/ SignsKey(st, p, st2)
<1> DEFINE st2 == OnSignature(st, p)
           Good(s) == /\ s \in Keys /\ s.ignoreUntil = st.ignoreUntil
                      /\ Throws(st, s) \/ SignsUser(st, p, s) \/ SignsSubkey(st, p, s) \/ SignsKey(st, p, s)
           n == Len(st.users)
           m == Len(st.subkeys)
<1>a. /\ st.users \in Seq(Users) /\ st.subkeys \in Seq(Subkeys)
      /\ st.revocationSignatures \in Seq(Packet) /\ st.directSignatures \in Seq(Packet)
      /\ st.user \in BOOLEAN /\ st.subkey \in BOOLEAN
  BY KeyFields
<1>b. /\ Append(st.directSignatures, p) \in Seq(Packet) /\ Append(st.revocationSignatures, p) \in Seq(Packet)
  BY <1>a, ToSetAppend
<1>1. Good(st)
  BY DEF SignsKey, Same
<1>2. Good([st EXCEPT !.directSignatures = Append(@, p)])
  BY <1>b DEF SignsKey, Same, Keys
<1>3. Good([st EXCEPT !.revocationSignatures = Append(@, p)])
  BY <1>b DEF SignsKey, Same, Keys
<1>4. Good(Throw(st))
  BY DEF Throw, Throws, Same, Keys
<1>5. ASSUME NEW w \in Users, st.user, w.packet = st.users[n].packet, UserSigs(w) = UserSigs(st.users[n]) \cup {p}
      PROVE  Good([st EXCEPT !.users = [@ EXCEPT ![n] = w]])
  <2> DEFINE us == [st.users EXCEPT ![n] = w]
             s  == [st EXCEPT !.users = us]
  <2>1. us \in Seq(Users)
    BY <1>a, SeqExcept
  <2>2. us = [st.users EXCEPT ![n] = w]
    OBVIOUS
  <2> HIDE DEF us
  <2>3. /\ s \in Keys /\ s.users = us /\ s.keyPacket = st.keyPacket /\ s.subkeys = st.subkeys
        /\ s.user = st.user /\ s.subkey = st.subkey /\ s.ignoreUntil = st.ignoreUntil
    BY <2>1 DEF Keys
  <2> HIDE DEF s
  <2>4. SignsUser(st, p, s)
    BY <1>5, <2>2, <2>3 DEF SignsUser
  <2>5. Good(s)
    BY <2>3, <2>4
  <2> QED BY <2>5 DEF s, us
<1>6. ASSUME NEW w \in Subkeys, st.subkey, w.packet = st.subkeys[m].packet,
             SubkeySigs(w) = SubkeySigs(st.subkeys[m]) \cup {p}
      PROVE  Good([st EXCEPT !.subkeys = [@ EXCEPT ![m] = w]])
  <2> DEFINE ss == [st.subkeys EXCEPT ![m] = w]
             s  == [st EXCEPT !.subkeys = ss]
  <2>1. ss \in Seq(Subkeys)
    BY <1>a, SeqExcept
  <2>2. ss = [st.subkeys EXCEPT ![m] = w]
    OBVIOUS
  <2> HIDE DEF ss
  <2>3. /\ s \in Keys /\ s.subkeys = ss /\ s.keyPacket = st.keyPacket /\ s.users = st.users
        /\ s.user = st.user /\ s.subkey = st.subkey /\ s.ignoreUntil = st.ignoreUntil
    BY <2>1 DEF Keys
  <2> HIDE DEF s
  <2>4. SignsSubkey(st, p, s)
    BY <1>6, <2>2, <2>3 DEF SignsSubkey
  <2>5. Good(s)
    BY <2>3, <2>4
  <2> QED BY <2>5 DEF s, ss
<1> SUFFICES Good(st2)
  OBVIOUS
<1> HIDE DEF Good
<1>7. CASE p.type \in CertTypes
  <2>1. st2 = OnCertification(st, p)
    BY <1>7 DEF OnSignature, CertTypes
  <2>2. CASE ~st.user \/ st.keyPacket = NoPacket
    BY <1>1, <1>4, <2>1, <2>2 DEF OnCertification
  <2>3. CASE st.user /\ st.keyPacket # NoPacket
    <3> DEFINE u == st.users[n]
               w1 == [u EXCEPT !.selfCertifications = Append(@, p)]
               w2 == [u EXCEPT !.otherCertifications = Append(@, p)]
    <3>1. u \in Users
      BY <1>a, <2>3
    <3>2. st2 = IF p.self THEN [st EXCEPT !.users = [@ EXCEPT ![n] = w1]] ELSE [st EXCEPT !.users = [@ EXCEPT ![n] = w2]]
      BY <2>1, <2>3 DEF OnCertification
    <3> HIDE DEF u
    <3>3. /\ w1 \in Users /\ w1.packet = u.packet /\ UserSigs(w1) = UserSigs(u) \cup {p}
          /\ w2 \in Users /\ w2.packet = u.packet /\ UserSigs(w2) = UserSigs(u) \cup {p}
      BY <3>1, SignedUser
    <3> HIDE DEF w1, w2
    <3>4. Good([st EXCEPT !.users = [@ EXCEPT ![n] = w1]]) /\ Good([st EXCEPT !.users = [@ EXCEPT ![n] = w2]])
      BY <1>5, <2>3, <3>3 DEF u
    <3> QED BY <3>2, <3>4
  <2> QED BY <2>2, <2>3
<1>8. CASE p.type = "certRevocation"
  <2>1. st2 = OnCertRevocation(st, p)
    BY <1>8 DEF OnSignature, CertTypes
  <2>2. CASE ~st.user
    BY <1>2, <2>1, <2>2 DEF OnCertRevocation
  <2>3. CASE st.user
    <3> DEFINE u == st.users[n]
               w == [u EXCEPT !.revocationSignatures = Append(@, p)]
    <3>1. u \in Users
      BY <1>a, <2>3
    <3>2. st2 = [st EXCEPT !.users = [@ EXCEPT ![n] = w]]
      BY <2>1, <2>3 DEF OnCertRevocation
    <3> HIDE DEF u
    <3>3. w \in Users /\ w.packet = u.packet /\ UserSigs(w) = UserSigs(u) \cup {p}
      BY <3>1, SignedUser
    <3> HIDE DEF w
    <3>4. Good([st EXCEPT !.users = [@ EXCEPT ![n] = w]])
      BY <1>5, <2>3, <3>3 DEF u
    <3> QED BY <3>2, <3>4
  <2> QED BY <2>2, <2>3
<1>9. CASE p.type = "subkeyBinding"
  <2>1. st2 = OnSubkeyBinding(st, p)
    BY <1>9 DEF OnSignature, CertTypes
  <2>2. CASE ~st.subkey
    BY <1>1, <2>1, <2>2 DEF OnSubkeyBinding
  <2>3. CASE st.subkey
    <3> DEFINE s == st.subkeys[m]
               w == [s EXCEPT !.bindingSignatures = Append(@, p)]
    <3>1. s \in Subkeys
      BY <1>a, <2>3
    <3>2. st2 = [st EXCEPT !.subkeys = [@ EXCEPT ![m] = w]]
      BY <2>1, <2>3 DEF OnSubkeyBinding
    <3> HIDE DEF s
    <3>3. w \in Subkeys /\ w.packet = s.packet /\ SubkeySigs(w) = SubkeySigs(s) \cup {p}
      BY <3>1, SignedSubkey
    <3> HIDE DEF w
    <3>4. Good([st EXCEPT !.subkeys = [@ EXCEPT ![m] = w]])
      BY <1>6, <2>3, <3>3 DEF s
    <3> QED BY <3>2, <3>4
  <2> QED BY <2>2, <2>3
<1>10. CASE p.type = "subkeyRevocation"
  <2>1. st2 = OnSubkeyRevocation(st, p)
    BY <1>10 DEF OnSignature, CertTypes
  <2>2. CASE ~st.subkey
    BY <1>1, <2>1, <2>2 DEF OnSubkeyRevocation
  <2>3. CASE st.subkey
    <3> DEFINE s == st.subkeys[m]
               w == [s EXCEPT !.revocationSignatures = Append(@, p)]
    <3>1. s \in Subkeys
      BY <1>a, <2>3
    <3>2. st2 = [st EXCEPT !.subkeys = [@ EXCEPT ![m] = w]]
      BY <2>1, <2>3 DEF OnSubkeyRevocation
    <3> HIDE DEF s
    <3>3. w \in Subkeys /\ w.packet = s.packet /\ SubkeySigs(w) = SubkeySigs(s) \cup {p}
      BY <3>1, SignedSubkey
    <3> HIDE DEF w
    <3>4. Good([st EXCEPT !.subkeys = [@ EXCEPT ![m] = w]])
      BY <1>6, <2>3, <3>3 DEF s
    <3> QED BY <3>2, <3>4
  <2> QED BY <2>2, <2>3
<1>11. CASE p.type = "key"
  <2>1. st2 = [st EXCEPT !.directSignatures = Append(@, p)]
    BY <1>11 DEF OnSignature, CertTypes
  <2> QED BY <1>2, <2>1
<1>12. CASE p.type = "keyRevocation"
  <2>1. st2 = [st EXCEPT !.revocationSignatures = Append(@, p)]
    BY <1>12 DEF OnSignature, CertTypes
  <2> QED BY <1>3, <2>1
<1>13. CASE p.type \notin CertTypes \cup {"certRevocation", "key", "subkeyBinding", "keyRevocation", "subkeyRevocation"}
  <2>1. st2 = st
    BY <1>13 DEF OnSignature, CertTypes
  <2> QED BY <1>1, <2>1
<1> QED BY <1>7, <1>8, <1>9, <1>10, <1>11, <1>12, <1>13

\* The effect of any packet.
LEMMA StepEffect ==
  ASSUME NEW k, NEW st \in Keys, ~st.threw, NEW p \in Packet,
         st.user => st.users # <<>>, st.subkey => st.subkeys # <<>>
  PROVE  Step(k, st, p) \in Keys /\ Effect(st, p, Step(k, st, p))
<1> DEFINE found == [st EXCEPT !.ignoreUntil = {}]
           Good(s) == s \in Keys /\ Effect(st, p, s)
<1> SUFFICES Good(Step(k, st, p))
  OBVIOUS
<1>1. /\ found \in Keys /\ found.ignoreUntil = {} /\ found.keyPacket = st.keyPacket
      /\ found.users = st.users /\ found.subkeys = st.subkeys /\ found.user = st.user /\ found.subkey = st.subkey
      /\ found.threw = st.threw
  BY DEF Keys
<1>a. /\ st.users \in Seq(Users) /\ st.subkeys \in Seq(Subkeys)
      /\ st.user \in BOOLEAN /\ st.subkey \in BOOLEAN
  BY KeyFields
<1>2. CASE ~p.ok
  <2>1. Step(k, st, p) = OnUnparseable(st, p)
    BY <1>2 DEF Step
  <2> DEFINE iu == IF p.tag \in mainKeyPacketTags THEN mainKeyPacketTags ELSE keyPacketTags
             s == [st EXCEPT !.ignoreUntil = iu]
  <2>2. iu \in {{}, mainKeyPacketTags, keyPacketTags}
    OBVIOUS
  <2>3. iu = IF p.tag \in mainKeyPacketTags THEN mainKeyPacketTags ELSE keyPacketTags
    OBVIOUS
  <2>4. OnUnparseable(st, p) = IF p.tag \in keyPacketTags /\ st.ignoreUntil = {} THEN s ELSE st
    BY DEF OnUnparseable
  <2> HIDE DEF iu
  <2>5. s \in Keys /\ Same(st, s) /\ s.ignoreUntil = iu /\ Same(st, st)
    BY <2>2 DEF Keys, Same
  <2> HIDE DEF s
  <2> QED BY <1>2, <2>1, <2>3, <2>4, <2>5 DEF Effect, SetsIgnore
<1>3. CASE p.ok /\ st.ignoreUntil # {} /\ p.tag \notin st.ignoreUntil
  <2>1. Step(k, st, p) = st
    BY <1>3 DEF Step
  <2> QED BY <1>3, <2>1 DEF Effect, Skips, Same
<1>4. CASE p.ok /\ (st.ignoreUntil = {} \/ p.tag \in st.ignoreUntil)
  <2>1. Step(k, st, p) = IF p.tag \in disallowedPackets(k) THEN Throw(found)
                         ELSE IF p.tag \in KeyTags THEN OnKey(found, p)
                         ELSE IF p.tag \in UserTags THEN OnUser(found, p)
                         ELSE IF p.tag \in SubkeyTags THEN OnSubkey(found, p)
                         ELSE OnSignature(found, p)
    BY <1>4 DEF Step
  <2> HIDE DEF found
  <2>2. p.tag \in KeyTags \/ p.tag \in UserTags \/ p.tag \in SubkeyTags \/ p.tag = "signature"
    BY DEF Packet, Tags
  <2>3. Good(Throw(found))
    <3>1. Throw(found) \in Keys /\ Throws(found, Throw(found))
      BY <1>1, Thrown
    <3>2. Throws(st, Throw(found))
      BY <1>1, <3>1 DEF Throws, Same
    <3> QED BY <3>1, <3>2 DEF Effect
  <2>4. ASSUME p.tag \in KeyTags PROVE Good(OnKey(found, p))
    <3>1. CASE found.keyPacket # NoPacket
      BY <2>3, <3>1 DEF OnKey
    <3>2. CASE found.keyPacket = NoPacket
      <4> DEFINE s == [found EXCEPT !.keyPacket = p]
      <4>1. OnKey(found, p) = s
        BY <3>2 DEF OnKey
      <4>2. /\ s \in Keys /\ s.keyPacket = p /\ s.ignoreUntil = {} /\ s.users = st.users /\ s.subkeys = st.subkeys
            /\ s.user = st.user /\ s.subkey = st.subkey
        BY <1>1 DEF Keys
      <4> HIDE DEF s
      <4>3. Takes(st, p, s)
        BY <1>1, <1>4, <2>4, <3>2, <4>2 DEF Takes, TakesKey
      <4> QED BY <4>1, <4>2, <4>3 DEF Effect
    <3> QED BY <3>1, <3>2
  <2>5. ASSUME p.tag \in UserTags PROVE Good(OnUser(found, p))
    <3> DEFINE us == Append(st.users, NewUser(p))
               s == [found EXCEPT !.user = TRUE, !.users = us]
    <3>1. us \in Seq(Users) /\ us = Append(st.users, NewUser(p))
      BY <1>a, NewComponents
    <3>2. OnUser(found, p) = s
      BY <1>1 DEF OnUser
    <3> HIDE DEF us
    <3>3. /\ s \in Keys /\ s.users = us /\ s.user = TRUE /\ s.keyPacket = st.keyPacket /\ s.subkeys = st.subkeys
          /\ s.subkey = st.subkey /\ s.ignoreUntil = {}
      BY <1>1, <3>1 DEF Keys
    <3> HIDE DEF s
    <3>4. Takes(st, p, s)
      BY <1>4, <2>5, <3>1, <3>3 DEF Takes, TakesUser
    <3> QED BY <3>2, <3>3, <3>4 DEF Effect
  <2>6. ASSUME p.tag \in SubkeyTags PROVE Good(OnSubkey(found, p))
    <3> DEFINE ss == Append(st.subkeys, NewSubkey(p))
               s == [found EXCEPT !.user = FALSE, !.subkey = TRUE, !.subkeys = ss]
    <3>1. ss \in Seq(Subkeys) /\ ss = Append(st.subkeys, NewSubkey(p))
      BY <1>a, NewComponents
    <3>2. OnSubkey(found, p) = s
      BY <1>1 DEF OnSubkey
    <3> HIDE DEF ss
    <3>3. /\ s \in Keys /\ s.users = st.users /\ s.user = FALSE /\ s.keyPacket = st.keyPacket /\ s.subkeys = ss
          /\ s.subkey = TRUE /\ s.ignoreUntil = {}
      BY <1>1, <3>1 DEF Keys
    <3> HIDE DEF s
    <3>4. Takes(st, p, s)
      BY <1>4, <2>6, <3>1, <3>3 DEF Takes, TakesSubkey
    <3> QED BY <3>2, <3>3, <3>4 DEF Effect
  <2>7. ASSUME p.tag = "signature" PROVE Good(OnSignature(found, p))
    <3>1. PICK s : s = OnSignature(found, p)
      OBVIOUS
    <3>2. /\ s \in Keys /\ s.ignoreUntil = found.ignoreUntil
          /\ Throws(found, s) \/ SignsUser(found, p, s) \/ SignsSubkey(found, p, s) \/ SignsKey(found, p, s)
      BY <1>1, <2>7, <3>1, SignatureEffect
    <3>3. SignsUser(found, p, s) => SignsUser(st, p, s)
      BY <1>1 DEF SignsUser
    <3>4. SignsSubkey(found, p, s) => SignsSubkey(st, p, s)
      BY <1>1 DEF SignsSubkey
    <3>5. SignsKey(found, p, s) => SignsKey(st, p, s)
      BY <1>1 DEF SignsKey, Same
    <3>6. Throws(found, s) => Throws(st, s)
      BY <1>1 DEF Throws, Same
    <3>7. Throws(st, s) \/ Takes(st, p, s)
      BY <1>1, <1>4, <3>2, <3>3, <3>4, <3>5, <3>6 DEF Takes
    <3> QED BY <3>1, <3>2, <3>7 DEF Effect
  <2> HIDE DEF Good
  <2> QED BY <2>1, <2>2, <2>3, <2>4, <2>5, <2>6, <2>7, TagsApart
<1> QED BY <1>2, <1>3, <1>4

-----------------------------------------------------------------------------
(* What is filed stays filed *)

LEMMA FiledStays ==
  ASSUME PacketsRight, NEW p \in Packet, packets' = Append(packets, p),
         NEW q, NEW tags, NEW sigs, Filed(q, tags, sigs)
  PROVE  Filed(q, tags, sigs)'
<1>1. /\ Len(packets) \in Nat /\ Len(packets') = Here
      /\ \A n \in 1 .. Here : \A ts : LastBefore(n, ts)' = LastBefore(n, ts)
      /\ \A n \in 1 .. Here : SubkeySkipped(n)' <=> SubkeySkipped(n)
  BY PacketComes
<1>2. \A n \in 1 .. Len(packets) : n \in 1 .. Here
  BY <1>1 DEF Here
<1>3. Owned(q)'
  <2>1. q.pos \in 1 .. Len(packets) /\ (SubkeySkipped(q.pos) \/ LastBefore(q.pos, KeyTags) = 1)
    BY DEF Filed, Owned
  <2>2. q.pos \in 1 .. Here
    BY <1>2, <2>1
  <2>3. SubkeySkipped(q.pos)' \/ LastBefore(q.pos, KeyTags)' = 1
    BY <1>1, <2>1, <2>2
  <2> QED BY <1>1, <2>2, <2>3 DEF Owned
<1>4. ASSUME NEW sig \in sigs PROVE sig.pos \in 1 .. Len(packets') /\ LastBefore(sig.pos, tags)' = q.pos
  <2>1. sig.pos \in 1 .. Len(packets) /\ LastBefore(sig.pos, tags) = q.pos
    BY DEF Filed
  <2> QED BY <1>1, <1>2, <2>1
<1> QED BY <1>3, <1>4 DEF Filed

LEMMA FiledGrows ==
  ASSUME PacketsRight, NEW p \in Packet, packets' = Append(packets, p), p.pos = Here,
         NEW q, NEW tags, NEW sigs, Filed(q, tags, sigs), LastBefore(Here, tags) = q.pos
  PROVE  Filed(q, tags, sigs \cup {p})'
<1>1. Filed(q, tags, sigs)'
  BY FiledStays
<1>2. /\ Len(packets) \in Nat /\ Len(packets') = Here /\ Here \in 1 .. Here
      /\ \A n \in 1 .. Here : \A ts : LastBefore(n, ts)' = LastBefore(n, ts)
  BY PacketComes DEF Here
<1>3. PICK n \in 1 .. Here : n = Here
  BY <1>2
<1>4. LastBefore(n, tags) = q.pos /\ p.pos = n
  BY <1>3
<1>5. p.pos \in 1 .. Len(packets') /\ LastBefore(p.pos, tags)' = q.pos
  BY <1>2, <1>4
<1> QED BY <1>1, <1>5 DEF Filed

LEMMA UsersStay ==
  ASSUME PacketsRight, NEW p \in Packet, packets' = Append(packets, p), NEW us, UsersFiled(us)
  PROVE  UsersFiled(us)'
<1> SUFFICES ASSUME NEW i \in DOMAIN us PROVE Filed(us[i].packet, Structural, UserSigs(us[i]))'
  BY DEF UsersFiled
<1>1. PICK q, sigs : q = us[i].packet /\ sigs = UserSigs(us[i])
  OBVIOUS
<1>2. Filed(q, Structural, sigs)
  BY <1>1 DEF UsersFiled
<1>3. Filed(q, Structural, sigs)'
  BY <1>2, FiledStays
<1> QED BY <1>1, <1>3

LEMMA SubkeysStay ==
  ASSUME PacketsRight, NEW p \in Packet, packets' = Append(packets, p), NEW ss, SubkeysFiled(ss)
  PROVE  SubkeysFiled(ss)'
<1> SUFFICES ASSUME NEW i \in DOMAIN ss PROVE Filed(ss[i].packet, KeyTags \cup SubkeyTags, SubkeySigs(ss[i]))'
  BY DEF SubkeysFiled
<1>1. PICK q, sigs : q = ss[i].packet /\ sigs = SubkeySigs(ss[i])
  OBVIOUS
<1>2. Filed(q, KeyTags \cup SubkeyTags, sigs)
  BY <1>1 DEF SubkeysFiled
<1>3. Filed(q, KeyTags \cup SubkeyTags, sigs)'
  BY <1>2, FiledStays
<1> QED BY <1>1, <1>3

\* A component, and a signature of the last one, come under the primary key.
LEMMA ComponentsGrow ==
  ASSUME PacketsRight, NEW p \in Packet, packets' = Append(packets, p), p.pos = Here
  PROVE  /\ \A us \in Seq(Users) : UsersFiled(us) /\ Owned(p)' => UsersFiled(Append(us, NewUser(p)))'
         /\ \A ss \in Seq(Subkeys) : SubkeysFiled(ss) /\ Owned(p)' => SubkeysFiled(Append(ss, NewSubkey(p)))'
         /\ \A us \in Seq(Users), w \in Users :
              /\ UsersFiled(us) /\ us # <<>> /\ w.packet = us[Len(us)].packet
              /\ UserSigs(w) = UserSigs(us[Len(us)]) \cup {p}
              /\ LastBefore(Here, Structural) = us[Len(us)].packet.pos
              => UsersFiled([us EXCEPT ![Len(us)] = w])'
         /\ \A ss \in Seq(Subkeys), w \in Subkeys :
              /\ SubkeysFiled(ss) /\ ss # <<>> /\ w.packet = ss[Len(ss)].packet
              /\ SubkeySigs(w) = SubkeySigs(ss[Len(ss)]) \cup {p}
              /\ LastBefore(Here, KeyTags \cup SubkeyTags) = ss[Len(ss)].packet.pos
              => SubkeysFiled([ss EXCEPT ![Len(ss)] = w])'
<1>1. ASSUME NEW us \in Seq(Users), UsersFiled(us), Owned(p)' PROVE UsersFiled(Append(us, NewUser(p)))'
  <2>1. PICK a : a = Append(us, NewUser(p))
    OBVIOUS
  <2>2. PICK n \in Nat : n = Len(us)
    OBVIOUS
  <2>3. DOMAIN a = 1 .. (n + 1) /\ DOMAIN us = 1 .. n /\ a[n + 1] = NewUser(p) /\ \A i \in 1 .. n : a[i] = us[i]
    BY <2>1, <2>2, NewComponents
  <2>4. UsersFiled(us)'
    BY <1>1, UsersStay
  <2>5. \A i \in 1 .. n : Filed(a[i].packet, Structural, UserSigs(a[i]))'
    BY <2>3, <2>4 DEF UsersFiled
  <2>6. Filed(a[n + 1].packet, Structural, UserSigs(a[n + 1]))'
    <3>1. a[n + 1].packet = p /\ UserSigs(a[n + 1]) = {}
      BY <2>3, NewComponents
    <3> QED BY <1>1, <3>1 DEF Filed
  <2>7. \A i \in 1 .. (n + 1) : i \in 1 .. n \/ i = n + 1
    OBVIOUS
  <2>8. UsersFiled(a)'
    BY <2>3, <2>5, <2>6, <2>7 DEF UsersFiled
  <2> QED BY <2>1, <2>8
<1>2. ASSUME NEW ss \in Seq(Subkeys), SubkeysFiled(ss), Owned(p)' PROVE SubkeysFiled(Append(ss, NewSubkey(p)))'
  <2>1. PICK a : a = Append(ss, NewSubkey(p))
    OBVIOUS
  <2>2. PICK n \in Nat : n = Len(ss)
    OBVIOUS
  <2>3. DOMAIN a = 1 .. (n + 1) /\ DOMAIN ss = 1 .. n /\ a[n + 1] = NewSubkey(p) /\ \A i \in 1 .. n : a[i] = ss[i]
    BY <2>1, <2>2, NewComponents
  <2>4. SubkeysFiled(ss)'
    BY <1>2, SubkeysStay
  <2>5. \A i \in 1 .. n : Filed(a[i].packet, KeyTags \cup SubkeyTags, SubkeySigs(a[i]))'
    BY <2>3, <2>4 DEF SubkeysFiled
  <2>6. Filed(a[n + 1].packet, KeyTags \cup SubkeyTags, SubkeySigs(a[n + 1]))'
    <3>1. a[n + 1].packet = p /\ SubkeySigs(a[n + 1]) = {}
      BY <2>3, NewComponents
    <3> QED BY <1>2, <3>1 DEF Filed
  <2>7. \A i \in 1 .. (n + 1) : i \in 1 .. n \/ i = n + 1
    OBVIOUS
  <2>8. SubkeysFiled(a)'
    BY <2>3, <2>5, <2>6, <2>7 DEF SubkeysFiled
  <2> QED BY <2>1, <2>8
<1>3. ASSUME NEW us \in Seq(Users), NEW w \in Users, UsersFiled(us), us # <<>>, w.packet = us[Len(us)].packet,
             UserSigs(w) = UserSigs(us[Len(us)]) \cup {p}, LastBefore(Here, Structural) = us[Len(us)].packet.pos
      PROVE  UsersFiled([us EXCEPT ![Len(us)] = w])'
  <2>1. PICK n \in DOMAIN us : n = Len(us)
    BY <1>3
  <2>2. PICK a : a = [us EXCEPT ![n] = w]
    OBVIOUS
  <2>3. DOMAIN a = DOMAIN us /\ \A i \in DOMAIN us : a[i] = IF i = n THEN w ELSE us[i]
    BY <2>2, SeqExcept
  <2>4. PICK q, sigs : q = us[n].packet /\ sigs = UserSigs(us[n])
    OBVIOUS
  <2>5. Filed(q, Structural, sigs \cup {p})'
    <3>1. Filed(q, Structural, sigs) /\ LastBefore(Here, Structural) = q.pos
      BY <1>3, <2>1, <2>4 DEF UsersFiled
    <3> QED BY <3>1, FiledGrows
  <2>6. w.packet = q /\ UserSigs(w) = sigs \cup {p}
    BY <1>3, <2>1, <2>4
  <2>7. UsersFiled(us)'
    BY <1>3, UsersStay
  <2>8. UsersFiled(a)'
    BY <2>3, <2>5, <2>6, <2>7 DEF UsersFiled
  <2> QED BY <2>1, <2>2, <2>8
<1>4. ASSUME NEW ss \in Seq(Subkeys), NEW w \in Subkeys, SubkeysFiled(ss), ss # <<>>, w.packet = ss[Len(ss)].packet,
             SubkeySigs(w) = SubkeySigs(ss[Len(ss)]) \cup {p},
             LastBefore(Here, KeyTags \cup SubkeyTags) = ss[Len(ss)].packet.pos
      PROVE  SubkeysFiled([ss EXCEPT ![Len(ss)] = w])'
  <2>1. PICK n \in DOMAIN ss : n = Len(ss)
    BY <1>4
  <2>2. PICK a : a = [ss EXCEPT ![n] = w]
    OBVIOUS
  <2>3. DOMAIN a = DOMAIN ss /\ \A i \in DOMAIN ss : a[i] = IF i = n THEN w ELSE ss[i]
    BY <2>2, SeqExcept
  <2>4. PICK q, sigs : q = ss[n].packet /\ sigs = SubkeySigs(ss[n])
    OBVIOUS
  <2>5. Filed(q, KeyTags \cup SubkeyTags, sigs \cup {p})'
    <3>1. Filed(q, KeyTags \cup SubkeyTags, sigs) /\ LastBefore(Here, KeyTags \cup SubkeyTags) = q.pos
      BY <1>4, <2>1, <2>4 DEF SubkeysFiled
    <3> QED BY <3>1, FiledGrows
  <2>6. w.packet = q /\ SubkeySigs(w) = sigs \cup {p}
    BY <1>4, <2>1, <2>4
  <2>7. SubkeysFiled(ss)'
    BY <1>4, SubkeysStay
  <2>8. SubkeysFiled(a)'
    BY <2>3, <2>5, <2>6, <2>7 DEF SubkeysFiled
  <2> QED BY <2>1, <2>2, <2>8
<1> QED BY <1>1, <1>2, <1>3, <1>4

-----------------------------------------------------------------------------
(* The invariant *)

LEMMA InitialIInv == Init => IInv
<1> SUFFICES ASSUME Init PROVE IInv
  OBVIOUS
<1>1. packets = <<>> /\ key = EmptyKey /\ kind \in {"PublicKey", "PrivateKey"}
  BY DEF Init
<1>2. NoPacket \in Packet
  BY TagsApart DEF NoPacket, Packet
<1>3. /\ key.keyPacket = NoPacket /\ key.users = <<>> /\ key.subkeys = <<>>
      /\ key.user = FALSE /\ key.subkey = FALSE
  BY <1>1 DEF EmptyKey
<1>4. key \in Keys
  BY <1>1, <1>2 DEF EmptyKey, Keys
<1>5. PacketsRight
  BY <1>1, TagAssumption DEF PacketsRight
<1>6. KeyRight
  BY <1>1, <1>3, <1>4 DEF KeyRight, Sound
<1>7. ~KeyFirst
  BY <1>3 DEF KeyFirst, Constructed
<1> QED BY <1>5, <1>6, <1>7 DEF IInv

LEMMA ReadKeepsPackets ==
  ASSUME PacketsRight, NEW p \in Incoming(Here), Read(p)
  PROVE  PacketsRight' /\ p \in Packet /\ p.pos = Here /\ packets' = Append(packets, p) /\ packets' # <<>>
<1>1. Len(packets) < MaxPackets /\ packets' = Append(packets, p) /\ packets \in Seq(Packet) /\ MaxPackets \in Nat
  BY TagAssumption DEF Read, PacketsRight
<1>2. Here \in Nat
  BY <1>1 DEF Here
<1>3. p \in Packet /\ p.pos = Here /\ (p.ok \/ p.tag \in Unparseable)
  BY <1>2, IncomingFacts
<1>4. PICK n \in Nat : n = Len(packets)
  BY <1>1
<1>5. /\ packets' \in Seq(Packet) /\ Len(packets') = n + 1 /\ DOMAIN packets' = 1 .. (n + 1) /\ packets'[n + 1] = p
      /\ DOMAIN packets = 1 .. n /\ \A i \in 1 .. n : packets'[i] = packets[i]
  BY <1>1, <1>3, <1>4
<1>6. \A i \in 1 .. (n + 1) : i \in 1 .. n \/ i = n + 1
  OBVIOUS
<1>7. p.pos = n + 1
  BY <1>3, <1>4 DEF Here
<1>8. Len(packets') <= MaxPackets
  BY <1>1, <1>4, <1>5
<1>9. packets' # <<>>
  BY <1>4, <1>5
<1> HIDE DEF PacketsRight
<1>10. \A i \in 1 .. (n + 1) : packets'[i].pos = i /\ (packets'[i].ok \/ packets'[i].tag \in Unparseable)
  BY <1>3, <1>4, <1>5, <1>6, <1>7 DEF PacketsRight
<1> QED BY <1>1, <1>3, <1>5, <1>8, <1>9, <1>10 DEF PacketsRight

\* A sound key object stays so.
LEMMA StepSound ==
  ASSUME NEW k, NEW st, Sound(st), ~st.threw, NEW p \in Packet
  PROVE  Sound(Step(k, st, p)) /\ Effect(st, p, Step(k, st, p))
<1>0. PICK st2 : st2 = Step(k, st, p)
  OBVIOUS
<1>1. st \in Keys /\ (st.user => st.users # <<>>) /\ (st.subkey <=> st.subkeys # <<>>)
  BY DEF Sound
<1>2. st2 \in Keys /\ Effect(st, p, st2)
  BY <1>0, <1>1, StepEffect
<1>3. /\ st.users \in Seq(Users) /\ st.subkeys \in Seq(Subkeys)
      /\ st2.users \in Seq(Users) /\ st2.subkeys \in Seq(Subkeys)
  BY <1>1, <1>2, KeyFields
<1> DEFINE UsersOK(us) == \A i \in DOMAIN us : us[i].packet.tag \in UserTags
           SubkeysOK(ss) == \A i \in DOMAIN ss : ss[i].packet.tag \in SubkeyTags
<1>4. UsersOK(st.users) /\ SubkeysOK(st.subkeys)
  BY DEF Sound
<1>5. ASSUME Same(st, st2) PROVE Sound(st2)
  BY <1>1, <1>2, <1>5 DEF Same, Sound
<1>6. ASSUME TakesKey(st, p, st2) PROVE Sound(st2)
  BY <1>1, <1>2, <1>6 DEF TakesKey, Sound
<1>7. ASSUME TakesUser(st, p, st2) PROVE Sound(st2)
  <2>1. PICK us \in Seq(Users), us2 \in Seq(Users) : us = st.users /\ us2 = Append(us, NewUser(p)) /\ us2 = st2.users
    BY <1>3, <1>7 DEF TakesUser
  <2>2. PICK n \in Nat : n = Len(us)
    BY <2>1
  <2>3. DOMAIN us2 = 1 .. (n + 1) /\ DOMAIN us = 1 .. n /\ us2[n + 1] = NewUser(p) /\ \A i \in 1 .. n : us2[i] = us[i]
    <3>1. PICK c \in Users : c = NewUser(p)
      BY NewComponents
    <3>2. us2 = Append(us, c)
      BY <2>1, <3>1
    <3> QED BY <2>2, <3>1, <3>2
  <2>4. \A i \in 1 .. (n + 1) : i \in 1 .. n \/ i = n + 1
    OBVIOUS
  <2>5. UsersOK(us2) /\ us2 # <<>>
    BY <1>4, <1>7, <2>1, <2>3, <2>4, NewComponents DEF TakesUser
  <2> QED BY <1>1, <1>2, <1>4, <1>7, <2>1, <2>5 DEF TakesUser, Sound
<1>8. ASSUME TakesSubkey(st, p, st2) PROVE Sound(st2)
  <2>1. PICK ss \in Seq(Subkeys), ss2 \in Seq(Subkeys) : ss = st.subkeys /\ ss2 = Append(ss, NewSubkey(p)) /\ ss2 = st2.subkeys
    BY <1>3, <1>8 DEF TakesSubkey
  <2>2. PICK n \in Nat : n = Len(ss)
    BY <2>1
  <2>3. DOMAIN ss2 = 1 .. (n + 1) /\ DOMAIN ss = 1 .. n /\ ss2[n + 1] = NewSubkey(p) /\ \A i \in 1 .. n : ss2[i] = ss[i]
    <3>1. PICK c \in Subkeys : c = NewSubkey(p)
      BY NewComponents
    <3>2. ss2 = Append(ss, c)
      BY <2>1, <3>1
    <3> QED BY <2>2, <3>1, <3>2
  <2>4. \A i \in 1 .. (n + 1) : i \in 1 .. n \/ i = n + 1
    OBVIOUS
  <2>5. SubkeysOK(ss2) /\ ss2 # <<>>
    BY <1>4, <1>8, <2>1, <2>3, <2>4, NewComponents DEF TakesSubkey
  <2> QED BY <1>1, <1>2, <1>4, <1>8, <2>1, <2>5 DEF TakesSubkey, Sound
<1>9. ASSUME SignsUser(st, p, st2) PROVE Sound(st2)
  <2>1. PICK us \in Seq(Users), us2 \in Seq(Users), w \in Users :
          /\ us = st.users /\ us2 = [us EXCEPT ![Len(us)] = w] /\ us2 = st2.users
          /\ us # <<>> /\ w.packet = us[Len(us)].packet
    BY <1>3, <1>9 DEF SignsUser
  <2>2. PICK n \in DOMAIN us : n = Len(us)
    BY <2>1
  <2>3. DOMAIN us2 = DOMAIN us /\ \A i \in DOMAIN us : us2[i] = IF i = n THEN w ELSE us[i]
    BY <2>1, <2>2, SeqExcept
  <2>4. UsersOK(us2) /\ us2 # <<>>
    BY <1>4, <2>1, <2>2, <2>3
  <2> QED BY <1>1, <1>2, <1>4, <1>9, <2>1, <2>4 DEF SignsUser, Sound
<1>10. ASSUME SignsSubkey(st, p, st2) PROVE Sound(st2)
  <2>1. PICK ss \in Seq(Subkeys), ss2 \in Seq(Subkeys), w \in Subkeys :
          /\ ss = st.subkeys /\ ss2 = [ss EXCEPT ![Len(ss)] = w] /\ ss2 = st2.subkeys
          /\ ss # <<>> /\ w.packet = ss[Len(ss)].packet
    BY <1>3, <1>10 DEF SignsSubkey
  <2>2. PICK n \in DOMAIN ss : n = Len(ss)
    BY <2>1
  <2>3. DOMAIN ss2 = DOMAIN ss /\ \A i \in DOMAIN ss : ss2[i] = IF i = n THEN w ELSE ss[i]
    BY <2>1, <2>2, SeqExcept
  <2>4. SubkeysOK(ss2) /\ ss2 # <<>>
    BY <1>4, <2>1, <2>2, <2>3
  <2> QED BY <1>1, <1>2, <1>4, <1>10, <2>1, <2>4 DEF SignsSubkey, Sound
<1> QED BY <1>0, <1>2, <1>5, <1>6, <1>7, <1>8, <1>9, <1>10
        DEF Effect, Throws, SetsIgnore, Skips, Takes, SignsKey

LEMMA ReadKeepsKey ==
  ASSUME KeyRight, NEW p \in Packet, Read(p), packets' # <<>>
  PROVE  KeyRight' /\ Effect(key, p, key')
<1>1. kind' = kind /\ kind \in {"PublicKey", "PrivateKey"} /\ Sound(key) /\ ~key.threw /\ key' = Step(kind, key, p)
  BY DEF KeyRight, Read
<1>2. PICK st : st = Step(kind, key, p)
  OBVIOUS
<1>3. Sound(st) /\ Effect(key, p, st)
  BY <1>1, <1>2, StepSound
<1>4. Sound(st)'
  BY <1>3 DEF Sound
<1> QED BY <1>1, <1>2, <1>3, <1>4 DEF KeyRight

\* Before the primary key there is nothing: this is the first packet.
LEMMA FirstKeyFiled ==
  ASSUME IInv, NEW p \in Packet, p.pos = Here, Read(p), TakesKey(key, p, key'), KeyFirst',
         key'.ignoreUntil = {}
  PROVE  ComponentsFiled' /\ LocalsRight'
<1>1. packets \in Seq(Packet) /\ packets' = Append(packets, p) /\ PacketsRight
  BY DEF IInv, PacketsRight, Read
<1>2. Here = 1
  BY DEF KeyFirst, TakesKey
<1>3. packets = <<>> /\ key = EmptyKey
  BY <1>1, <1>2 DEF Here, IInv, KeyRight
<1>4. key'.users = <<>> /\ key'.subkeys = <<>> /\ ~key'.user /\ ~key'.subkey
  BY <1>3 DEF TakesKey, EmptyKey
<1>5. UsersFiled(<<>>)' /\ SubkeysFiled(<<>>)'
  BY DEF UsersFiled, SubkeysFiled
<1>6. ComponentsFiled'
  BY <1>4, <1>5 DEF ComponentsFiled
<1>7. Here' = Here + 1 /\ \A tags : LastBefore(Here, tags)' = IF p.tag \in tags THEN Here ELSE LastBefore(Here, tags)
  BY <1>1, PacketComes
<1>8. LastBefore(Here, KeyTags)' = 1
  BY <1>2, <1>7 DEF TakesKey
<1> QED BY <1>4, <1>6, <1>8, TagsApart DEF LocalsRight

\* The last user or subkey, seen as a place.
LastUser(st)   == st.users[Len(st.users)].packet.pos
LastSubkey(st) == st.subkeys[Len(st.subkeys)].packet.pos

\* What is read under the primary key is filed, and the locals are right
\* for the packet after it.
LEMMA NextFiled ==
  ASSUME Readable, IInv, KeyFirst, NEW p \in Incoming(Here), Read(p), p \in Packet, p.pos = Here,
         packets' = Append(packets, p), Effect(key, p, key'), ~key'.threw
  PROVE  ComponentsFiled' /\ LocalsRight'
<1>1. /\ PacketsRight /\ UsersFiled(key.users) /\ SubkeysFiled(key.subkeys) /\ LocalsRight
      /\ key.keyPacket # NoPacket
      /\ key.users \in Seq(Users) /\ key.subkeys \in Seq(Subkeys) /\ key.user \in BOOLEAN /\ key.subkey \in BOOLEAN
      /\ key.ignoreUntil \in {{}, mainKeyPacketTags, keyPacketTags}
      /\ (key.user => key.users # <<>>) /\ (key.subkey => key.subkeys # <<>>)
  BY KeyFields DEF IInv, ComponentsFiled, KeyFirst, Constructed, KeyRight, Sound
<1>2. /\ Here \in Nat /\ Len(packets') = Here /\ Here' = Here + 1
      /\ \A tags : LastBefore(Here, tags)' = IF p.tag \in tags THEN Here ELSE LastBefore(Here, tags)
      /\ \A n \in 1 .. Here : \A tags : LastBefore(n, tags)' = LastBefore(n, tags)
      /\ \A n \in 1 .. Here : SubkeySkipped(n)' <=> SubkeySkipped(n)
      /\ SubkeySkipped(Here)' <=> SubkeySkipped(Here) \/ (~p.ok /\ p.tag \in SubkeyTags)
  BY <1>1, PacketComes
<1>3. /\ ~p.ok => p.tag \in {"publicKey", "publicSubkey", "signature"}
  <2>1. Here \in Nat /\ p \in Incoming(Here)
    BY <1>2
  <2>2. p.ok \/ p.tag \in Unparseable
    BY <2>1, IncomingFacts, Zenon
  <2>3. Unparseable \subseteq {"publicKey", "publicSubkey", "signature"}
    <3>1. /\ \A t \in Unparseable : t \in Tags /\ t \notin UserTags /\ t # "secretKey" /\ t # "secretSubkey"
      BY TagAssumption DEF Readable
    <3>2. \A t \in Tags : \/ t \in UserTags \/ t = "secretKey" \/ t = "secretSubkey"
                          \/ t \in {"publicKey", "publicSubkey", "signature"}
      BY DEF Tags, KeyTags, SubkeyTags
    <3> QED BY <3>1, <3>2
  <2> QED BY <2>2, <2>3
<1>4. ASSUME NEW us, us = key.users PROVE UsersFiled(us)'
  BY <1>1, <1>4, UsersStay
<1>5. ASSUME NEW ss, ss = key.subkeys PROVE SubkeysFiled(ss)'
  BY <1>1, <1>5, SubkeysStay
<1>6. ASSUME p.tag \notin Structural,
             key'.user = key.user, key'.subkey = key.subkey,
             key.user => LastUser(key') = LastUser(key), key.subkey => LastSubkey(key') = LastSubkey(key),
             key'.ignoreUntil = key.ignoreUntil
      PROVE  LocalsRight'
  <2>1. p.tag \notin KeyTags /\ p.tag \notin KeyTags \cup SubkeyTags
    BY <1>6 DEF Structural
  <2>2. /\ LastBefore(Here, Structural)' = LastBefore(Here, Structural)
        /\ LastBefore(Here, KeyTags)' = LastBefore(Here, KeyTags)
        /\ LastBefore(Here, KeyTags \cup SubkeyTags)' = LastBefore(Here, KeyTags \cup SubkeyTags)
    BY <1>2, <1>6, <2>1
  <2> QED BY <1>1, <1>2, <1>6, <2>2 DEF LocalsRight, LastUser, LastSubkey
\* A packet that starts a component, read or not.
<1>7. ASSUME key.ignoreUntil = {} \/ key.ignoreUntil = keyPacketTags PROVE Owned(p)'
  <2>1. SubkeySkipped(Here) \/ LastBefore(Here, KeyTags) = 1
    BY <1>1, <1>7, TagsApart DEF LocalsRight
  <2>2. PICK h \in 1 .. Here : h = Here
    BY <1>2 DEF Here
  <2>3. SubkeySkipped(h) \/ LastBefore(h, KeyTags) = 1
    BY <2>1, <2>2
  <2>4. SubkeySkipped(h)' \/ LastBefore(h, KeyTags)' = 1
    BY <1>2, <2>3
  <2>5. p.pos = h /\ h \in 1 .. Len(packets')
    BY <1>2, <2>2
  <2> QED BY <2>4, <2>5 DEF Owned
<1>8. ASSUME Same(key, key') PROVE ComponentsFiled'
  <2>1. PICK us, ss : us = key.users /\ ss = key.subkeys
    OBVIOUS
  <2>2. UsersFiled(us)' /\ SubkeysFiled(ss)' /\ us = key'.users /\ ss = key'.subkeys
    BY <1>4, <1>5, <1>8, <2>1 DEF Same
  <2> QED BY <2>2 DEF ComponentsFiled
<1>9. ASSUME SetsIgnore(key, p, key') PROVE ComponentsFiled' /\ LocalsRight'
  <2>1. ComponentsFiled'
    BY <1>8, <1>9 DEF SetsIgnore
  <2>2. CASE p.tag = "signature"
    <3>1. p.tag \notin Structural /\ key'.ignoreUntil = key.ignoreUntil /\ Same(key, key')
      BY <1>9, <2>2 DEF SetsIgnore, Structural, UserTags, KeyTags, SubkeyTags, keyPacketTags
    <3> QED BY <1>6, <2>1, <3>1 DEF Same, LastUser, LastSubkey
  <2>3. CASE p.tag \in {"publicKey", "publicSubkey"}
    <3>1. /\ key'.ignoreUntil # {}
          /\ key'.ignoreUntil = keyPacketTags => key.ignoreUntil = keyPacketTags \/ p.tag = "publicSubkey"
      BY <1>9, <2>3, TagsApart DEF SetsIgnore, keyPacketTags, mainKeyPacketTags
    <3>2. key'.ignoreUntil = keyPacketTags => SubkeySkipped(Here)'
      BY <1>1, <1>2, <1>9, <3>1 DEF SetsIgnore, LocalsRight, SubkeyTags
    <3>3. Here' = Here + 1 /\ (SubkeySkipped(Here)' <=> SubkeySkipped(Here)')
      BY <1>2
    <3> QED BY <2>1, <3>1, <3>2 DEF LocalsRight
  <2> QED BY <1>3, <1>9, <2>2, <2>3 DEF SetsIgnore
<1>10. ASSUME Skips(key, p, key') PROVE ComponentsFiled' /\ LocalsRight'
  <2>1. ComponentsFiled'
    BY <1>8, <1>10 DEF Skips
  <2>2. key'.ignoreUntil # {} /\ (key'.ignoreUntil = keyPacketTags => SubkeySkipped(Here)')
    BY <1>1, <1>2, <1>10 DEF Skips, LocalsRight
  <2> QED BY <2>1, <2>2 DEF LocalsRight
\* What can end skipping is a subkey.
<1>11. ASSUME Takes(key, p, key')
       PROVE  /\ key'.ignoreUntil = {} /\ ~TakesKey(key, p, key') /\ p.ok
              /\ key.ignoreUntil = {} \/ (key.ignoreUntil = keyPacketTags /\ TakesSubkey(key, p, key'))
  BY <1>1, <1>11, TagsApart DEF Takes, TakesKey, TakesUser, TakesSubkey, SignsUser, SignsSubkey, SignsKey,
                     keyPacketTags, mainKeyPacketTags, KeyTags, UserTags, SubkeyTags, Packet, Tags
<1>12. ASSUME Takes(key, p, key'), TakesUser(key, p, key') PROVE ComponentsFiled' /\ LocalsRight'
  <2>1. p.tag \notin KeyTags /\ p.tag \in Structural /\ p.tag \notin KeyTags \cup SubkeyTags
        /\ ~TakesSubkey(key, p, key')
    BY <1>12 DEF TakesUser, TakesSubkey, UserTags, KeyTags, SubkeyTags, Structural
  <2>2. Owned(p)' /\ key.ignoreUntil = {}
    BY <1>7, <1>11, <1>12, <2>1
  <2>3. PICK us \in Seq(Users), ss \in Seq(Subkeys) : us = key.users /\ ss = key.subkeys
    BY <1>1
  <2>4. key'.users = Append(us, NewUser(p)) /\ key'.subkeys = ss /\ key'.user /\ key'.subkey = key.subkey
    BY <1>12, <2>3 DEF TakesUser
  <2>5. UsersFiled(Append(us, NewUser(p)))' /\ SubkeysFiled(ss)'
    BY <1>1, <1>5, <2>2, <2>3, ComponentsGrow
  <2>6. ComponentsFiled'
    BY <2>4, <2>5 DEF ComponentsFiled
  <2>7. LastUser(key') = Here
    <3>1. PICK c \in Users : c = NewUser(p) /\ c.packet = p
      BY NewComponents
    <3>2. key'.users[Len(key'.users)] = c
      BY <2>4, <3>1
    <3> QED BY <3>1, <3>2 DEF LastUser
  <2>8. LastSubkey(key') = LastSubkey(key)
    BY <2>3, <2>4 DEF LastSubkey
  <2>9. /\ LastBefore(Here, Structural)' = Here
        /\ LastBefore(Here, KeyTags)' = LastBefore(Here, KeyTags)
        /\ LastBefore(Here, KeyTags \cup SubkeyTags)' = LastBefore(Here, KeyTags \cup SubkeyTags)
    BY <1>2, <2>1
  <2>10. LocalsRight'
    BY <1>1, <1>2, <1>11, <1>12, <2>2, <2>4, <2>7, <2>8, <2>9, TagsApart DEF LocalsRight, LastUser, LastSubkey
  <2> QED BY <2>6, <2>10
<1>13. ASSUME Takes(key, p, key'), TakesSubkey(key, p, key') PROVE ComponentsFiled' /\ LocalsRight'
  <2>1. p.tag \notin KeyTags /\ p.tag \in KeyTags \cup SubkeyTags
    BY <1>13 DEF TakesSubkey, KeyTags, SubkeyTags
  <2>2. Owned(p)'
    BY <1>7, <1>11, <1>13, <2>1
  <2>3. PICK us \in Seq(Users), ss \in Seq(Subkeys) : us = key.users /\ ss = key.subkeys
    BY <1>1
  <2>4. key'.users = us /\ key'.subkeys = Append(ss, NewSubkey(p)) /\ ~key'.user /\ key'.subkey
    BY <1>13, <2>3 DEF TakesSubkey
  <2>5. UsersFiled(us)' /\ SubkeysFiled(Append(ss, NewSubkey(p)))'
    BY <1>1, <1>4, <2>2, <2>3, ComponentsGrow
  <2>6. ComponentsFiled'
    BY <2>4, <2>5 DEF ComponentsFiled
  <2>7. LastSubkey(key') = Here
    <3>1. PICK c \in Subkeys : c = NewSubkey(p) /\ c.packet = p
      BY NewComponents
    <3>2. key'.subkeys[Len(key'.subkeys)] = c
      BY <2>4, <3>1
    <3> QED BY <3>1, <3>2 DEF LastSubkey
  <2>8. /\ LastBefore(Here, KeyTags)' = LastBefore(Here, KeyTags)
        /\ LastBefore(Here, KeyTags \cup SubkeyTags)' = Here
    BY <1>2, <2>1
  <2>9. SubkeySkipped(Here)' \/ LastBefore(Here, KeyTags)' = 1
    BY <1>1, <1>2, <1>11, <1>13, <2>8, TagsApart DEF LocalsRight
  <2>10. LocalsRight'
    BY <1>11, <1>13, <2>4, <2>7, <2>8, <2>9, TagsApart DEF LocalsRight, LastSubkey
  <2> QED BY <2>6, <2>10
<1>14. ASSUME Takes(key, p, key'), p.tag = "signature"
       PROVE  /\ p.tag \notin Structural /\ key.ignoreUntil = {}
              /\ key.user => LastBefore(Here, Structural) = LastUser(key)
              /\ key.subkey => LastBefore(Here, KeyTags \cup SubkeyTags) = LastSubkey(key)
  BY <1>1, <1>11, <1>14, TagsApart DEF TakesSubkey, SubkeyTags, LocalsRight, LastUser, LastSubkey
<1>15. ASSUME Takes(key, p, key'), SignsUser(key, p, key') PROVE ComponentsFiled' /\ LocalsRight'
  <2>a. PICK us \in Seq(Users), ss \in Seq(Subkeys) : us = key.users /\ ss = key.subkeys
    BY <1>1
  <2>b. PICK w \in Users : /\ key'.users = [us EXCEPT ![Len(us)] = w] /\ us # <<>>
                           /\ w.packet = us[Len(us)].packet
                           /\ UserSigs(w) = UserSigs(us[Len(us)]) \cup {p}
    BY <1>15, <2>a DEF SignsUser
  <2>c. PICK us2 \in Seq(Users) : us2 = [us EXCEPT ![Len(us)] = w]
    BY SeqExcept
  <2>1. /\ us = key.users /\ us2 = [us EXCEPT ![Len(us)] = w] /\ us2 = key'.users
        /\ ss = key.subkeys /\ ss = key'.subkeys
        /\ us # <<>> /\ w.packet = us[Len(us)].packet /\ UserSigs(w) = UserSigs(us[Len(us)]) \cup {p}
    BY <1>15, <2>a, <2>b, <2>c DEF SignsUser
  <2>2. p.tag = "signature" /\ key.user /\ key'.user = key.user /\ key'.subkey = key.subkey
    BY <1>15 DEF SignsUser
  <2>3. LastBefore(Here, Structural) = us[Len(us)].packet.pos
    BY <1>14, <1>15, <2>1, <2>2 DEF LastUser
  <2>4. UsersFiled(us2)' /\ SubkeysFiled(ss)'
    BY <1>1, <1>5, <2>1, <2>3, ComponentsGrow, ZenonT(40)
  <2>5. ComponentsFiled'
    BY <2>1, <2>4 DEF ComponentsFiled
  <2>6. LastUser(key') = LastUser(key) /\ LastSubkey(key') = LastSubkey(key)
    <3>1. PICK n \in DOMAIN us : n = Len(us)
      BY <2>1
    <3>2. Len(us2) = Len(us) /\ us2[n] = w
      BY <2>1, <3>1, SeqExcept
    <3>3. us2[Len(us2)].packet = us[Len(us)].packet
      BY <2>1, <3>1, <3>2
    <3> QED BY <2>1, <3>3 DEF LastUser, LastSubkey
  <2>7. LocalsRight'
    BY <1>6, <1>11, <1>14, <1>15, <2>2, <2>6
  <2> QED BY <2>5, <2>7
<1>16. ASSUME Takes(key, p, key'), SignsSubkey(key, p, key') PROVE ComponentsFiled' /\ LocalsRight'
  <2>a. PICK ss \in Seq(Subkeys), us \in Seq(Users) : ss = key.subkeys /\ us = key.users
    BY <1>1
  <2>b. PICK w \in Subkeys : /\ key'.subkeys = [ss EXCEPT ![Len(ss)] = w] /\ ss # <<>>
                           /\ w.packet = ss[Len(ss)].packet
                           /\ SubkeySigs(w) = SubkeySigs(ss[Len(ss)]) \cup {p}
    BY <1>16, <2>a DEF SignsSubkey
  <2>c. PICK ss2 \in Seq(Subkeys) : ss2 = [ss EXCEPT ![Len(ss)] = w]
    BY SeqExcept
  <2>1. /\ ss = key.subkeys /\ ss2 = [ss EXCEPT ![Len(ss)] = w] /\ ss2 = key'.subkeys
        /\ us = key.users /\ us = key'.users
        /\ ss # <<>> /\ w.packet = ss[Len(ss)].packet /\ SubkeySigs(w) = SubkeySigs(ss[Len(ss)]) \cup {p}
    BY <1>16, <2>a, <2>b, <2>c DEF SignsSubkey
  <2>2. p.tag = "signature" /\ key.subkey /\ key'.user = key.user /\ key'.subkey = key.subkey
    BY <1>16 DEF SignsSubkey
  <2>3. LastBefore(Here, KeyTags \cup SubkeyTags) = ss[Len(ss)].packet.pos
    BY <1>14, <1>16, <2>1, <2>2 DEF LastSubkey
  <2>4. UsersFiled(us)' /\ SubkeysFiled(ss2)'
    BY <1>1, <1>4, <2>1, <2>3, ComponentsGrow, ZenonT(40)
  <2>5. ComponentsFiled'
    BY <2>1, <2>4 DEF ComponentsFiled
  <2>6. LastUser(key') = LastUser(key) /\ LastSubkey(key') = LastSubkey(key)
    <3>1. PICK n \in DOMAIN ss : n = Len(ss)
      BY <2>1
    <3>2. Len(ss2) = Len(ss) /\ ss2[n] = w
      BY <2>1, <3>1, SeqExcept
    <3>3. ss2[Len(ss2)].packet = ss[Len(ss)].packet
      BY <2>1, <3>1, <3>2
    <3> QED BY <2>1, <3>3 DEF LastUser, LastSubkey
  <2>7. LocalsRight'
    BY <1>6, <1>11, <1>14, <1>16, <2>2, <2>6
  <2> QED BY <2>5, <2>7
<1>17. ASSUME Takes(key, p, key'), SignsKey(key, p, key') PROVE ComponentsFiled' /\ LocalsRight'
  <2>1. ComponentsFiled'
    BY <1>8, <1>17 DEF SignsKey
  <2>2. LocalsRight'
    BY <1>6, <1>11, <1>14, <1>17 DEF SignsKey, Same, LastUser, LastSubkey
  <2> QED BY <2>1, <2>2
<1> QED BY <1>9, <1>10, <1>11, <1>12, <1>13, <1>15, <1>16, <1>17 DEF Effect, Throws, Takes

LEMMA ReadKeeps ==
  ASSUME Readable, IInv, NEW p \in Incoming(Here), Read(p)
  PROVE  IInv'
<1>1. PacketsRight' /\ p \in Packet /\ p.pos = Here /\ packets' = Append(packets, p) /\ packets' # <<>>
  BY ReadKeepsPackets DEF IInv
<1>2. KeyRight' /\ Effect(key, p, key')
  BY <1>1, ReadKeepsKey DEF IInv
<1>3. ASSUME KeyFirst' PROVE ComponentsFiled' /\ LocalsRight'
  <2>1. ~key'.threw /\ ~key.threw
    BY <1>3 DEF KeyFirst, Constructed, Read
  <2>2. CASE KeyFirst
    BY <1>1, <1>2, <2>1, <2>2, NextFiled
  <2>3. CASE ~KeyFirst
    <3>1. key'.keyPacket # key.keyPacket
      BY <1>3, <2>1, <2>3 DEF KeyFirst, Constructed
    <3>2. Takes(key, p, key') /\ TakesKey(key, p, key')
      BY <1>2, <2>1, <3>1 DEF Effect, Throws, SetsIgnore, Skips, Same, Takes, TakesUser, TakesSubkey,
                              SignsUser, SignsSubkey, SignsKey
    <3>3. key'.ignoreUntil = {}
      BY <3>2 DEF Takes
    <3> QED BY <1>1, <1>3, <3>2, <3>3, FirstKeyFiled
  <2> QED BY <2>2, <2>3
<1> QED BY <1>1, <1>2, <1>3 DEF IInv

LEMMA StutterKeeps ==
  ASSUME UNCHANGED vars
  PROVE  /\ PacketsRight /\ KeyRight => PacketsRight' /\ KeyRight'
         /\ IInv => IInv'
<1>1. packets' = packets /\ key' = key /\ kind' = kind
  BY DEF vars
<1>2. (PacketsRight' <=> PacketsRight) /\ (KeyRight' <=> KeyRight) /\ (KeyFirst' <=> KeyFirst)
  BY <1>1 DEF PacketsRight, KeyRight, Sound, KeyFirst, Constructed
<1>3. /\ Here' = Here /\ \A n : SubkeySkipped(n)' <=> SubkeySkipped(n)
      /\ \A n, tags : LastBefore(n, tags)' = LastBefore(n, tags)
  BY <1>1 DEF Here, SubkeySkipped, LastBefore, SelectLastInSubSeq
<1>4. LocalsRight' <=> LocalsRight
  BY <1>1, <1>3 DEF LocalsRight
<1>5. \A q, tags, sigs : Filed(q, tags, sigs) => Filed(q, tags, sigs)'
  BY <1>1, <1>3 DEF Filed, Owned
<1>6. ComponentsFiled => ComponentsFiled'
  BY <1>1, <1>5 DEF ComponentsFiled, UsersFiled, SubkeysFiled
<1> QED BY <1>2, <1>4, <1>6 DEF IInv

\* Every key object is well formed: its parts are what their names say, and
\* `user' and `subkey' refer to something when packetListToStructure uses them.
THEOREM TypeCorrect == Spec => []TypeOK
<1> DEFINE TInv == PacketsRight /\ KeyRight
<1>1. Init => TInv
  BY InitialIInv DEF IInv
<1>2. TInv /\ [Next]_vars => TInv'
  <2> SUFFICES ASSUME TInv, [Next]_vars PROVE TInv'
    OBVIOUS
  <2>1. CASE UNCHANGED vars
    BY <2>1, StutterKeeps
  <2>2. CASE Next
    <3>1. PICK p \in Incoming(Here) : Read(p)
      BY <2>2 DEF Next, Here
    <3>2. PacketsRight' /\ p \in Packet /\ packets' # <<>>
      BY <3>1, ReadKeepsPackets
    <3>3. KeyRight'
      BY <3>1, <3>2, ReadKeepsKey
    <3> QED BY <3>2, <3>3
  <2> QED BY <2>1, <2>2
<1>3. TInv => TypeOK
  <2> SUFFICES ASSUME TInv PROVE TypeOK
    OBVIOUS
  <2>1. /\ key.keyPacket \in Packet /\ key.revocationSignatures \in Seq(Packet)
        /\ key.directSignatures \in Seq(Packet) /\ key.threw \in BOOLEAN
    BY KeyFields DEF KeyRight, Sound
  <2> QED BY <2>1 DEF TypeOK, KeyRight, Sound, PacketsRight
<1> HIDE DEF TInv
<1> QED BY <1>1, <1>2, <1>3, PTL DEF Spec

\* What is filed follows its own component under its own primary key, and the
\* locals of packetListToStructure refer to what the next packet would
\* follow, whatever has been read (the inductive invariant of FiledRight).
THEOREM InvariantHolds == ASSUME Readable PROVE Spec => []IInv
<1>1. IInv /\ [Next]_vars => IInv'
  <2> SUFFICES ASSUME IInv, [Next]_vars PROVE IInv'
    OBVIOUS
  <2>1. CASE UNCHANGED vars
    BY <2>1, StutterKeeps
  <2>2. CASE Next
    <3>1. PICK p \in Incoming(Here) : Read(p)
      BY <2>2 DEF Next, Here
    <3> QED BY <3>1, ReadKeeps
  <2> QED BY <2>1, <2>2
<1> QED BY <1>1, InitialIInv, PTL DEF Spec

LEMMA JoinedElements ==
  ASSUME NEW S, NEW a \in Seq(S), NEW b \in Seq(S), NEW c \in Seq(S)
  PROVE  /\ \A j \in DOMAIN (a \o b) : (a \o b)[j] \in ToSet(a) \cup ToSet(b)
         /\ \A j \in DOMAIN (a \o b \o c) : (a \o b \o c)[j] \in ToSet(a) \cup ToSet(b) \cup ToSet(c)
<1>1. ASSUME NEW x \in Seq(S), NEW y \in Seq(S), NEW j \in DOMAIN (x \o y)
      PROVE  (x \o y)[j] \in ToSet(x) \cup ToSet(y)
  <2>1. PICK n \in Nat, m \in Nat : n = Len(x) /\ m = Len(y)
    OBVIOUS
  <2>2. j \in 1 .. (n + m) /\ DOMAIN x = 1 .. n /\ DOMAIN y = 1 .. m
    BY <1>1, <2>1
  <2>3. (x \o y)[j] = IF j <= n THEN x[j] ELSE y[j - n]
    BY <2>1, <2>2
  <2>4. j <= n => j \in DOMAIN x
    BY <2>2
  <2>5. ~(j <= n) => j - n \in DOMAIN y
    BY <2>2
  <2> QED BY <2>3, <2>4, <2>5 DEF ToSet
<1>2. a \o b \in Seq(S)
  OBVIOUS
<1>3. ASSUME NEW j \in DOMAIN (a \o b \o c) PROVE (a \o b \o c)[j] \in ToSet(a) \cup ToSet(b) \cup ToSet(c)
  <2>1. PICK d \in Seq(S) : d = a \o b
    BY <1>2
  <2>2. (d \o c)[j] \in ToSet(d) \cup ToSet(c)
    BY <1>1, <1>3, <2>1
  <2>3. ToSet(d) \subseteq ToSet(a) \cup ToSet(b)
    BY <1>1, <2>1 DEF ToSet
  <2> QED BY <2>1, <2>2, <2>3
<1> QED BY <1>1, <1>3

LEMMA IInvFiles == IInv => FiledRight
<1> SUFFICES ASSUME IInv, KeyFirst PROVE UserSigsAttached /\ SubkeySigsAttached /\ PrimaryOwns
  BY DEF FiledRight
<1>1. /\ UsersFiled(key.users) /\ SubkeysFiled(key.subkeys) /\ key.keyPacket.pos = 1
      /\ key.users \in Seq(Users) /\ key.subkeys \in Seq(Subkeys)
  BY KeyFields DEF IInv, ComponentsFiled, KeyFirst, KeyRight, Sound
<1>2. ASSUME NEW i \in DOMAIN key.users,
             NEW j \in DOMAIN (key.users[i].selfCertifications \o key.users[i].otherCertifications \o key.users[i].revocationSignatures)
      PROVE  LastBefore((key.users[i].selfCertifications \o key.users[i].otherCertifications
                         \o key.users[i].revocationSignatures)[j].pos, UserTags \cup KeyTags \cup SubkeyTags)
             = key.users[i].packet.pos
  <2>1. PICK u \in Users : u = key.users[i]
    BY <1>1
  <2>2. PICK a \in Seq(Packet), b \in Seq(Packet), c \in Seq(Packet) :
          a = u.selfCertifications /\ b = u.otherCertifications /\ c = u.revocationSignatures
    BY DEF Users
  <2>3. j \in DOMAIN (a \o b \o c)
    BY <1>2, <2>1, <2>2
  <2>4. (a \o b \o c)[j] \in ToSet(a) \cup ToSet(b) \cup ToSet(c)
    BY <2>3, JoinedElements
  <2>5. (a \o b \o c)[j] \in UserSigs(u)
    BY <2>2, <2>4 DEF UserSigs
  <2>6. Filed(u.packet, Structural, UserSigs(u))
    BY <1>1, <2>1 DEF UsersFiled
  <2>7. LastBefore((a \o b \o c)[j].pos, Structural) = u.packet.pos
    BY <2>5, <2>6 DEF Filed
  <2> QED BY <2>1, <2>2, <2>7 DEF Structural
<1>3. ASSUME NEW i \in DOMAIN key.subkeys,
             NEW j \in DOMAIN (key.subkeys[i].bindingSignatures \o key.subkeys[i].revocationSignatures)
      PROVE  LastBefore((key.subkeys[i].bindingSignatures \o key.subkeys[i].revocationSignatures)[j].pos,
                        KeyTags \cup SubkeyTags) = key.subkeys[i].packet.pos
  <2>1. PICK s \in Subkeys : s = key.subkeys[i]
    BY <1>1
  <2>2. PICK a \in Seq(Packet), b \in Seq(Packet) : a = s.bindingSignatures /\ b = s.revocationSignatures
    BY DEF Subkeys
  <2>3. j \in DOMAIN (a \o b)
    BY <1>3, <2>1, <2>2
  <2>4. (a \o b)[j] \in ToSet(a) \cup ToSet(b)
    BY <2>3, JoinedElements
  <2>5. (a \o b)[j] \in SubkeySigs(s)
    BY <2>2, <2>4 DEF SubkeySigs
  <2>6. Filed(s.packet, KeyTags \cup SubkeyTags, SubkeySigs(s))
    BY <1>1, <2>1 DEF SubkeysFiled
  <2>7. LastBefore((a \o b)[j].pos, KeyTags \cup SubkeyTags) = s.packet.pos
    BY <2>5, <2>6 DEF Filed
  <2> QED BY <2>1, <2>2, <2>7
<1>4. UserSigsAttached
  BY <1>2 DEF UserSigsAttached
<1>5. SubkeySigsAttached
  BY <1>3 DEF SubkeySigsAttached
<1>6. PrimaryOwns
  BY <1>1 DEF PrimaryOwns, UsersFiled, SubkeysFiled, Filed, Owned
<1> QED BY <1>4, <1>5, <1>6

\* Nothing of a key is filed under the wrong component, in a block of any
\* length and order, whichever public key packets and signatures cannot be
\* parsed (FiledRight of the run `structure').
THEOREM FiledStaysRight == ASSUME Readable PROVE Spec => []FiledRight
BY InvariantHolds, IInvFiles, PTL

-----------------------------------------------------------------------------
(* What a key object consists of *)

LEMMA ContentTypes ==
  ASSUME NEW k, NEW st, Contents(k, st)
  PROVE  /\ st.revocationSignatures \in Seq(SigsOf({"keyRevocation"}))
         /\ st.directSignatures \in Seq(SigsOf({"key", "certRevocation"}))
         /\ st.users \in Seq(UserContents) /\ st.subkeys \in Seq(SubkeyContents(k))
BY DEF Contents

LEMMA UserGains ==
  ASSUME NEW u \in UserContents, NEW p
  PROVE  /\ p \in SigsOf(CertTypes) /\ p.self => [u EXCEPT !.selfCertifications = Append(@, p)] \in UserContents
         /\ p \in SigsOf(CertTypes) /\ ~p.self => [u EXCEPT !.otherCertifications = Append(@, p)] \in UserContents
         /\ p \in SigsOf({"certRevocation"}) => [u EXCEPT !.revocationSignatures = Append(@, p)] \in UserContents
<1> DEFINE S1 == {q \in SigsOf(CertTypes) : q.self}
           S2 == {q \in SigsOf(CertTypes) : ~q.self}
           S3 == SigsOf({"certRevocation"})
<1>1. /\ u.selfCertifications \in Seq(S1) /\ u.otherCertifications \in Seq(S2)
      /\ u.revocationSignatures \in Seq(S3)
  BY DEF UserContents
<1>2. /\ p \in S1 <=> p \in SigsOf(CertTypes) /\ p.self
      /\ p \in S2 <=> p \in SigsOf(CertTypes) /\ ~p.self
      /\ p \in S3 <=> p \in SigsOf({"certRevocation"})
  OBVIOUS
<1>3. UserContents = [packet : {q \in Packet : q.ok /\ q.tag \in UserTags}, selfCertifications : Seq(S1),
                      otherCertifications : Seq(S2), revocationSignatures : Seq(S3)]
  BY DEF UserContents
<1> HIDE DEF S1, S2, S3
<1>4. ASSUME p \in S1 PROVE [u EXCEPT !.selfCertifications = Append(@, p)] \in UserContents
  <2>1. PICK d \in Seq(S1) : d = Append(u.selfCertifications, p)
    BY <1>1, <1>4, ToSetAppend
  <2>2. [u EXCEPT !.selfCertifications = d] \in UserContents
    BY <1>3, <2>1
  <2> QED BY <2>1, <2>2
<1>5. ASSUME p \in S2 PROVE [u EXCEPT !.otherCertifications = Append(@, p)] \in UserContents
  <2>1. PICK d \in Seq(S2) : d = Append(u.otherCertifications, p)
    BY <1>1, <1>5, ToSetAppend
  <2>2. [u EXCEPT !.otherCertifications = d] \in UserContents
    BY <1>3, <2>1
  <2> QED BY <2>1, <2>2
<1>6. ASSUME p \in S3 PROVE [u EXCEPT !.revocationSignatures = Append(@, p)] \in UserContents
  <2>1. PICK d \in Seq(S3) : d = Append(u.revocationSignatures, p)
    BY <1>1, <1>6, ToSetAppend
  <2>2. [u EXCEPT !.revocationSignatures = d] \in UserContents
    BY <1>3, <2>1
  <2> QED BY <2>1, <2>2
<1> QED BY <1>2, <1>4, <1>5, <1>6

LEMMA SubkeyGains ==
  ASSUME NEW k, NEW s \in SubkeyContents(k), NEW p
  PROVE  /\ p \in SigsOf({"subkeyBinding"}) => [s EXCEPT !.bindingSignatures = Append(@, p)] \in SubkeyContents(k)
         /\ p \in SigsOf({"subkeyRevocation"}) => [s EXCEPT !.revocationSignatures = Append(@, p)] \in SubkeyContents(k)
<1>1. /\ s.bindingSignatures \in Seq(SigsOf({"subkeyBinding"}))
      /\ s.revocationSignatures \in Seq(SigsOf({"subkeyRevocation"}))
  BY DEF SubkeyContents
<1>2. ASSUME p \in SigsOf({"subkeyBinding"})
      PROVE  [s EXCEPT !.bindingSignatures = Append(@, p)] \in SubkeyContents(k)
  <2>1. PICK d \in Seq(SigsOf({"subkeyBinding"})) : d = Append(s.bindingSignatures, p)
    BY <1>1, <1>2, ToSetAppend
  <2>2. [s EXCEPT !.bindingSignatures = d] \in SubkeyContents(k)
    BY <2>1 DEF SubkeyContents
  <2> QED BY <2>1, <2>2
<1>3. ASSUME p \in SigsOf({"subkeyRevocation"})
      PROVE  [s EXCEPT !.revocationSignatures = Append(@, p)] \in SubkeyContents(k)
  <2>1. PICK d \in Seq(SigsOf({"subkeyRevocation"})) : d = Append(s.revocationSignatures, p)
    BY <1>1, <1>3, ToSetAppend
  <2>2. [s EXCEPT !.revocationSignatures = d] \in SubkeyContents(k)
    BY <2>1 DEF SubkeyContents
  <2> QED BY <2>1, <2>2
<1> QED BY <1>2, <1>3

LEMMA NewContents ==
  ASSUME NEW k, NEW p \in Packet, p.ok
  PROVE  /\ p.tag \in UserTags => NewUser(p) \in UserContents
         /\ p.tag \in SubkeyTags \ disallowedPackets(k) => NewSubkey(p) \in SubkeyContents(k)
BY DEF NewUser, NewSubkey, UserContents, SubkeyContents

\* The lists keep to their types, whatever the packet.
LEMMA SignatureContents ==
  ASSUME NEW k, NEW st \in Keys, Contents(k, st), NEW p \in Packet, p.ok, p.tag = "signature",
         st.user => st.users # <<>>, st.subkey => st.subkeys # <<>>
  PROVE  Contents(k, OnSignature(st, p))
<1> DEFINE st2 == OnSignature(st, p)
           n == Len(st.users)
           m == Len(st.subkeys)
<1>0. /\ st.keyPacket \in {NoPacket} \cup Primaries(k)
      /\ st.revocationSignatures \in Seq(SigsOf({"keyRevocation"}))
      /\ st.directSignatures \in Seq(SigsOf({"key", "certRevocation"}))
      /\ st.users \in Seq(UserContents) /\ st.subkeys \in Seq(SubkeyContents(k))
      /\ st.user \in BOOLEAN /\ st.subkey \in BOOLEAN
  BY KeyFields DEF Contents
<1>1. \A types : p.type \in types => p \in SigsOf(types)
  BY DEF SigsOf
<1>2. Contents(k, Throw(st))
  BY DEF Contents, Throw, Keys
<1>3. ASSUME NEW q \in SigsOf({"key", "certRevocation"})
      PROVE  Contents(k, [st EXCEPT !.directSignatures = Append(@, q)])
  <2>1. PICK d \in Seq(SigsOf({"key", "certRevocation"})) : d = Append(st.directSignatures, q)
    BY <1>0, <1>3, ToSetAppend
  <2> QED BY <2>1 DEF Contents, Keys
<1>4. ASSUME NEW q \in SigsOf({"keyRevocation"})
      PROVE  Contents(k, [st EXCEPT !.revocationSignatures = Append(@, q)])
  <2>1. PICK d \in Seq(SigsOf({"keyRevocation"})) : d = Append(st.revocationSignatures, q)
    BY <1>0, <1>4, ToSetAppend
  <2> QED BY <2>1 DEF Contents, Keys
<1>5. ASSUME NEW w \in UserContents PROVE Contents(k, [st EXCEPT !.users = [@ EXCEPT ![n] = w]])
  <2>1. PICK us \in Seq(UserContents) : us = [st.users EXCEPT ![n] = w]
    BY <1>0, SeqExcept
  <2> QED BY <2>1 DEF Contents, Keys
<1>6. ASSUME NEW w \in SubkeyContents(k) PROVE Contents(k, [st EXCEPT !.subkeys = [@ EXCEPT ![m] = w]])
  <2>1. PICK ss \in Seq(SubkeyContents(k)) : ss = [st.subkeys EXCEPT ![m] = w]
    BY <1>0, SeqExcept
  <2> QED BY <2>1 DEF Contents, Keys
<1>7. CASE p.type \in CertTypes
  <2>1. st2 = OnCertification(st, p)
    BY <1>7 DEF OnSignature, CertTypes
  <2>2. CASE ~st.user \/ st.keyPacket = NoPacket
    BY <1>2, <2>1, <2>2 DEF OnCertification
  <2>3. CASE st.user /\ st.keyPacket # NoPacket
    <3>1. PICK u \in UserContents : u = st.users[n]
      BY <1>0, <2>3
    <3> DEFINE w1 == [u EXCEPT !.selfCertifications = Append(@, p)]
               w2 == [u EXCEPT !.otherCertifications = Append(@, p)]
    <3>2. st2 = IF p.self THEN [st EXCEPT !.users = [@ EXCEPT ![n] = w1]] ELSE [st EXCEPT !.users = [@ EXCEPT ![n] = w2]]
      BY <2>1, <2>3, <3>1 DEF OnCertification
    <3>3. (p.self => w1 \in UserContents) /\ (~p.self => w2 \in UserContents)
      BY <1>1, <1>7, <3>1, UserGains
    <3> HIDE DEF w1, w2
    <3> QED BY <1>5, <3>2, <3>3
  <2> QED BY <2>2, <2>3
<1>8. CASE p.type = "certRevocation"
  <2>1. st2 = OnCertRevocation(st, p)
    BY <1>8 DEF OnSignature, CertTypes
  <2>2. CASE ~st.user
    BY <1>1, <1>3, <1>8, <2>1, <2>2 DEF OnCertRevocation
  <2>3. CASE st.user
    <3>1. PICK u \in UserContents : u = st.users[n]
      BY <1>0, <2>3
    <3> DEFINE w == [u EXCEPT !.revocationSignatures = Append(@, p)]
    <3>2. st2 = [st EXCEPT !.users = [@ EXCEPT ![n] = w]]
      BY <2>1, <2>3, <3>1 DEF OnCertRevocation
    <3>3. w \in UserContents
      BY <1>1, <1>8, <3>1, UserGains
    <3> HIDE DEF w
    <3> QED BY <1>5, <3>2, <3>3
  <2> QED BY <2>2, <2>3
<1>9. CASE p.type = "subkeyBinding"
  <2>1. st2 = OnSubkeyBinding(st, p)
    BY <1>9 DEF OnSignature, CertTypes
  <2>2. CASE ~st.subkey
    BY <2>1, <2>2 DEF OnSubkeyBinding
  <2>3. CASE st.subkey
    <3>1. PICK s \in SubkeyContents(k) : s = st.subkeys[m]
      BY <1>0, <2>3
    <3> DEFINE w == [s EXCEPT !.bindingSignatures = Append(@, p)]
    <3>2. st2 = [st EXCEPT !.subkeys = [@ EXCEPT ![m] = w]]
      BY <2>1, <2>3, <3>1 DEF OnSubkeyBinding
    <3>3. w \in SubkeyContents(k)
      BY <1>1, <1>9, <3>1, SubkeyGains
    <3> HIDE DEF w
    <3> QED BY <1>6, <3>2, <3>3
  <2> QED BY <2>2, <2>3
<1>10. CASE p.type = "subkeyRevocation"
  <2>1. st2 = OnSubkeyRevocation(st, p)
    BY <1>10 DEF OnSignature, CertTypes
  <2>2. CASE ~st.subkey
    BY <2>1, <2>2 DEF OnSubkeyRevocation
  <2>3. CASE st.subkey
    <3>1. PICK s \in SubkeyContents(k) : s = st.subkeys[m]
      BY <1>0, <2>3
    <3> DEFINE w == [s EXCEPT !.revocationSignatures = Append(@, p)]
    <3>2. st2 = [st EXCEPT !.subkeys = [@ EXCEPT ![m] = w]]
      BY <2>1, <2>3, <3>1 DEF OnSubkeyRevocation
    <3>3. w \in SubkeyContents(k)
      BY <1>1, <1>10, <3>1, SubkeyGains
    <3> HIDE DEF w
    <3> QED BY <1>6, <3>2, <3>3
  <2> QED BY <2>2, <2>3
<1>11. CASE p.type = "key"
  <2>1. st2 = [st EXCEPT !.directSignatures = Append(@, p)]
    BY <1>11 DEF OnSignature, CertTypes
  <2> QED BY <1>1, <1>3, <1>11, <2>1
<1>12. CASE p.type = "keyRevocation"
  <2>1. st2 = [st EXCEPT !.revocationSignatures = Append(@, p)]
    BY <1>12 DEF OnSignature, CertTypes
  <2> QED BY <1>1, <1>4, <1>12, <2>1
<1>13. CASE p.type \notin CertTypes \cup {"certRevocation", "key", "subkeyBinding", "keyRevocation", "subkeyRevocation"}
  <2>1. st2 = st
    BY <1>13 DEF OnSignature, CertTypes
  <2> QED BY <2>1
<1> QED BY <1>7, <1>8, <1>9, <1>10, <1>11, <1>12, <1>13

LEMMA StepContents ==
  ASSUME NEW k, NEW st, Sound(st), Contents(k, st), NEW p \in Packet
  PROVE  Contents(k, Step(k, st, p))
<1> DEFINE found == [st EXCEPT !.ignoreUntil = {}]
<1>1. /\ st \in Keys /\ found \in Keys /\ found.keyPacket = st.keyPacket
      /\ found.revocationSignatures = st.revocationSignatures /\ found.directSignatures = st.directSignatures
      /\ found.users = st.users /\ found.subkeys = st.subkeys /\ found.user = st.user /\ found.subkey = st.subkey
  BY DEF Keys, Sound
<1>2. Contents(k, found)
  BY <1>1 DEF Contents
<1>3. CASE st.threw \/ ~p.ok \/ (st.ignoreUntil # {} /\ p.tag \notin st.ignoreUntil)
  <2>1. Step(k, st, p) = st \/ Step(k, st, p) = OnUnparseable(st, p)
    BY <1>3 DEF Step
  <2>2. Contents(k, OnUnparseable(st, p))
    BY <1>1 DEF OnUnparseable, Contents, Keys
  <2> QED BY <2>1, <2>2
<1>4. CASE ~st.threw /\ p.ok /\ ~(st.ignoreUntil # {} /\ p.tag \notin st.ignoreUntil)
  <2>1. Step(k, st, p) = IF p.tag \in disallowedPackets(k) THEN Throw(found)
                         ELSE IF p.tag \in KeyTags THEN OnKey(found, p)
                         ELSE IF p.tag \in UserTags THEN OnUser(found, p)
                         ELSE IF p.tag \in SubkeyTags THEN OnSubkey(found, p)
                         ELSE OnSignature(found, p)
    BY <1>4 DEF Step
  <2> HIDE DEF found
  <2>2. p.tag \in KeyTags \/ p.tag \in UserTags \/ p.tag \in SubkeyTags \/ p.tag = "signature"
    BY DEF Packet, Tags
  <2>3. Contents(k, Throw(found))
    BY <1>1, <1>2 DEF Contents, Throw, Keys
  <2>4. ASSUME p.tag \in KeyTags, p.tag \notin disallowedPackets(k) PROVE Contents(k, OnKey(found, p))
    <3>1. p \in Primaries(k)
      BY <1>4, <2>4 DEF Primaries
    <3>2. Contents(k, [found EXCEPT !.keyPacket = p])
      BY <1>1, <1>2, <3>1 DEF Contents, Keys
    <3> QED BY <2>3, <3>2 DEF OnKey
  <2>5. ASSUME p.tag \in UserTags PROVE Contents(k, OnUser(found, p))
    <3>1. PICK c \in UserContents : c = NewUser(p)
      BY <1>4, <2>5, NewContents
    <3>2. PICK us \in Seq(UserContents) : us = Append(found.users, c)
      BY <1>2, <3>1, ContentTypes, ToSetAppend
    <3>3. OnUser(found, p) = [found EXCEPT !.user = TRUE, !.users = us]
      BY <3>1, <3>2 DEF OnUser
    <3>4. Contents(k, [found EXCEPT !.user = TRUE, !.users = us])
      BY <1>1, <1>2, <3>2 DEF Contents, Keys
    <3> QED BY <3>3, <3>4
  <2>6. ASSUME p.tag \in SubkeyTags, p.tag \notin disallowedPackets(k) PROVE Contents(k, OnSubkey(found, p))
    <3>1. PICK c \in SubkeyContents(k) : c = NewSubkey(p)
      BY <1>4, <2>6, NewContents
    <3>2. PICK ss \in Seq(SubkeyContents(k)) : ss = Append(found.subkeys, c)
      BY <1>2, <3>1, ContentTypes, ToSetAppend
    <3>3. OnSubkey(found, p) = [found EXCEPT !.user = FALSE, !.subkey = TRUE, !.subkeys = ss]
      BY <3>1, <3>2 DEF OnSubkey
    <3>4. Contents(k, [found EXCEPT !.user = FALSE, !.subkey = TRUE, !.subkeys = ss])
      BY <1>1, <1>2, <3>2 DEF Contents, Keys
    <3> QED BY <3>3, <3>4
  <2>7. ASSUME p.tag = "signature" PROVE Contents(k, OnSignature(found, p))
    <3>1. (found.user => found.users # <<>>) /\ (found.subkey => found.subkeys # <<>>)
      BY <1>1 DEF Sound
    <3> QED BY <1>1, <1>2, <1>4, <2>7, <3>1, SignatureContents
  <2> QED BY <2>1, <2>2, <2>3, <2>4, <2>5, <2>6, <2>7, TagsApart
<1> QED BY <1>3, <1>4

-----------------------------------------------------------------------------
(* Reading a list back *)

LEMMA EmptySound == Sound(EmptyKey) /\ \A k : Contents(k, EmptyKey)
<1>1. NoPacket \in Packet
  BY TagsApart DEF NoPacket, Packet
<1>2. Sound(EmptyKey)
  BY <1>1 DEF EmptyKey, Keys, Sound
<1>3. ASSUME NEW k PROVE Contents(k, EmptyKey)
  BY DEF EmptyKey, Contents
<1> QED BY <1>2, <1>3

\* The states that packetListToStructure goes through.
LEMMA ReadByFold ==
  ASSUME NEW k, NEW list \in Seq(Packet)
  PROVE  \E g : /\ g[0] = EmptyKey /\ packetListToStructure(k, list) = g[Len(list)]
                /\ \A i \in 1 .. Len(list) : g[i] = Step(k, g[i - 1], list[i])
<1> DEFINE n == Len(list)
           D == 1 .. n
           S == {st \in Keys : Sound(st)}
           h == [x \in D \X S |-> Step(k, x[2], list[x[1]])]
           c == [s \in SUBSET D |-> Max(s)]
<1>0. n \in Nat /\ DOMAIN list = D /\ \A i \in D : list[i] \in Packet
  OBVIOUS
<1>a. EmptyKey \in S
  BY EmptySound DEF Sound
<1>b. \A v \in S, p \in Packet : Step(k, v, p) \in S
  <2> SUFFICES ASSUME NEW v \in S, NEW p \in Packet PROVE Step(k, v, p) \in S
    OBVIOUS
  <2>1. CASE v.threw
    BY <2>1 DEF Step
  <2>2. CASE ~v.threw
    <3>1. Sound(Step(k, v, p))
      BY <2>2, StepSound
    <3> QED BY <3>1 DEF Sound
  <2> QED BY <2>1, <2>2
<1> HIDE DEF S
<1>1. h \in [D \X S -> S]
  <2>1. \A x \in D \X S : x[1] \in D /\ x[2] \in S
    OBVIOUS
  <2>2. \A x \in D \X S : Step(k, x[2], list[x[1]]) \in S
    BY <1>0, <1>b, <2>1
  <2> QED BY <2>2
<1>2. \A i \in D, v \in S : h[<<i, v>>] = Step(k, v, list[i])
  OBVIOUS
<1>3. IsFiniteSet(D) /\ \A s \in SUBSET D : s # {} => c[s] = Max(s) /\ c[s] \in s
  <2>1. IsFiniteSet(D)
    BY <1>0, FS_Interval
  <2>2. \A s \in SUBSET (1 .. n) : s # {} => Max(s) \in s
    BY <1>0, GreatestNumber
  <2> QED BY <2>1, <2>2
<1> HIDE DEF h, n, D, c
<1>4. PICK iter \in [SUBSET D -> S] : Recursion(iter, EmptyKey, D, c, h)
  BY <1>1, <1>3, <1>a, FoldExists
<1> DEFINE Def(f) == [s \in SUBSET DOMAIN list |->
                        IF s = {} THEN EmptyKey ELSE Step(k, f[s \ {Max(s)}], list[Max(s)])]
<1>5. \E f : f = Def(f)
  <2>1. ASSUME NEW s \in SUBSET D PROVE iter[s] = Def(iter)[s]
    <3>0. iter[s] = IF s = {} THEN EmptyKey ELSE h[<<c[s], iter[s \ {c[s]}]>>]
      BY <1>4 DEF Recursion
    <3>1. CASE s = {}
      BY <1>0, <3>0, <3>1
    <3>2. CASE s # {}
      <4>1. c[s] \in D /\ s \ {c[s]} \in SUBSET D /\ c[s] = Max(s)
        BY <1>3, <3>2
      <4>2. iter[s \ {c[s]}] \in S
        BY <1>4, <4>1
      <4>3. iter[s] = Step(k, iter[s \ {Max(s)}], list[Max(s)])
        BY <1>2, <3>0, <3>2, <4>1, <4>2
      <4> QED BY <1>0, <3>2, <4>1, <4>3
    <3> QED BY <3>1, <3>2
  <2>2. iter = Def(iter)
    BY <1>4, <1>0, <2>1 DEF Recursion
  <2> QED BY <2>2
<1> DEFINE g == CHOOSE f : f = Def(f)
<1>6. g = Def(g)
  BY <1>5
<1>7. packetListToStructure(k, list) = g[D]
  BY <1>0 DEF packetListToStructure, FoldLeft, MapThenFoldSet
<1>8. \A s \in SUBSET D : g[s] = IF s = {} THEN EmptyKey ELSE Step(k, g[s \ {Max(s)}], list[Max(s)])
  BY <1>0, <1>6
<1> HIDE DEF g
<1> DEFINE G == [i \in 0 .. n |-> g[1 .. i]]
<1>9. G[0] = EmptyKey
  <2>1. 1 .. 0 = {} /\ 0 \in 0 .. n
    BY <1>0
  <2> QED BY <1>8, <2>1
<1>10. G[n] = g[D]
  BY <1>0 DEF D
<1>11. ASSUME NEW i \in 1 .. n PROVE G[i] = Step(k, G[i - 1], list[i])
  <2>1. i \in Nat /\ i > 0 /\ i \in 0 .. n /\ i - 1 \in 0 .. n /\ 1 .. i \in SUBSET D
    BY <1>0 DEF D
  <2>2. Max(1 .. i) = i /\ (1 .. i) \ {Max(1 .. i)} = 1 .. (i - 1) /\ 1 .. i # {}
    BY <2>1, LastOfInterval
  <2>3. g[1 .. i] = Step(k, g[1 .. (i - 1)], list[i])
    BY <1>8, <2>1, <2>2
  <2> QED BY <2>1, <2>3
<1> HIDE DEF G
<1> QED BY <1>7, <1>9, <1>10, <1>11 DEF n

LEMMA ReadAppend ==
  ASSUME NEW k
  PROVE  /\ packetListToStructure(k, <<>>) = EmptyKey
         /\ \A list \in Seq(Packet), p \in Packet :
              packetListToStructure(k, Append(list, p)) = Step(k, packetListToStructure(k, list), p)
<1>1. packetListToStructure(k, <<>>) = EmptyKey
  <2>1. <<>> \in Seq(Packet) /\ Len(<<>>) = 0
    OBVIOUS
  <2> QED BY <2>1, ReadByFold
<1>2. ASSUME NEW list \in Seq(Packet), NEW p \in Packet
      PROVE  packetListToStructure(k, Append(list, p)) = Step(k, packetListToStructure(k, list), p)
  <2>1. PICK n \in Nat : n = Len(list)
    OBVIOUS
  <2>2. PICK more \in Seq(Packet) : more = Append(list, p)
    BY ToSetAppend
  <2>3. Len(more) = n + 1 /\ more[n + 1] = p /\ \A i \in 1 .. n : more[i] = list[i]
    BY <2>1, <2>2
  <2>4. PICK g : /\ g[0] = EmptyKey /\ packetListToStructure(k, list) = g[n]
                 /\ \A i \in 1 .. n : g[i] = Step(k, g[i - 1], list[i])
    BY <2>1, ReadByFold
  <2>5. PICK f : /\ f[0] = EmptyKey /\ packetListToStructure(k, more) = f[n + 1]
                 /\ \A i \in 1 .. (n + 1) : f[i] = Step(k, f[i - 1], more[i])
    BY <2>3, ReadByFold
  <2> DEFINE U == {i \in 0 .. n : f[i] = g[i]}
  <2>6. 0 \in U
    BY <2>4, <2>5
  <2>7. ASSUME NEW i \in 0 .. (n - 1), i \in U PROVE i + 1 \in U
    <3>1. i + 1 \in 1 .. n /\ i + 1 \in 1 .. (n + 1) /\ (i + 1) - 1 = i /\ f[i] = g[i] /\ i + 1 \in 0 .. n
      BY <2>7
    <3>2. f[i + 1] = Step(k, f[(i + 1) - 1], more[i + 1]) /\ g[i + 1] = Step(k, g[(i + 1) - 1], list[i + 1])
      BY <2>4, <2>5, <3>1
    <3>3. f[i + 1] = g[i + 1]
      BY <2>3, <3>1, <3>2
    <3> QED BY <3>1, <3>3
  <2> HIDE DEF U
  <2>8. \A i \in 0 .. n : i \in U
    BY <2>6, <2>7, BoundedInduction
  <2>9. f[n] = g[n]
    BY <2>8 DEF U
  <2>10. n + 1 \in 1 .. (n + 1) /\ (n + 1) - 1 = n
    OBVIOUS
  <2>11. f[n + 1] = Step(k, f[(n + 1) - 1], more[n + 1])
    BY <2>5, <2>10
  <2> QED BY <2>2, <2>3, <2>4, <2>5, <2>9, <2>10, <2>11
<1> QED BY <1>1, <1>2

-----------------------------------------------------------------------------
(* Writing a list *)

FlatUsers(us)   == FlattenSeq([i \in DOMAIN us |-> UserPackets(us[i])])
FlatSubkeys(ss) == FlattenSeq([i \in DOMAIN ss |-> SubkeyPackets(ss[i])])

\* The list for a key with these parts, and the object that is read from it.
Listed(kp, rev, dir, us, ss) == <<kp>> \o rev \o dir \o FlatUsers(us) \o FlatSubkeys(ss)
Made(kp, rev, dir, us, ss) ==
  [keyPacket |-> kp, revocationSignatures |-> rev, directSignatures |-> dir,
   users |-> us, subkeys |-> ss, user |-> us # <<>> /\ ss = <<>>, subkey |-> ss # <<>>,
   ignoreUntil |-> {}, threw |-> FALSE]

LEMMA SeqFacts ==
  ASSUME NEW S, NEW a \in Seq(S)
  PROVE  /\ a \o <<>> = a /\ <<>> \o a = a
         /\ \A b \in Seq(S) : a \o b \in Seq(S)
         /\ \A b \in Seq(S), e \in S : a \o Append(b, e) = Append(a \o b, e)
         /\ \A b \in Seq(S), c \in Seq(S) : (a \o b) \o c = a \o (b \o c)
         /\ \A e \in S : a \o <<e>> = Append(a, e) /\ <<e>> \in Seq(S)
<1>1. a \o <<>> = a /\ <<>> \o a = a
  OBVIOUS
<1>2. ASSUME NEW b \in Seq(S), NEW e \in S PROVE a \o Append(b, e) = Append(a \o b, e)
  OBVIOUS
<1>3. ASSUME NEW b \in Seq(S), NEW c \in Seq(S) PROVE (a \o b) \o c = a \o (b \o c)
  OBVIOUS
<1>4. ASSUME NEW e \in S PROVE a \o <<e>> = Append(a, e) /\ <<e>> \in Seq(S)
  OBVIOUS
<1> QED BY <1>1, <1>2, <1>3, <1>4, SMTT(60)

\* What is written of a component.
LEMMA ComponentLists ==
  ASSUME NEW R
  PROVE  /\ \A u : /\ u.packet \in R /\ u.selfCertifications \in Seq(R)
                   /\ u.otherCertifications \in Seq(R) /\ u.revocationSignatures \in Seq(R)
                   => UserPackets(u) \in Seq(R)
         /\ \A s : /\ s.packet \in R /\ s.bindingSignatures \in Seq(R) /\ s.revocationSignatures \in Seq(R)
                   => SubkeyPackets(s) \in Seq(R)
<1>1. ASSUME NEW u, u.packet \in R, u.selfCertifications \in Seq(R), u.otherCertifications \in Seq(R),
             u.revocationSignatures \in Seq(R)
      PROVE  UserPackets(u) \in Seq(R)
  <2>1. PICK p \in R, a \in Seq(R), b \in Seq(R), c \in Seq(R) :
          p = u.packet /\ a = u.revocationSignatures /\ b = u.selfCertifications /\ c = u.otherCertifications
    BY <1>1
  <2>2. <<p>> \in Seq(R) /\ <<p>> \o a \in Seq(R)
    BY SeqFacts
  <2>3. (<<p>> \o a) \o b \in Seq(R)
    BY <2>2, SeqFacts
  <2>4. ((<<p>> \o a) \o b) \o c \in Seq(R)
    BY <2>3, SeqFacts
  <2> QED BY <2>1, <2>4 DEF UserPackets
<1>2. ASSUME NEW s, s.packet \in R, s.bindingSignatures \in Seq(R), s.revocationSignatures \in Seq(R)
      PROVE  SubkeyPackets(s) \in Seq(R)
  <2>1. PICK p \in R, a \in Seq(R), b \in Seq(R) :
          p = s.packet /\ a = s.revocationSignatures /\ b = s.bindingSignatures
    BY <1>2
  <2>2. <<p>> \in Seq(R) /\ <<p>> \o a \in Seq(R)
    BY SeqFacts
  <2>3. (<<p>> \o a) \o b \in Seq(R)
    BY <2>2, SeqFacts
  <2> QED BY <2>1, <2>3 DEF SubkeyPackets
<1> QED BY <1>1, <1>2

\* The lists of the users and of the subkeys, one component after the other.
LEMMA FlatUsersAppend ==
  ASSUME NEW R, NEW U, \A u \in U : UserPackets(u) \in Seq(R)
  PROVE  /\ FlatUsers(<<>>) = <<>>
         /\ \A us \in Seq(U) : FlatUsers(us) \in Seq(R)
         /\ \A us \in Seq(U), u \in U : FlatUsers(Append(us, u)) = FlatUsers(us) \o UserPackets(u)
<1> DEFINE Lists(us) == [i \in DOMAIN us |-> UserPackets(us[i])]
<1>1. Lists(<<>>) = <<>>
  OBVIOUS
<1>2. ASSUME NEW us \in Seq(U) PROVE Lists(us) \in Seq(Seq(R)) /\ Len(Lists(us)) = Len(us)
  <2>1. PICK n \in Nat : n = Len(us) /\ DOMAIN us = 1 .. n
    OBVIOUS
  <2>2. \A i \in 1 .. n : us[i] \in U
    BY <2>1
  <2>3. PICK f : f = Lists(us)
    OBVIOUS
  <2>4. f \in [1 .. n -> Seq(R)]
    BY <2>1, <2>2, <2>3
  <2>5. f \in Seq(Seq(R)) /\ Len(f) = n
    BY <2>4
  <2> QED BY <2>1, <2>3, <2>5
<1>3. ASSUME NEW us \in Seq(U), NEW u \in U PROVE Lists(Append(us, u)) = Append(Lists(us), UserPackets(u))
  <2>1. PICK n \in Nat : n = Len(us) /\ DOMAIN us = 1 .. n
    OBVIOUS
  <2>2. PICK us2 \in Seq(U) : us2 = Append(us, u)
    BY ToSetAppend
  <2>3. DOMAIN us2 = 1 .. (n + 1) /\ us2[n + 1] = u /\ \A i \in 1 .. n : us2[i] = us[i]
    BY <2>1, <2>2
  <2>4. PICK f \in Seq(Seq(R)), f2 \in Seq(Seq(R)), l \in Seq(R) :
          f = Lists(us) /\ f2 = Lists(us2) /\ l = UserPackets(u)
    BY <1>2
  <2>5. /\ Len(f) = n /\ \A i \in 1 .. n : f[i] = UserPackets(us[i])
        /\ Len(f2) = n + 1 /\ \A i \in 1 .. (n + 1) : f2[i] = UserPackets(us2[i])
    <3>1. Len(us2) = n + 1
      BY <2>1, <2>2
    <3> QED BY <1>2, <2>1, <2>3, <2>4, <3>1
  <2>6. /\ Append(f, l) \in Seq(Seq(R)) /\ Len(Append(f, l)) = n + 1 /\ Append(f, l)[n + 1] = l
        /\ \A i \in 1 .. n : Append(f, l)[i] = f[i]
    BY <2>4, <2>5, AppendProperties
  <2>7. \A i \in 1 .. (n + 1) : i \in 1 .. n \/ i = n + 1
    OBVIOUS
  <2>8. \A i \in 1 .. (n + 1) : f2[i] = Append(f, l)[i]
    BY <2>3, <2>4, <2>5, <2>6, <2>7, SMTT(30)
  <2>9. f2 = Append(f, l)
    BY <2>5, <2>6, <2>8, SeqEqual
  <2> QED BY <2>2, <2>4, <2>9
<1>4. \A us : FlatUsers(us) = FlattenSeq(Lists(us))
  BY DEF FlatUsers
<1> HIDE DEF Lists
<1>5. FlatUsers(<<>>) = <<>>
  BY <1>1, <1>4, FlattenAppend
<1>6. ASSUME NEW us \in Seq(U) PROVE FlatUsers(us) \in Seq(R)
  BY <1>2, <1>4, FlattenAppend
<1>7. ASSUME NEW us \in Seq(U), NEW u \in U PROVE FlatUsers(Append(us, u)) = FlatUsers(us) \o UserPackets(u)
  <2>1. FlattenSeq(Append(Lists(us), UserPackets(u))) = FlattenSeq(Lists(us)) \o UserPackets(u)
    BY <1>2, FlattenAppend
  <2> QED BY <1>3, <1>4, <2>1
<1> QED BY <1>5, <1>6, <1>7

LEMMA FlatSubkeysAppend ==
  ASSUME NEW R, NEW U, \A u \in U : SubkeyPackets(u) \in Seq(R)
  PROVE  /\ FlatSubkeys(<<>>) = <<>>
         /\ \A us \in Seq(U) : FlatSubkeys(us) \in Seq(R)
         /\ \A us \in Seq(U), u \in U : FlatSubkeys(Append(us, u)) = FlatSubkeys(us) \o SubkeyPackets(u)
<1> DEFINE Lists(us) == [i \in DOMAIN us |-> SubkeyPackets(us[i])]
<1>1. Lists(<<>>) = <<>>
  OBVIOUS
<1>2. ASSUME NEW us \in Seq(U) PROVE Lists(us) \in Seq(Seq(R)) /\ Len(Lists(us)) = Len(us)
  <2>1. PICK n \in Nat : n = Len(us) /\ DOMAIN us = 1 .. n
    OBVIOUS
  <2>2. \A i \in 1 .. n : us[i] \in U
    BY <2>1
  <2>3. PICK f : f = Lists(us)
    OBVIOUS
  <2>4. f \in [1 .. n -> Seq(R)]
    BY <2>1, <2>2, <2>3
  <2>5. f \in Seq(Seq(R)) /\ Len(f) = n
    BY <2>4
  <2> QED BY <2>1, <2>3, <2>5
<1>3. ASSUME NEW us \in Seq(U), NEW u \in U PROVE Lists(Append(us, u)) = Append(Lists(us), SubkeyPackets(u))
  <2>1. PICK n \in Nat : n = Len(us) /\ DOMAIN us = 1 .. n
    OBVIOUS
  <2>2. PICK us2 \in Seq(U) : us2 = Append(us, u)
    BY ToSetAppend
  <2>3. DOMAIN us2 = 1 .. (n + 1) /\ us2[n + 1] = u /\ \A i \in 1 .. n : us2[i] = us[i]
    BY <2>1, <2>2
  <2>4. PICK f \in Seq(Seq(R)), f2 \in Seq(Seq(R)), l \in Seq(R) :
          f = Lists(us) /\ f2 = Lists(us2) /\ l = SubkeyPackets(u)
    BY <1>2
  <2>5. /\ Len(f) = n /\ \A i \in 1 .. n : f[i] = SubkeyPackets(us[i])
        /\ Len(f2) = n + 1 /\ \A i \in 1 .. (n + 1) : f2[i] = SubkeyPackets(us2[i])
    <3>1. Len(us2) = n + 1
      BY <2>1, <2>2
    <3> QED BY <1>2, <2>1, <2>3, <2>4, <3>1
  <2>6. /\ Append(f, l) \in Seq(Seq(R)) /\ Len(Append(f, l)) = n + 1 /\ Append(f, l)[n + 1] = l
        /\ \A i \in 1 .. n : Append(f, l)[i] = f[i]
    BY <2>4, <2>5, AppendProperties
  <2>7. \A i \in 1 .. (n + 1) : i \in 1 .. n \/ i = n + 1
    OBVIOUS
  <2>8. \A i \in 1 .. (n + 1) : f2[i] = Append(f, l)[i]
    BY <2>3, <2>4, <2>5, <2>6, <2>7
  <2>9. f2 = Append(f, l)
    BY <2>5, <2>6, <2>8, SeqEqual
  <2> QED BY <2>2, <2>4, <2>9
<1>4. \A us : FlatSubkeys(us) = FlattenSeq(Lists(us))
  BY DEF FlatSubkeys
<1> HIDE DEF Lists
<1>5. FlatSubkeys(<<>>) = <<>>
  BY <1>1, <1>4, FlattenAppend
<1>6. ASSUME NEW us \in Seq(U) PROVE FlatSubkeys(us) \in Seq(R)
  BY <1>2, <1>4, FlattenAppend
<1>7. ASSUME NEW us \in Seq(U), NEW u \in U PROVE FlatSubkeys(Append(us, u)) = FlatSubkeys(us) \o SubkeyPackets(u)
  <2>1. FlattenSeq(Append(Lists(us), SubkeyPackets(u))) = FlattenSeq(Lists(us)) \o SubkeyPackets(u)
    BY <1>2, FlattenAppend
  <2> QED BY <1>3, <1>4, <2>1
<1> QED BY <1>5, <1>6, <1>7

\* The parts of a key object.
Revs         == SigsOf({"keyRevocation"})
Directs      == SigsOf({"key", "certRevocation"})
CertRevs     == SigsOf({"certRevocation"})
SelfCerts    == {p \in SigsOf(CertTypes) : p.self}
OtherCerts   == {p \in SigsOf(CertTypes) : ~p.self}
Bindings     == SigsOf({"subkeyBinding"})
SubkeyRevs   == SigsOf({"subkeyRevocation"})
Named        == {p \in Packet : p.ok /\ p.tag \in UserTags}
Subordinates(k) == {p \in Packet : p.ok /\ p.tag \in SubkeyTags \ disallowedPackets(k)}
User(p, r, s, o) == [packet |-> p, selfCertifications |-> s, otherCertifications |-> o, revocationSignatures |-> r]
Subkey(p, r, b)  == [packet |-> p, bindingSignatures |-> b, revocationSignatures |-> r]

LEMMA PartTypes ==
  /\ Revs \subseteq Packet /\ Directs \subseteq Packet /\ CertRevs \subseteq Packet /\ SelfCerts \subseteq Packet
  /\ OtherCerts \subseteq Packet /\ Bindings \subseteq Packet /\ SubkeyRevs \subseteq Packet /\ Named \subseteq Packet
  /\ UserContents = [packet : Named, selfCertifications : Seq(SelfCerts), otherCertifications : Seq(OtherCerts),
                     revocationSignatures : Seq(CertRevs)]
  /\ \A k : /\ Subordinates(k) \subseteq Packet
            /\ SubkeyContents(k) = [packet : Subordinates(k), bindingSignatures : Seq(Bindings),
                                    revocationSignatures : Seq(SubkeyRevs)]
BY DEF Revs, Directs, CertRevs, SelfCerts, OtherCerts, Bindings, SubkeyRevs, Named, Subordinates, SigsOf,
       UserContents, SubkeyContents

LEMMA SeqSubset ==
  ASSUME NEW A, NEW B, A \subseteq B, NEW s \in Seq(A)
  PROVE  s \in Seq(B)
OBVIOUS

LEMMA WrittenComponents ==
  ASSUME NEW k
  PROVE  /\ \A u \in UserContents : UserPackets(u) \in Seq(Packet)
         /\ \A s \in SubkeyContents(k) : SubkeyPackets(s) \in Seq(Packet)
<1>1. \A u \in UserContents : /\ u.packet \in Packet /\ u.selfCertifications \in Seq(Packet)
                              /\ u.otherCertifications \in Seq(Packet) /\ u.revocationSignatures \in Seq(Packet)
  <2> SUFFICES ASSUME NEW u \in UserContents
               PROVE  /\ u.packet \in Packet /\ u.selfCertifications \in Seq(Packet)
                      /\ u.otherCertifications \in Seq(Packet) /\ u.revocationSignatures \in Seq(Packet)
    OBVIOUS
  <2>1. /\ u.packet \in Named /\ u.selfCertifications \in Seq(SelfCerts)
        /\ u.otherCertifications \in Seq(OtherCerts) /\ u.revocationSignatures \in Seq(CertRevs)
    BY PartTypes
  <2> QED BY <2>1, PartTypes, SeqSubset
<1>2. \A s \in SubkeyContents(k) : /\ s.packet \in Packet /\ s.bindingSignatures \in Seq(Packet)
                                   /\ s.revocationSignatures \in Seq(Packet)
  <2> SUFFICES ASSUME NEW s \in SubkeyContents(k)
               PROVE  /\ s.packet \in Packet /\ s.bindingSignatures \in Seq(Packet)
                      /\ s.revocationSignatures \in Seq(Packet)
    OBVIOUS
  <2>1. /\ s.packet \in Subordinates(k) /\ s.bindingSignatures \in Seq(Bindings)
        /\ s.revocationSignatures \in Seq(SubkeyRevs)
    BY PartTypes
  <2>2. Subordinates(k) \subseteq Packet
    BY PartTypes
  <2> QED BY <2>1, <2>2, PartTypes, SeqSubset
<1> QED BY <1>1, <1>2, ComponentLists

\* The head of a list: what is written before the users.
Lead(kp, rev, dir) == <<kp>> \o rev \o dir

LEMMA HeadFacts ==
  ASSUME NEW kp \in Packet, NEW rev \in Seq(Packet)
  PROVE  /\ Lead(kp, rev, <<>>) = <<kp>> \o rev
         /\ Lead(kp, <<>>, <<>>) = <<kp>>
         /\ \A dir \in Seq(Packet) : Lead(kp, rev, dir) \in Seq(Packet)
         /\ \A p \in Packet : Lead(kp, Append(rev, p), <<>>) = Append(Lead(kp, rev, <<>>), p)
         /\ \A dir \in Seq(Packet), p \in Packet : Lead(kp, rev, Append(dir, p)) = Append(Lead(kp, rev, dir), p)
<1>1. <<kp>> \in Seq(Packet) /\ <<kp>> \o <<>> = <<kp>>
  BY SeqFacts
<1>2. PICK b \in Seq(Packet) : b = <<kp>> \o rev
  BY <1>1, SeqFacts
<1>3. b \o <<>> = b
  BY SeqFacts
<1>4. Lead(kp, rev, <<>>) = <<kp>> \o rev
  BY <1>2, <1>3 DEF Lead
<1>5. Lead(kp, <<>>, <<>>) = <<kp>>
  BY <1>1 DEF Lead
<1>6. ASSUME NEW dir \in Seq(Packet)
      PROVE  /\ Lead(kp, rev, dir) \in Seq(Packet)
             /\ \A p \in Packet : Lead(kp, rev, Append(dir, p)) = Append(Lead(kp, rev, dir), p)
  <2>1. b \o dir \in Seq(Packet) /\ \A p \in Packet : b \o Append(dir, p) = Append(b \o dir, p)
    BY SeqFacts
  <2> QED BY <1>2, <2>1 DEF Lead
<1>7. ASSUME NEW p \in Packet PROVE Lead(kp, Append(rev, p), <<>>) = Append(Lead(kp, rev, <<>>), p)
  <2>1. PICK r \in Seq(Packet) : r = Append(rev, p)
    BY ToSetAppend
  <2>2. <<kp>> \o Append(rev, p) = Append(<<kp>> \o rev, p)
    BY <1>1, SeqFacts
  <2>3. <<kp>> \o r \in Seq(Packet)
    BY <1>1, SeqFacts
  <2>4. (<<kp>> \o r) \o <<>> = <<kp>> \o r
    BY <2>3, SeqFacts
  <2> QED BY <1>4, <2>1, <2>2, <2>4 DEF Lead
<1> QED BY <1>4, <1>5, <1>6, <1>7

\* What is written grows at its end when a component does.
LEMMA ListedFacts ==
  ASSUME NEW k, NEW kp \in Packet, NEW rev \in Seq(Packet), NEW dir \in Seq(Packet)
  PROVE  /\ Listed(kp, rev, dir, <<>>, <<>>) = Lead(kp, rev, dir)
         /\ \A us \in Seq(UserContents), ss \in Seq(SubkeyContents(k)) : Listed(kp, rev, dir, us, ss) \in Seq(Packet)
         /\ \A us \in Seq(UserContents), u \in UserContents :
              Listed(kp, rev, dir, Append(us, u), <<>>) = Listed(kp, rev, dir, us, <<>>) \o UserPackets(u)
         /\ \A us \in Seq(UserContents), ss \in Seq(SubkeyContents(k)), s \in SubkeyContents(k) :
              Listed(kp, rev, dir, us, Append(ss, s)) = Listed(kp, rev, dir, us, ss) \o SubkeyPackets(s)
<1>1. PICK h \in Seq(Packet) : h = Lead(kp, rev, dir)
  BY HeadFacts
<1>2. \A us, ss : Listed(kp, rev, dir, us, ss) = (h \o FlatUsers(us)) \o FlatSubkeys(ss)
  BY <1>1 DEF Listed, Lead
<1>3. /\ FlatUsers(<<>>) = <<>> /\ \A us \in Seq(UserContents) : FlatUsers(us) \in Seq(Packet)
      /\ \A us \in Seq(UserContents), u \in UserContents : FlatUsers(Append(us, u)) = FlatUsers(us) \o UserPackets(u)
  BY WrittenComponents, FlatUsersAppend
<1>4. /\ FlatSubkeys(<<>>) = <<>> /\ \A ss \in Seq(SubkeyContents(k)) : FlatSubkeys(ss) \in Seq(Packet)
      /\ \A ss \in Seq(SubkeyContents(k)), s \in SubkeyContents(k) :
           FlatSubkeys(Append(ss, s)) = FlatSubkeys(ss) \o SubkeyPackets(s)
  BY WrittenComponents, FlatSubkeysAppend
<1>5. \A a \in Seq(Packet) : a \o <<>> = a
  BY SeqFacts
<1>a. \A a \in Seq(Packet), b \in Seq(Packet), c \in Seq(Packet) : (a \o b) \o c = a \o (b \o c)
  BY SMTT(30)
<1>6. Listed(kp, rev, dir, <<>>, <<>>) = h
  <2>1. Listed(kp, rev, dir, <<>>, <<>>) = (h \o FlatUsers(<<>>)) \o FlatSubkeys(<<>>)
    BY <1>2
  <2>2. h \o <<>> = h
    BY <1>5
  <2>3. (h \o FlatUsers(<<>>)) \o FlatSubkeys(<<>>) = (h \o <<>>) \o <<>>
    BY <1>3, <1>4
  <2> QED BY <2>1, <2>2, <2>3, Zenon
<1>7. ASSUME NEW us \in Seq(UserContents) PROVE Listed(kp, rev, dir, us, <<>>) = h \o FlatUsers(us) /\ h \o FlatUsers(us) \in Seq(Packet)
  <2>1. PICK a \in Seq(Packet) : a = h \o FlatUsers(us)
    BY <1>3, SeqFacts
  <2>2. a \o <<>> = a
    BY <1>5
  <2>3. Listed(kp, rev, dir, us, <<>>) = a \o FlatSubkeys(<<>>)
    BY <1>2, <2>1
  <2> QED BY <1>4, <2>1, <2>2, <2>3, Zenon
<1>8. ASSUME NEW us \in Seq(UserContents), NEW u \in UserContents
      PROVE  Listed(kp, rev, dir, Append(us, u), <<>>) = Listed(kp, rev, dir, us, <<>>) \o UserPackets(u)
  <2>1. Append(us, u) \in Seq(UserContents)
    BY ToSetAppend
  <2>2. PICK a \in Seq(Packet), b \in Seq(Packet) : a = FlatUsers(us) /\ b = UserPackets(u)
    BY <1>3, WrittenComponents
  <2>3. (h \o a) \o b = h \o (a \o b)
    BY SeqFacts, SMTT(30)
  <2> QED BY <1>3, <1>7, <2>1, <2>2, <2>3
<1>9. ASSUME NEW us \in Seq(UserContents), NEW ss \in Seq(SubkeyContents(k))
      PROVE  Listed(kp, rev, dir, us, ss) \in Seq(Packet)
  <2>1. PICK a \in Seq(Packet), b \in Seq(Packet) : a = h \o FlatUsers(us) /\ b = FlatSubkeys(ss)
    BY <1>4, <1>7
  <2>2. a \o b \in Seq(Packet)
    BY SeqFacts
  <2> QED BY <1>2, <2>1, <2>2
<1>10. ASSUME NEW us \in Seq(UserContents), NEW ss \in Seq(SubkeyContents(k)), NEW s \in SubkeyContents(k)
       PROVE  Listed(kp, rev, dir, us, Append(ss, s)) = Listed(kp, rev, dir, us, ss) \o SubkeyPackets(s)
  <2>1. PICK a \in Seq(Packet), b \in Seq(Packet), c \in Seq(Packet) :
          a = h \o FlatUsers(us) /\ b = FlatSubkeys(ss) /\ c = SubkeyPackets(s)
    BY <1>4, <1>7, WrittenComponents
  <2>2. (a \o b) \o c = a \o (b \o c)
    BY <1>a, ZenonT(80)
  <2>3. FlatSubkeys(Append(ss, s)) = b \o c
    BY <1>4, <2>1
  <2> QED BY <1>2, <2>1, <2>2, <2>3
<1> QED BY <1>1, <1>6, <1>8, <1>9, <1>10

\* One signature more at the end of what is written of a component.
LEMMA WrittenGrows ==
  ASSUME NEW p \in Packet, NEW r \in Seq(Packet), NEW q \in Packet
  PROVE  /\ UserPackets(User(p, <<>>, <<>>, <<>>)) = <<p>> /\ SubkeyPackets(Subkey(p, <<>>, <<>>)) = <<p>>
         /\ UserPackets(User(p, Append(r, q), <<>>, <<>>)) = Append(UserPackets(User(p, r, <<>>, <<>>)), q)
         /\ SubkeyPackets(Subkey(p, Append(r, q), <<>>)) = Append(SubkeyPackets(Subkey(p, r, <<>>)), q)
         /\ \A s \in Seq(Packet) :
              /\ UserPackets(User(p, r, Append(s, q), <<>>)) = Append(UserPackets(User(p, r, s, <<>>)), q)
              /\ SubkeyPackets(Subkey(p, r, Append(s, q))) = Append(SubkeyPackets(Subkey(p, r, s)), q)
         /\ \A s \in Seq(Packet), o \in Seq(Packet) :
              UserPackets(User(p, r, s, Append(o, q))) = Append(UserPackets(User(p, r, s, o)), q)
<1>1. /\ \A a, s, o : UserPackets(User(p, a, s, o)) = Lead(p, a, s) \o o
      /\ \A a, b : SubkeyPackets(Subkey(p, a, b)) = Lead(p, a, b)
  BY DEF UserPackets, SubkeyPackets, User, Subkey, Lead
<1>2. \A a \in Seq(Packet) : a \o <<>> = a
  BY SeqFacts
<1>3. <<p>> \in Seq(Packet) /\ <<>> \in Seq(Packet) /\ Append(r, q) \in Seq(Packet)
      /\ \A s \in Seq(Packet) : Append(s, q) \in Seq(Packet)
  BY SeqFacts, ToSetAppend
<1>4. \A a \in Seq(Packet), b \in Seq(Packet) : Lead(p, a, b) \in Seq(Packet)
  BY HeadFacts
<1>5. ASSUME NEW a \in Seq(Packet), NEW b \in Seq(Packet) PROVE UserPackets(User(p, a, b, <<>>)) = Lead(p, a, b)
  <2>1. UserPackets(User(p, a, b, <<>>)) = Lead(p, a, b) \o <<>>
    BY <1>1
  <2>2. Lead(p, a, b) \o <<>> = Lead(p, a, b)
    BY <1>2, <1>4
  <2> QED BY <2>1, <2>2
<1>6. UserPackets(User(p, <<>>, <<>>, <<>>)) = <<p>> /\ SubkeyPackets(Subkey(p, <<>>, <<>>)) = <<p>>
  BY <1>1, <1>3, <1>5, HeadFacts, ZenonT(80)
<1>7. Lead(p, Append(r, q), <<>>) = Append(Lead(p, r, <<>>), q)
  BY HeadFacts
<1>8. ASSUME NEW s \in Seq(Packet) PROVE Lead(p, r, Append(s, q)) = Append(Lead(p, r, s), q)
  BY HeadFacts, ZenonT(40)
<1>9. ASSUME NEW s \in Seq(Packet), NEW o \in Seq(Packet)
      PROVE  UserPackets(User(p, r, s, Append(o, q))) = Append(UserPackets(User(p, r, s, o)), q)
  <2>1. PICK h \in Seq(Packet) : h = Lead(p, r, s)
    BY <1>4
  <2>2. h \o Append(o, q) = Append(h \o o, q)
    BY SeqFacts, SMTT(30)
  <2> QED BY <1>1, <2>1, <2>2, ZenonT(40)
<1>10. /\ UserPackets(User(p, Append(r, q), <<>>, <<>>)) = Append(UserPackets(User(p, r, <<>>, <<>>)), q)
       /\ SubkeyPackets(Subkey(p, Append(r, q), <<>>)) = Append(SubkeyPackets(Subkey(p, r, <<>>)), q)
  BY <1>1, <1>3, <1>5, <1>7
<1>11. ASSUME NEW s \in Seq(Packet)
       PROVE  /\ UserPackets(User(p, r, Append(s, q), <<>>)) = Append(UserPackets(User(p, r, s, <<>>)), q)
              /\ SubkeyPackets(Subkey(p, r, Append(s, q))) = Append(SubkeyPackets(Subkey(p, r, s)), q)
  BY <1>1, <1>3, <1>5, <1>8, ZenonT(80)
<1> QED BY <1>6, <1>9, <1>10, <1>11

-----------------------------------------------------------------------------
(* One packet more of what is read *)

WithLast(s, e) == [s EXCEPT ![Len(s)] = e]

LEMMA ReplaceLast ==
  ASSUME NEW S, NEW s \in Seq(S), NEW e \in S
  PROVE  /\ Append(s, e) # <<>> /\ Append(s, e)[Len(Append(s, e))] = e
         /\ \A e2 \in S : WithLast(Append(s, e), e2) = Append(s, e2)
<1> SUFFICES ASSUME NEW e2 \in S
             PROVE  /\ Append(s, e) # <<>> /\ Append(s, e)[Len(Append(s, e))] = e
                    /\ WithLast(Append(s, e), e2) = Append(s, e2)
  OBVIOUS
<1>1. PICK n \in Nat : n = Len(s)
  OBVIOUS
<1>2. PICK a \in Seq(S), b \in Seq(S) : a = Append(s, e) /\ b = Append(s, e2)
  BY ToSetAppend
<1>3. /\ Len(a) = n + 1 /\ a[n + 1] = e /\ \A i \in 1 .. n : a[i] = s[i]
      /\ Len(b) = n + 1 /\ b[n + 1] = e2 /\ \A i \in 1 .. n : b[i] = s[i]
      /\ DOMAIN a = 1 .. (n + 1)
  BY <1>1, <1>2
<1>4. PICK c \in Seq(S) : c = [a EXCEPT ![n + 1] = e2]
  BY SeqExcept
<1>5. Len(c) = n + 1 /\ \A i \in 1 .. (n + 1) : c[i] = IF i = n + 1 THEN e2 ELSE a[i]
  BY <1>3, <1>4, SeqExcept
<1>6. \A i \in 1 .. (n + 1) : i \in 1 .. n \/ i = n + 1
  OBVIOUS
<1>7. \A i \in 1 .. (n + 1) : c[i] = b[i]
  BY <1>3, <1>5, <1>6
<1>8. c = b
  BY <1>3, <1>5, <1>7, SeqEqual
<1>9. a # <<>>
  BY <1>3
<1> QED BY <1>2, <1>3, <1>4, <1>8, <1>9 DEF WithLast

\* Objects that are read from such lists, and what each update makes of them.
Objects(k) == [keyPacket : Packet, revocationSignatures : Seq(Revs), directSignatures : Seq(Directs),
               users : Seq(UserContents), subkeys : Seq(SubkeyContents(k)), user : BOOLEAN, subkey : BOOLEAN,
               ignoreUntil : {{}}, threw : BOOLEAN]
Has(o, kp, rev, dir, us, ss, user, subkey) ==
  /\ o.keyPacket = kp /\ o.revocationSignatures = rev /\ o.directSignatures = dir
  /\ o.users = us /\ o.subkeys = ss /\ (o.user <=> user) /\ (o.subkey <=> subkey) /\ ~o.threw

LEMMA SameObject ==
  ASSUME NEW k, NEW a \in Objects(k), NEW b \in Objects(k), NEW kp, NEW rev, NEW dir, NEW us, NEW ss,
         NEW user, NEW subkey,
         Has(a, kp, rev, dir, us, ss, user, subkey), Has(b, kp, rev, dir, us, ss, user, subkey)
  PROVE  a = b
<1> DEFINE P == Packet
           R == Seq(Revs)
           D == Seq(Directs)
           U == Seq(UserContents)
           S == Seq(SubkeyContents(k))
           O == [keyPacket : P, revocationSignatures : R, directSignatures : D, users : U, subkeys : S,
                 user : BOOLEAN, subkey : BOOLEAN, ignoreUntil : {{}}, threw : BOOLEAN]
<1>1. a \in O /\ b \in O
  BY DEF Objects
<1> HIDE DEF P, R, D, U, S
<1>2. /\ a.keyPacket = b.keyPacket /\ a.revocationSignatures = b.revocationSignatures
      /\ a.directSignatures = b.directSignatures /\ a.users = b.users /\ a.subkeys = b.subkeys
  BY DEF Has
<1>3. (a.user <=> b.user) /\ (a.subkey <=> b.subkey) /\ (a.threw <=> b.threw)
  BY Zenon DEF Has
<1>4. /\ a.user \in BOOLEAN /\ b.user \in BOOLEAN /\ a.subkey \in BOOLEAN /\ b.subkey \in BOOLEAN
      /\ a.threw \in BOOLEAN /\ b.threw \in BOOLEAN
  BY <1>1
<1>5. a.user = b.user
  BY <1>3, <1>4
<1>6. a.subkey = b.subkey
  BY <1>3, <1>4
<1>7. a.threw = b.threw
  BY <1>3, <1>4
<1>8. a.ignoreUntil = b.ignoreUntil
  BY <1>1
<1> QED BY <1>1, <1>2, <1>5, <1>6, <1>7, <1>8

LEMMA MadeFacts ==
  ASSUME NEW k, NEW kp \in Packet, NEW rev \in Seq(Revs), NEW dir \in Seq(Directs), NEW us \in Seq(UserContents),
         NEW ss \in Seq(SubkeyContents(k)), NEW o, o = Made(kp, rev, dir, us, ss)
  PROVE  /\ o \in Objects(k) /\ Has(o, kp, rev, dir, us, ss, us # <<>> /\ ss = <<>>, ss # <<>>) /\ o.ignoreUntil = {}
<1> DEFINE P == Packet
           R == Seq(Revs)
           D == Seq(Directs)
           U == Seq(UserContents)
           S == Seq(SubkeyContents(k))
           O == [keyPacket : P, revocationSignatures : R, directSignatures : D, users : U, subkeys : S,
                 user : BOOLEAN, subkey : BOOLEAN, ignoreUntil : {{}}, threw : BOOLEAN]
<1>1. kp \in P /\ rev \in R /\ dir \in D /\ us \in U /\ ss \in S
  OBVIOUS
<1>2. O = Objects(k)
  BY DEF Objects
<1> HIDE DEF P, R, D, U, S
<1>3. o \in O
  BY <1>1 DEF Made
<1>4. Has(o, kp, rev, dir, us, ss, us # <<>> /\ ss = <<>>, ss # <<>>) /\ o.ignoreUntil = {}
  BY DEF Made, Has
<1> QED BY <1>2, <1>3, <1>4

LEMMA Rebuilt ==
  ASSUME NEW k, NEW o \in Objects(k), ~o.threw,
         o.user <=> o.users # <<>> /\ o.subkeys = <<>>, o.subkey <=> o.subkeys # <<>>
  PROVE  o = Made(o.keyPacket, o.revocationSignatures, o.directSignatures, o.users, o.subkeys)
<1>0. PICK kp \in Packet, rev \in Seq(Revs), dir \in Seq(Directs), us \in Seq(UserContents), ss \in Seq(SubkeyContents(k)) :
        /\ o.keyPacket = kp /\ o.revocationSignatures = rev /\ o.directSignatures = dir /\ o.users = us /\ o.subkeys = ss
  BY DEF Objects
<1>1. PICK o2 : o2 = Made(kp, rev, dir, us, ss)
  OBVIOUS
<1>2. o2 \in Objects(k) /\ Has(o2, kp, rev, dir, us, ss, us # <<>> /\ ss = <<>>, ss # <<>>)
  BY <1>1, MadeFacts
<1>3. Has(o2, kp, rev, dir, us, ss, o.user, o.subkey)
  BY <1>0, <1>2 DEF Has
<1>4. Has(o, kp, rev, dir, us, ss, o.user, o.subkey)
  BY <1>0 DEF Has
<1>5. o = o2
  BY <1>2, <1>3, <1>4, SameObject
<1> QED BY <1>0, <1>1, <1>5

LEMMA Updates ==
  ASSUME NEW k, NEW o \in Objects(k), ~o.threw
  PROVE  /\ LET o2 == [o EXCEPT !.ignoreUntil = {}]
            IN  o2 \in Objects(k)
                /\ Has(o2, o.keyPacket, o.revocationSignatures, o.directSignatures, o.users, o.subkeys, o.user, o.subkey)
         /\ \A x \in Packet :
              LET o2 == [o EXCEPT !.keyPacket = x]
              IN  o2 \in Objects(k)
                  /\ Has(o2, x, o.revocationSignatures, o.directSignatures, o.users, o.subkeys, o.user, o.subkey)
         /\ \A x \in Seq(Revs) :
              LET o2 == [o EXCEPT !.revocationSignatures = x]
              IN  o2 \in Objects(k)
                  /\ Has(o2, o.keyPacket, x, o.directSignatures, o.users, o.subkeys, o.user, o.subkey)
         /\ \A x \in Seq(Directs) :
              LET o2 == [o EXCEPT !.directSignatures = x]
              IN  o2 \in Objects(k)
                  /\ Has(o2, o.keyPacket, o.revocationSignatures, x, o.users, o.subkeys, o.user, o.subkey)
         /\ \A x \in Seq(UserContents) :
              LET o2 == [o EXCEPT !.users = x]
              IN  o2 \in Objects(k)
                  /\ Has(o2, o.keyPacket, o.revocationSignatures, o.directSignatures, x, o.subkeys, o.user, o.subkey)
         /\ \A x \in Seq(SubkeyContents(k)) :
              LET o2 == [o EXCEPT !.subkeys = x]
              IN  o2 \in Objects(k)
                  /\ Has(o2, o.keyPacket, o.revocationSignatures, o.directSignatures, o.users, x, o.user, o.subkey)
         /\ \A x \in Seq(UserContents) :
              LET o2 == [o EXCEPT !.user = TRUE, !.users = x]
              IN  o2 \in Objects(k)
                  /\ Has(o2, o.keyPacket, o.revocationSignatures, o.directSignatures, x, o.subkeys, TRUE, o.subkey)
         /\ \A x \in Seq(SubkeyContents(k)) :
              LET o2 == [o EXCEPT !.user = FALSE, !.subkey = TRUE, !.subkeys = x]
              IN  o2 \in Objects(k)
                  /\ Has(o2, o.keyPacket, o.revocationSignatures, o.directSignatures, o.users, x, FALSE, TRUE)
<1> DEFINE P == Packet
           R == Seq(Revs)
           D == Seq(Directs)
           U == Seq(UserContents)
           S == Seq(SubkeyContents(k))
           O == [keyPacket : P, revocationSignatures : R, directSignatures : D, users : U, subkeys : S,
                 user : BOOLEAN, subkey : BOOLEAN, ignoreUntil : {{}}, threw : BOOLEAN]
<1>1. O = Objects(k)
  BY DEF Objects
<1> HIDE DEF P, R, D, U, S
<1>2. o \in O
  BY <1>1
<1>3. ASSUME NEW o2, o2 = [o EXCEPT !.ignoreUntil = {}]
      PROVE  o2 \in O /\ Has(o2, o.keyPacket, o.revocationSignatures, o.directSignatures, o.users, o.subkeys, o.user, o.subkey)
  BY <1>2, <1>3 DEF Has
<1>4. ASSUME NEW x \in P, NEW o2, o2 = [o EXCEPT !.keyPacket = x]
      PROVE  o2 \in O /\ Has(o2, x, o.revocationSignatures, o.directSignatures, o.users, o.subkeys, o.user, o.subkey)
  BY <1>2, <1>4 DEF Has
<1>5. ASSUME NEW x \in R, NEW o2, o2 = [o EXCEPT !.revocationSignatures = x]
      PROVE  o2 \in O /\ Has(o2, o.keyPacket, x, o.directSignatures, o.users, o.subkeys, o.user, o.subkey)
  BY <1>2, <1>5 DEF Has
<1>6. ASSUME NEW x \in D, NEW o2, o2 = [o EXCEPT !.directSignatures = x]
      PROVE  o2 \in O /\ Has(o2, o.keyPacket, o.revocationSignatures, x, o.users, o.subkeys, o.user, o.subkey)
  BY <1>2, <1>6 DEF Has
<1>7. ASSUME NEW x \in U, NEW o2, o2 = [o EXCEPT !.users = x]
      PROVE  o2 \in O /\ Has(o2, o.keyPacket, o.revocationSignatures, o.directSignatures, x, o.subkeys, o.user, o.subkey)
  BY <1>2, <1>7 DEF Has
<1>8. ASSUME NEW x \in S, NEW o2, o2 = [o EXCEPT !.subkeys = x]
      PROVE  o2 \in O /\ Has(o2, o.keyPacket, o.revocationSignatures, o.directSignatures, o.users, x, o.user, o.subkey)
  BY <1>2, <1>8 DEF Has
<1>9. ASSUME NEW x \in U, NEW o2, o2 = [o EXCEPT !.user = TRUE, !.users = x]
      PROVE  o2 \in O /\ Has(o2, o.keyPacket, o.revocationSignatures, o.directSignatures, x, o.subkeys, TRUE, o.subkey)
  BY <1>2, <1>9 DEF Has
<1>10. ASSUME NEW x \in S, NEW o2, o2 = [o EXCEPT !.user = FALSE, !.subkey = TRUE, !.subkeys = x]
       PROVE  o2 \in O /\ Has(o2, o.keyPacket, o.revocationSignatures, o.directSignatures, o.users, x, FALSE, TRUE)
  BY <1>2, <1>10 DEF Has
<1> QED BY <1>1, <1>3, <1>4, <1>5, <1>6, <1>7, <1>8, <1>9, <1>10, Zenon DEF P, R, D, U, S

Clear(o)          == [o EXCEPT !.ignoreUntil = {}]
WithRevs(o, x)    == [o EXCEPT !.revocationSignatures = x]
WithDirects(o, x) == [o EXCEPT !.directSignatures = x]
WithUsers(o, x)   == [o EXCEPT !.users = x]
WithSubkeys(o, x) == [o EXCEPT !.subkeys = x]
InUser(o, x)      == [o EXCEPT !.user = TRUE, !.users = x]
InSubkey(o, x)    == [o EXCEPT !.user = FALSE, !.subkey = TRUE, !.subkeys = x]

LEMMA MadeUpdates ==
  ASSUME NEW k, NEW kp \in Packet, NEW rev \in Seq(Revs), NEW dir \in Seq(Directs), NEW us \in Seq(UserContents),
         NEW ss \in Seq(SubkeyContents(k))
  PROVE  /\ Clear(Made(kp, rev, dir, us, ss)) = Made(kp, rev, dir, us, ss)
         /\ \A x \in Seq(Revs) : WithRevs(Made(kp, rev, dir, us, ss), x) = Made(kp, x, dir, us, ss)
         /\ \A x \in Seq(Directs) : WithDirects(Made(kp, rev, dir, us, ss), x) = Made(kp, rev, x, us, ss)
<1>1. PICK o : o = Made(kp, rev, dir, us, ss)
  OBVIOUS
<1>2. o \in Objects(k) /\ ~o.threw
  BY <1>1, MadeFacts DEF Has
<1>3. /\ o.keyPacket = kp /\ o.revocationSignatures = rev /\ o.directSignatures = dir /\ o.users = us /\ o.subkeys = ss
      /\ (o.user <=> us # <<>> /\ ss = <<>>) /\ (o.subkey <=> ss # <<>>)
  BY <1>1, MadeFacts DEF Has
<1>4. [o EXCEPT !.ignoreUntil = {}] = o
  <2>1. PICK o2 : o2 = [o EXCEPT !.ignoreUntil = {}]
    OBVIOUS
  <2>2. o2 \in Objects(k) /\ Has(o2, kp, rev, dir, us, ss, o.user, o.subkey)
    BY <1>2, <1>3, <2>1, Updates
  <2>3. Has(o, kp, rev, dir, us, ss, o.user, o.subkey)
    BY <1>2, <1>3 DEF Has
  <2> QED BY <1>2, <2>1, <2>2, <2>3, SameObject
<1>5. ASSUME NEW x \in Seq(Revs) PROVE [o EXCEPT !.revocationSignatures = x] = Made(kp, x, dir, us, ss)
  <2>1. PICK o2 : o2 = [o EXCEPT !.revocationSignatures = x]
    OBVIOUS
  <2>2. o2 \in Objects(k) /\ Has(o2, kp, x, dir, us, ss, o.user, o.subkey)
    BY <1>2, <1>3, <2>1, Updates
  <2> QED BY <1>3, <1>5, <2>1, <2>2, Rebuilt DEF Has
<1>6. ASSUME NEW x \in Seq(Directs) PROVE [o EXCEPT !.directSignatures = x] = Made(kp, rev, x, us, ss)
  <2>1. PICK o2 : o2 = [o EXCEPT !.directSignatures = x]
    OBVIOUS
  <2>2. o2 \in Objects(k) /\ Has(o2, kp, rev, x, us, ss, o.user, o.subkey)
    BY <1>2, <1>3, <2>1, Updates
  <2> QED BY <1>3, <1>6, <2>1, <2>2, Rebuilt DEF Has
<1> QED BY <1>1, <1>4, <1>5, <1>6, Zenon DEF Clear, WithRevs, WithDirects

LEMMA ComponentUpdates ==
  ASSUME NEW k, NEW kp \in Packet, NEW rev \in Seq(Revs), NEW dir \in Seq(Directs), NEW us \in Seq(UserContents),
         NEW ss \in Seq(SubkeyContents(k))
  PROVE  /\ \A x \in Seq(UserContents) : (x = <<>> <=> us = <<>>)
              => WithUsers(Made(kp, rev, dir, us, ss), x) = Made(kp, rev, dir, x, ss)
         /\ \A x \in Seq(SubkeyContents(k)) : (x = <<>> <=> ss = <<>>)
              => WithSubkeys(Made(kp, rev, dir, us, ss), x) = Made(kp, rev, dir, us, x)
<1>1. PICK o : o = Made(kp, rev, dir, us, ss)
  OBVIOUS
<1>2. o \in Objects(k) /\ ~o.threw
  BY <1>1, MadeFacts DEF Has
<1>3. /\ o.keyPacket = kp /\ o.revocationSignatures = rev /\ o.directSignatures = dir /\ o.users = us /\ o.subkeys = ss
      /\ (o.user <=> us # <<>> /\ ss = <<>>) /\ (o.subkey <=> ss # <<>>)
  BY <1>1, MadeFacts DEF Has
<1>4. ASSUME NEW x \in Seq(UserContents), x = <<>> <=> us = <<>> PROVE [o EXCEPT !.users = x] = Made(kp, rev, dir, x, ss)
  <2>1. PICK o2 : o2 = [o EXCEPT !.users = x]
    OBVIOUS
  <2>2. o2 \in Objects(k) /\ Has(o2, kp, rev, dir, x, ss, o.user, o.subkey)
    BY <1>2, <1>3, <2>1, Updates
  <2> QED BY <1>3, <1>4, <2>1, <2>2, Rebuilt DEF Has
<1>5. ASSUME NEW x \in Seq(SubkeyContents(k)), x = <<>> <=> ss = <<>> PROVE [o EXCEPT !.subkeys = x] = Made(kp, rev, dir, us, x)
  <2>1. PICK o2 : o2 = [o EXCEPT !.subkeys = x]
    OBVIOUS
  <2>2. o2 \in Objects(k) /\ Has(o2, kp, rev, dir, us, x, o.user, o.subkey)
    BY <1>2, <1>3, <2>1, Updates
  <2> QED BY <1>3, <1>5, <2>1, <2>2, Rebuilt DEF Has
<1> QED BY <1>1, <1>4, <1>5, Zenon DEF WithUsers, WithSubkeys

LEMMA SubkeyAdded ==
  ASSUME NEW k, NEW kp \in Packet, NEW rev \in Seq(Revs), NEW dir \in Seq(Directs), NEW us \in Seq(UserContents),
         NEW ss \in Seq(SubkeyContents(k))
  PROVE  \A x \in Seq(SubkeyContents(k)) : x # <<>>
           => InSubkey(Made(kp, rev, dir, us, ss), x) = Made(kp, rev, dir, us, x)
<1>1. PICK o : o = Made(kp, rev, dir, us, ss)
  OBVIOUS
<1>2. o \in Objects(k) /\ ~o.threw
  BY <1>1, MadeFacts DEF Has
<1>3. /\ o.keyPacket = kp /\ o.revocationSignatures = rev /\ o.directSignatures = dir /\ o.users = us /\ o.subkeys = ss
      /\ (o.user <=> us # <<>> /\ ss = <<>>) /\ (o.subkey <=> ss # <<>>)
  BY <1>1, MadeFacts DEF Has
<1>4. ASSUME NEW x \in Seq(SubkeyContents(k)), x # <<>>
      PROVE  [o EXCEPT !.user = FALSE, !.subkey = TRUE, !.subkeys = x] = Made(kp, rev, dir, us, x)
  <2>1. PICK o2 : o2 = [o EXCEPT !.user = FALSE, !.subkey = TRUE, !.subkeys = x]
    OBVIOUS
  <2>2. o2 \in Objects(k) /\ Has(o2, kp, rev, dir, us, x, FALSE, TRUE)
    BY <1>2, <1>3, <2>1, Updates
  <2>3. Has(o2, kp, rev, dir, us, x, o2.user, o2.subkey) /\ ~o2.user /\ o2.subkey
    BY <2>2 DEF Has
  <2> QED BY <1>4, <2>1, <2>2, <2>3, Rebuilt DEF Has
<1> QED BY <1>1, <1>4, Zenon DEF InSubkey

LEMMA UserAdded ==
  ASSUME NEW kp \in Packet, NEW rev \in Seq(Revs), NEW dir \in Seq(Directs), NEW us \in Seq(UserContents),
         NEW x \in Seq(UserContents), x # <<>>
  PROVE  InUser(Made(kp, rev, dir, us, <<>>), x) = Made(kp, rev, dir, x, <<>>)
<1> DEFINE k == "PublicKey"
<1>0. PICK ss \in Seq(SubkeyContents(k)) : ss = <<>>
  <2>1. <<>> \in Seq(SubkeyContents(k))
    OBVIOUS
  <2> QED BY <2>1, Zenon
<1> HIDE DEF k
<1>1. PICK o : o = Made(kp, rev, dir, us, ss)
  OBVIOUS
<1>2. o \in Objects(k) /\ ~o.threw
  BY <1>1, MadeFacts DEF Has
<1>3. /\ o.keyPacket = kp /\ o.revocationSignatures = rev /\ o.directSignatures = dir /\ o.users = us /\ o.subkeys = ss
      /\ (o.user <=> us # <<>> /\ ss = <<>>) /\ (o.subkey <=> ss # <<>>)
  BY <1>1, MadeFacts DEF Has
<1>4. PICK o2 : o2 = [o EXCEPT !.user = TRUE, !.users = x]
  OBVIOUS
<1>5. o2 \in Objects(k) /\ Has(o2, kp, rev, dir, x, ss, TRUE, o.subkey)
  BY <1>2, <1>3, <1>4, Updates
<1>6. Has(o2, kp, rev, dir, x, ss, o2.user, o2.subkey) /\ o2.user /\ ~o2.subkey
  BY <1>0, <1>3, <1>5 DEF Has
<1>7. o2 = Made(kp, rev, dir, x, ss)
  BY <1>0, <1>5, <1>6, Rebuilt DEF Has
<1> QED BY <1>0, <1>1, <1>4, <1>7, Zenon DEF InUser

\* Reading on from an object that was read from its list.
LEMMA SignatureStep ==
  ASSUME NEW k, NEW kp \in Packet, NEW rev \in Seq(Revs), NEW dir \in Seq(Directs), NEW us \in Seq(UserContents),
         NEW ss \in Seq(SubkeyContents(k)), NEW types, NEW q \in SigsOf(types)
  PROVE  Step(k, Made(kp, rev, dir, us, ss), q) = OnSignature(Made(kp, rev, dir, us, ss), q)
<1>0. PICK st : st = Made(kp, rev, dir, us, ss)
  OBVIOUS
<1>1. Clear(st) = st /\ ~st.threw /\ st.ignoreUntil = {}
  <2>1. ~st.threw /\ st.ignoreUntil = {}
    BY <1>0 DEF Made
  <2> QED BY <1>0, <2>1, MadeUpdates
<1>2. q.ok /\ q.tag = "signature"
  BY DEF SigsOf
<1>3. q.tag \notin disallowedPackets(k) /\ q.tag \notin KeyTags /\ q.tag \notin UserTags /\ q.tag \notin SubkeyTags
  BY <1>2 DEF disallowedPackets, KeyTags, UserTags, SubkeyTags
<1> QED BY <1>0, <1>1, <1>2, <1>3 DEF Step, Clear

LEMMA PrimaryStep ==
  ASSUME NEW k, NEW kp \in Primaries(k)
  PROVE  Step(k, EmptyKey, kp) = Made(kp, <<>>, <<>>, <<>>, <<>>) /\ kp # NoPacket /\ kp \in Packet
<1>1. kp.ok /\ kp.tag \in KeyTags /\ kp.tag \notin disallowedPackets(k) /\ kp \in Packet /\ kp # NoPacket
  BY DEF Primaries, NoPacket
<1>2. <<>> \in Seq(Revs) /\ <<>> \in Seq(Directs) /\ <<>> \in Seq(UserContents) /\ <<>> \in Seq(SubkeyContents(k))
  OBVIOUS
<1>3. ~EmptyKey.threw /\ EmptyKey.ignoreUntil = {} /\ EmptyKey.keyPacket = NoPacket
  BY DEF EmptyKey
<1>4. EmptyKey \in Objects(k) /\ Has(EmptyKey, NoPacket, <<>>, <<>>, <<>>, <<>>, FALSE, FALSE)
  <2>1. NoPacket \in Packet
    BY DEF NoPacket, Packet, Tags, SigTypes
  <2>2. EmptyKey \in Objects(k)
    <3> DEFINE P == Packet
               R == Seq(Revs)
               D == Seq(Directs)
               U == Seq(UserContents)
               S == Seq(SubkeyContents(k))
               O == [keyPacket : P, revocationSignatures : R, directSignatures : D, users : U, subkeys : S,
                     user : BOOLEAN, subkey : BOOLEAN, ignoreUntil : {{}}, threw : BOOLEAN]
    <3>1. O = Objects(k)
      BY DEF Objects
    <3>2. NoPacket \in P /\ <<>> \in R /\ <<>> \in D /\ <<>> \in U /\ <<>> \in S
      BY <1>2, <2>1
    <3> HIDE DEF P, R, D, U, S
    <3> QED BY <3>1, <3>2 DEF EmptyKey
  <2> QED BY <2>2 DEF EmptyKey, Has
<1>5. [EmptyKey EXCEPT !.ignoreUntil = {}] = EmptyKey
  <2>1. PICK o2 : o2 = [EmptyKey EXCEPT !.ignoreUntil = {}]
    OBVIOUS
  <2>2. o2 \in Objects(k) /\ Has(o2, NoPacket, <<>>, <<>>, <<>>, <<>>, FALSE, FALSE)
    BY <1>3, <1>4, <2>1, Updates, ZenonT(80) DEF Has
  <2> QED BY <1>4, <2>1, <2>2, SameObject
<1>6. Step(k, EmptyKey, kp) = OnKey(EmptyKey, kp)
  BY <1>1, <1>3, <1>5 DEF Step
<1>7. OnKey(EmptyKey, kp) = [EmptyKey EXCEPT !.keyPacket = kp]
  BY <1>3 DEF OnKey
<1>8. PICK o2 : o2 = [EmptyKey EXCEPT !.keyPacket = kp]
  OBVIOUS
<1>9. o2 \in Objects(k) /\ Has(o2, kp, <<>>, <<>>, <<>>, <<>>, FALSE, FALSE)
  <2>1. Has(o2, kp, EmptyKey.revocationSignatures, EmptyKey.directSignatures, EmptyKey.users, EmptyKey.subkeys,
            EmptyKey.user, EmptyKey.subkey) /\ o2 \in Objects(k)
    BY <1>1, <1>3, <1>4, <1>8, Updates
  <2> QED BY <1>4, <2>1 DEF Has
<1>10. o2 = Made(kp, <<>>, <<>>, <<>>, <<>>)
  <2>1. Has(o2, kp, <<>>, <<>>, <<>>, <<>>, o2.user, o2.subkey) /\ ~o2.user /\ ~o2.subkey
    BY <1>9 DEF Has
  <2> QED BY <1>1, <1>2, <1>9, <2>1, Rebuilt DEF Has
<1> QED BY <1>1, <1>6, <1>7, <1>8, <1>10

LEMMA KeySignatureSteps ==
  ASSUME NEW k, NEW kp \in Packet, NEW rev \in Seq(Revs), NEW dir \in Seq(Directs)
  PROVE  /\ \A q \in Revs : Step(k, Made(kp, rev, dir, <<>>, <<>>), q) = Made(kp, Append(rev, q), dir, <<>>, <<>>)
         /\ \A q \in Directs : Step(k, Made(kp, rev, dir, <<>>, <<>>), q) = Made(kp, rev, Append(dir, q), <<>>, <<>>)
<1>0. PICK us \in Seq(UserContents), ss \in Seq(SubkeyContents(k)) : us = <<>> /\ ss = <<>>
  <2>1. <<>> \in Seq(UserContents) /\ <<>> \in Seq(SubkeyContents(k))
    OBVIOUS
  <2> QED BY <2>1, Zenon
<1>1. PICK st : st = Made(kp, rev, dir, us, ss)
  OBVIOUS
<1>2. ~st.user /\ st.revocationSignatures = rev /\ st.directSignatures = dir
  BY <1>0, <1>1 DEF Made
<1>3. ASSUME NEW q \in Revs PROVE Step(k, st, q) = Made(kp, Append(rev, q), dir, us, ss)
  <2>1. Step(k, st, q) = OnSignature(st, q)
    BY <1>1, SignatureStep DEF Revs
  <2>2. OnSignature(st, q) = WithRevs(st, Append(rev, q))
    BY <1>2 DEF OnSignature, CertTypes, Revs, SigsOf, WithRevs
  <2>3. Append(rev, q) \in Seq(Revs)
    BY ToSetAppend
  <2>4. \A x \in Seq(Revs) : WithRevs(st, x) = Made(kp, x, dir, us, ss)
    BY <1>1, MadeUpdates
  <2> QED BY <2>1, <2>2, <2>3, <2>4, Zenon
<1>4. ASSUME NEW q \in Directs PROVE Step(k, st, q) = Made(kp, rev, Append(dir, q), us, ss)
  <2>1. Step(k, st, q) = OnSignature(st, q)
    BY <1>1, SignatureStep DEF Directs
  <2>2. OnSignature(st, q) = WithDirects(st, Append(dir, q))
    BY <1>2 DEF OnSignature, OnCertRevocation, CertTypes, Directs, SigsOf, WithDirects
  <2>3. Append(dir, q) \in Seq(Directs)
    BY ToSetAppend
  <2>4. \A x \in Seq(Directs) : WithDirects(st, x) = Made(kp, rev, x, us, ss)
    BY <1>1, MadeUpdates
  <2> QED BY <2>1, <2>2, <2>3, <2>4, Zenon
<1> QED BY <1>0, <1>1, <1>3, <1>4

LEMMA ComponentSteps ==
  ASSUME NEW k, NEW kp \in Packet, NEW rev \in Seq(Revs), NEW dir \in Seq(Directs), NEW us \in Seq(UserContents),
         NEW ss \in Seq(SubkeyContents(k))
  PROVE  /\ \A p \in Named : Step(k, Made(kp, rev, dir, us, <<>>), p)
                             = Made(kp, rev, dir, Append(us, User(p, <<>>, <<>>, <<>>)), <<>>)
         /\ \A p \in Subordinates(k) : Step(k, Made(kp, rev, dir, us, ss), p)
                                       = Made(kp, rev, dir, us, Append(ss, Subkey(p, <<>>, <<>>)))
<1>1. ASSUME NEW p \in Named
      PROVE  Step(k, Made(kp, rev, dir, us, <<>>), p) = Made(kp, rev, dir, Append(us, User(p, <<>>, <<>>, <<>>)), <<>>)
  <2>0. PICK none \in Seq(SubkeyContents(k)) : none = <<>>
    <3>1. <<>> \in Seq(SubkeyContents(k))
      OBVIOUS
    <3> QED BY <3>1, Zenon
  <2>1. PICK st : st = Made(kp, rev, dir, us, none)
    OBVIOUS
  <2>2. ~st.threw /\ st.ignoreUntil = {} /\ st.users = us
    BY <2>1 DEF Made
  <2>3. Clear(st) = st
    BY <2>1, MadeUpdates
  <2>4. p.ok /\ p.tag \in UserTags /\ p.tag \notin KeyTags /\ p.tag \notin disallowedPackets(k)
    BY DEF Named, UserTags, KeyTags, disallowedPackets
  <2>5. Step(k, st, p) = OnUser(st, p)
    BY <2>2, <2>3, <2>4 DEF Step, Clear
  <2>6. PICK u \in UserContents : u = User(p, <<>>, <<>>, <<>>)
    <3>1. <<>> \in Seq(SelfCerts) /\ <<>> \in Seq(OtherCerts) /\ <<>> \in Seq(CertRevs)
      OBVIOUS
    <3> QED BY <3>1, PartTypes DEF User
  <2>7. PICK us2 \in Seq(UserContents) : us2 = Append(us, u) /\ us2 # <<>>
    <3>1. Append(us, u) \in Seq(UserContents) /\ Append(us, u) # <<>>
      BY ToSetAppend, ReplaceLast, ZenonT(40)
    <3> QED BY <3>1
  <2>8. OnUser(st, p) = InUser(st, us2)
    BY <2>2, <2>6, <2>7 DEF OnUser, NewUser, User, InUser
  <2>9. InUser(st, us2) = Made(kp, rev, dir, us2, none)
    <3>1. InUser(Made(kp, rev, dir, us, <<>>), us2) = Made(kp, rev, dir, us2, <<>>)
      BY <2>7, UserAdded
    <3> QED BY <2>0, <2>1, <3>1, Zenon
  <2> QED BY <2>0, <2>1, <2>5, <2>6, <2>7, <2>8, <2>9
<1>2. ASSUME NEW p \in Subordinates(k)
      PROVE  Step(k, Made(kp, rev, dir, us, ss), p) = Made(kp, rev, dir, us, Append(ss, Subkey(p, <<>>, <<>>)))
  <2>1. PICK st : st = Made(kp, rev, dir, us, ss)
    OBVIOUS
  <2>2. ~st.threw /\ st.ignoreUntil = {} /\ st.subkeys = ss
    BY <2>1 DEF Made
  <2>3. Clear(st) = st
    BY <2>1, MadeUpdates
  <2>4. p.ok /\ p.tag \in SubkeyTags /\ p.tag \notin KeyTags /\ p.tag \notin UserTags /\ p.tag \notin disallowedPackets(k)
    BY DEF Subordinates, UserTags, KeyTags, SubkeyTags
  <2>5. Step(k, st, p) = OnSubkey(st, p)
    BY <2>2, <2>3, <2>4 DEF Step, Clear
  <2>6. PICK s \in SubkeyContents(k) : s = Subkey(p, <<>>, <<>>)
    <3>1. <<>> \in Seq(Bindings) /\ <<>> \in Seq(SubkeyRevs)
      OBVIOUS
    <3> QED BY <3>1, PartTypes DEF Subkey
  <2>7. PICK ss2 \in Seq(SubkeyContents(k)) : ss2 = Append(ss, s) /\ ss2 # <<>>
    <3>1. Append(ss, s) \in Seq(SubkeyContents(k)) /\ Append(ss, s) # <<>>
      BY ToSetAppend, ReplaceLast, ZenonT(40)
    <3> QED BY <3>1
  <2>8. OnSubkey(st, p) = InSubkey(st, ss2)
    BY <2>2, <2>6, <2>7 DEF OnSubkey, NewSubkey, Subkey, InSubkey
  <2>9. InSubkey(st, ss2) = Made(kp, rev, dir, us, ss2)
    <3>1. \A x \in Seq(SubkeyContents(k)) : x # <<>> => InSubkey(st, x) = Made(kp, rev, dir, us, x)
      BY <2>1, SubkeyAdded
    <3> QED BY <2>7, <3>1, Zenon
  <2> QED BY <2>1, <2>5, <2>6, <2>7, <2>8, <2>9
<1> QED BY <1>1, <1>2

\* A component with one signature more.
WithRevocations(c, x) == [c EXCEPT !.revocationSignatures = x]
WithSelf(u, x)        == [u EXCEPT !.selfCertifications = x]
WithOthers(u, x)      == [u EXCEPT !.otherCertifications = x]
WithBindings(s, x)    == [s EXCEPT !.bindingSignatures = x]

LEMMA UserSigned ==
  ASSUME NEW p \in Named, NEW r \in Seq(CertRevs), NEW s \in Seq(SelfCerts), NEW o \in Seq(OtherCerts)
  PROVE  /\ \A x \in Seq(CertRevs) : WithRevocations(User(p, r, s, o), x) = User(p, x, s, o)
         /\ \A x \in Seq(SelfCerts) : WithSelf(User(p, r, s, o), x) = User(p, r, x, o)
         /\ \A x \in Seq(OtherCerts) : WithOthers(User(p, r, s, o), x) = User(p, r, s, x)
<1> DEFINE P == Named
           R == Seq(CertRevs)
           S == Seq(SelfCerts)
           O == Seq(OtherCerts)
<1>0. p \in P /\ r \in R /\ s \in S /\ o \in O
  OBVIOUS
<1> HIDE DEF P, R, S, O
<1>a. PICK u : u = User(p, r, s, o)
  OBVIOUS
<1> DEFINE U == [packet : P, selfCertifications : S, otherCertifications : O, revocationSignatures : R]
<1>1. \A t \in P, a \in R, b \in S, c \in O : User(t, a, b, c) \in U
  BY DEF User
<1>2. ASSUME NEW v \in U, NEW w \in U, v.packet = w.packet, v.selfCertifications = w.selfCertifications,
             v.otherCertifications = w.otherCertifications, v.revocationSignatures = w.revocationSignatures
      PROVE  v = w
  BY <1>2
<1>3. u \in U /\ u.packet = p /\ u.selfCertifications = s /\ u.otherCertifications = o /\ u.revocationSignatures = r
  BY <1>0, <1>a, <1>1 DEF User
<1>4. ASSUME NEW x \in R PROVE [u EXCEPT !.revocationSignatures = x] = User(p, x, s, o)
  <2>1. PICK v : v = [u EXCEPT !.revocationSignatures = x]
    OBVIOUS
  <2>2. PICK w \in U : w = User(p, x, s, o)
    BY <1>0, <1>1
  <2>3. v \in U /\ v.packet = p /\ v.selfCertifications = s /\ v.otherCertifications = o /\ v.revocationSignatures = x
    BY <1>3, <2>1
  <2>4. w.packet = p /\ w.selfCertifications = s /\ w.otherCertifications = o /\ w.revocationSignatures = x
    BY <2>2 DEF User
  <2> HIDE DEF U
  <2>5. v = w
    BY <1>2, <2>3, <2>4
  <2> QED BY <2>1, <2>2, <2>5
<1>5. ASSUME NEW x \in S PROVE [u EXCEPT !.selfCertifications = x] = User(p, r, x, o)
  <2>1. PICK v : v = [u EXCEPT !.selfCertifications = x]
    OBVIOUS
  <2>2. PICK w \in U : w = User(p, r, x, o)
    BY <1>0, <1>1
  <2>3. v \in U /\ v.packet = p /\ v.selfCertifications = x /\ v.otherCertifications = o /\ v.revocationSignatures = r
    BY <1>3, <2>1
  <2>4. w.packet = p /\ w.selfCertifications = x /\ w.otherCertifications = o /\ w.revocationSignatures = r
    BY <2>2 DEF User
  <2> HIDE DEF U
  <2>5. v = w
    BY <1>2, <2>3, <2>4
  <2> QED BY <2>1, <2>2, <2>5
<1>6. ASSUME NEW x \in O PROVE [u EXCEPT !.otherCertifications = x] = User(p, r, s, x)
  <2>1. PICK v : v = [u EXCEPT !.otherCertifications = x]
    OBVIOUS
  <2>2. PICK w \in U : w = User(p, r, s, x)
    BY <1>0, <1>1
  <2>3. v \in U /\ v.packet = p /\ v.selfCertifications = s /\ v.otherCertifications = x /\ v.revocationSignatures = r
    BY <1>3, <2>1
  <2>4. w.packet = p /\ w.selfCertifications = s /\ w.otherCertifications = x /\ w.revocationSignatures = r
    BY <2>2 DEF User
  <2> HIDE DEF U
  <2>5. v = w
    BY <1>2, <2>3, <2>4
  <2> QED BY <2>1, <2>2, <2>5
<1> QED BY <1>a, <1>4, <1>5, <1>6, Zenon DEF R, S, O, WithRevocations, WithSelf, WithOthers

LEMMA SubkeySigned ==
  ASSUME NEW k, NEW p \in Subordinates(k), NEW r \in Seq(SubkeyRevs), NEW b \in Seq(Bindings)
  PROVE  /\ \A x \in Seq(SubkeyRevs) : WithRevocations(Subkey(p, r, b), x) = Subkey(p, x, b)
         /\ \A x \in Seq(Bindings) : WithBindings(Subkey(p, r, b), x) = Subkey(p, r, x)
<1> DEFINE P == Subordinates(k)
           R == Seq(SubkeyRevs)
           B == Seq(Bindings)
<1>0. p \in P /\ r \in R /\ b \in B
  OBVIOUS
<1> HIDE DEF P, R, B
<1>a. PICK s : s = Subkey(p, r, b)
  OBVIOUS
<1> DEFINE S == [packet : P, bindingSignatures : B, revocationSignatures : R]
<1>1. \A t \in P, a \in R, c \in B : Subkey(t, a, c) \in S
  BY DEF Subkey
<1>2. ASSUME NEW v \in S, NEW w \in S, v.packet = w.packet, v.bindingSignatures = w.bindingSignatures,
             v.revocationSignatures = w.revocationSignatures
      PROVE  v = w
  BY <1>2
<1>3. s \in S /\ s.packet = p /\ s.bindingSignatures = b /\ s.revocationSignatures = r
  BY <1>0, <1>a, <1>1 DEF Subkey
<1>4. ASSUME NEW x \in R PROVE [s EXCEPT !.revocationSignatures = x] = Subkey(p, x, b)
  <2>1. PICK v : v = [s EXCEPT !.revocationSignatures = x]
    OBVIOUS
  <2>2. PICK w \in S : w = Subkey(p, x, b)
    BY <1>0, <1>1
  <2>3. v \in S /\ v.packet = p /\ v.bindingSignatures = b /\ v.revocationSignatures = x
    BY <1>3, <2>1
  <2>4. w.packet = p /\ w.bindingSignatures = b /\ w.revocationSignatures = x
    BY <2>2 DEF Subkey
  <2> HIDE DEF S
  <2>5. v = w
    BY <1>2, <2>3, <2>4
  <2> QED BY <2>1, <2>2, <2>5
<1>5. ASSUME NEW x \in B PROVE [s EXCEPT !.bindingSignatures = x] = Subkey(p, r, x)
  <2>1. PICK v : v = [s EXCEPT !.bindingSignatures = x]
    OBVIOUS
  <2>2. PICK w \in S : w = Subkey(p, r, x)
    BY <1>0, <1>1
  <2>3. v \in S /\ v.packet = p /\ v.bindingSignatures = x /\ v.revocationSignatures = r
    BY <1>3, <2>1
  <2>4. w.packet = p /\ w.bindingSignatures = x /\ w.revocationSignatures = r
    BY <2>2 DEF Subkey
  <2> HIDE DEF S
  <2>5. v = w
    BY <1>2, <2>3, <2>4
  <2> QED BY <2>1, <2>2, <2>5
<1> QED BY <1>a, <1>4, <1>5, Zenon DEF R, B, WithRevocations, WithBindings

\* A signature of the last user.
Empty(s) == s = <<>>

LEMMA UserSignatureSteps ==
  ASSUME NEW kp \in Packet, kp # NoPacket, NEW rev \in Seq(Revs), NEW dir \in Seq(Directs),
         NEW us \in Seq(UserContents), NEW k, NEW ss \in Seq(SubkeyContents(k)), Empty(ss),
         NEW p \in Named, NEW r \in Seq(CertRevs), NEW s \in Seq(SelfCerts), NEW o \in Seq(OtherCerts)
  PROVE  /\ \A q \in CertRevs : Step(k, Made(kp, rev, dir, Append(us, User(p, r, s, o)), ss), q)
                                = Made(kp, rev, dir, Append(us, User(p, Append(r, q), s, o)), ss)
         /\ \A q \in SelfCerts : Step(k, Made(kp, rev, dir, Append(us, User(p, r, s, o)), ss), q)
                                 = Made(kp, rev, dir, Append(us, User(p, r, Append(s, q), o)), ss)
         /\ \A q \in OtherCerts : Step(k, Made(kp, rev, dir, Append(us, User(p, r, s, o)), ss), q)
                                  = Made(kp, rev, dir, Append(us, User(p, r, s, Append(o, q))), ss)
<1>1. \A a \in Seq(CertRevs), b \in Seq(SelfCerts), c \in Seq(OtherCerts) : User(p, a, b, c) \in UserContents
  BY PartTypes DEF User
<1>2. PICK u \in UserContents : u = User(p, r, s, o)
  BY <1>1
<1>3. PICK us2 \in Seq(UserContents) : us2 = Append(us, u)
  <2>1. Append(us, u) \in Seq(UserContents)
    BY ToSetAppend
  <2> QED BY <2>1
<1>4. us2 # <<>> /\ us2[Len(us2)] = u
  BY <1>3, ReplaceLast, ZenonT(80)
<1>5. PICK st : st = Made(kp, rev, dir, us2, ss)
  OBVIOUS
<1>6. st.user /\ st.users = us2 /\ st.keyPacket = kp
  <2>1. ss = <<>>
    BY DEF Empty
  <2> QED BY <1>4, <1>5, <2>1 DEF Made
<1>7. ASSUME NEW w \in UserContents
      PROVE  WithUsers(st, WithLast(us2, w)) = Made(kp, rev, dir, Append(us, w), ss)
  <2>1. PICK us3 \in Seq(UserContents) : us3 = Append(us, w)
    <3>1. Append(us, w) \in Seq(UserContents)
      BY ToSetAppend
    <3> QED BY <3>1
  <2>2. us3 # <<>> /\ WithLast(us2, w) = us3
    BY <1>3, <2>1, ReplaceLast, ZenonT(80)
  <2>3. us3 = <<>> <=> us2 = <<>>
    BY <1>4, <2>2
  <2>4. WithUsers(Made(kp, rev, dir, us2, ss), us3) = Made(kp, rev, dir, us3, ss)
    BY <2>3, ComponentUpdates
  <2> QED BY <1>5, <2>1, <2>2, <2>4
<1>8. ASSUME NEW q \in CertRevs
      PROVE  Step(k, st, q) = Made(kp, rev, dir, Append(us, User(p, Append(r, q), s, o)), ss)
  <2>1. Step(k, st, q) = OnSignature(st, q)
    BY <1>5, SignatureStep DEF CertRevs
  <2>2. q.type = "certRevocation"
    BY DEF CertRevs, SigsOf
  <2>3. PICK w : w = WithRevocations(u, Append(r, q))
    OBVIOUS
  <2>4. u.revocationSignatures = r
    BY <1>2 DEF User
  <2>5. OnSignature(st, q) = WithUsers(st, WithLast(us2, w))
    BY <1>4, <1>6, <2>2, <2>3, <2>4 DEF OnSignature, OnCertRevocation, CertTypes, WithUsers, WithLast, WithRevocations
  <2>6. PICK r2 \in Seq(CertRevs) : r2 = Append(r, q)
    <3>1. Append(r, q) \in Seq(CertRevs)
      BY ToSetAppend
    <3> QED BY <3>1
  <2>7. w = User(p, r2, s, o)
    BY <1>2, <2>3, <2>6, UserSigned, ZenonT(40)
  <2>8. w \in UserContents
    BY <1>1, <2>7
  <2> QED BY <1>7, <2>1, <2>5, <2>6, <2>7, <2>8
<1>9. ASSUME NEW q \in SelfCerts
      PROVE  Step(k, st, q) = Made(kp, rev, dir, Append(us, User(p, r, Append(s, q), o)), ss)
  <2>1. Step(k, st, q) = OnSignature(st, q)
    BY <1>5, SignatureStep DEF SelfCerts
  <2>2. q.type \in CertTypes /\ q.self
    BY DEF SelfCerts, SigsOf
  <2>3. PICK w : w = WithSelf(u, Append(s, q))
    OBVIOUS
  <2>4. u.selfCertifications = s
    BY <1>2 DEF User
  <2>5. OnSignature(st, q) = WithUsers(st, WithLast(us2, w))
    BY <1>4, <1>6, <2>2, <2>3, <2>4 DEF OnSignature, OnCertification, CertTypes, WithUsers, WithLast, WithSelf
  <2>6. PICK s2 \in Seq(SelfCerts) : s2 = Append(s, q)
    <3>1. Append(s, q) \in Seq(SelfCerts)
      BY ToSetAppend
    <3> QED BY <3>1
  <2>7. w = User(p, r, s2, o)
    BY <1>2, <2>3, <2>6, UserSigned, ZenonT(80)
  <2>8. w \in UserContents
    BY <1>1, <2>7
  <2> QED BY <1>7, <2>1, <2>5, <2>6, <2>7, <2>8
<1>10. ASSUME NEW q \in OtherCerts
       PROVE  Step(k, st, q) = Made(kp, rev, dir, Append(us, User(p, r, s, Append(o, q))), ss)
  <2>1. Step(k, st, q) = OnSignature(st, q)
    BY <1>5, SignatureStep DEF OtherCerts
  <2>2. q.type \in CertTypes /\ ~q.self
    BY DEF OtherCerts, SigsOf
  <2>3. PICK w : w = WithOthers(u, Append(o, q))
    OBVIOUS
  <2>4. u.otherCertifications = o
    BY <1>2 DEF User
  <2>5. OnSignature(st, q) = WithUsers(st, WithLast(us2, w))
    BY <1>4, <1>6, <2>2, <2>3, <2>4 DEF OnSignature, OnCertification, CertTypes, WithUsers, WithLast, WithOthers
  <2>6. PICK o2 \in Seq(OtherCerts) : o2 = Append(o, q)
    <3>1. Append(o, q) \in Seq(OtherCerts)
      BY ToSetAppend
    <3> QED BY <3>1
  <2>7. w = User(p, r, s, o2)
    BY <1>2, <2>3, <2>6, UserSigned, ZenonT(40)
  <2>8. w \in UserContents
    BY <1>1, <2>7
  <2> QED BY <1>7, <2>1, <2>5, <2>6, <2>7, <2>8
<1> QED BY <1>2, <1>3, <1>5, <1>8, <1>9, <1>10

\* A signature of the last subkey.
LEMMA SubkeySignatureSteps ==
  ASSUME NEW kp \in Packet, NEW rev \in Seq(Revs), NEW dir \in Seq(Directs), NEW us \in Seq(UserContents),
         NEW k, NEW ss \in Seq(SubkeyContents(k)),
         NEW p \in Subordinates(k), NEW r \in Seq(SubkeyRevs), NEW b \in Seq(Bindings)
  PROVE  /\ \A q \in SubkeyRevs : Step(k, Made(kp, rev, dir, us, Append(ss, Subkey(p, r, b))), q)
                                  = Made(kp, rev, dir, us, Append(ss, Subkey(p, Append(r, q), b)))
         /\ \A q \in Bindings : Step(k, Made(kp, rev, dir, us, Append(ss, Subkey(p, r, b))), q)
                                = Made(kp, rev, dir, us, Append(ss, Subkey(p, r, Append(b, q))))
<1>1. \A a \in Seq(SubkeyRevs), c \in Seq(Bindings) : Subkey(p, a, c) \in SubkeyContents(k)
  BY PartTypes DEF Subkey
<1>2. PICK s \in SubkeyContents(k) : s = Subkey(p, r, b)
  BY <1>1
<1>3. PICK ss2 \in Seq(SubkeyContents(k)) : ss2 = Append(ss, s)
  <2>1. Append(ss, s) \in Seq(SubkeyContents(k))
    BY ToSetAppend
  <2> QED BY <2>1
<1>4. ss2 # <<>> /\ ss2[Len(ss2)] = s
  BY <1>3, ReplaceLast, ZenonT(40)
<1>5. PICK st : st = Made(kp, rev, dir, us, ss2)
  OBVIOUS
<1>6. st.subkey /\ st.subkeys = ss2
  BY <1>4, <1>5 DEF Made
<1>7. ASSUME NEW w \in SubkeyContents(k)
      PROVE  WithSubkeys(st, WithLast(ss2, w)) = Made(kp, rev, dir, us, Append(ss, w))
  <2>1. PICK ss3 \in Seq(SubkeyContents(k)) : ss3 = Append(ss, w)
    <3>1. Append(ss, w) \in Seq(SubkeyContents(k))
      BY ToSetAppend
    <3> QED BY <3>1
  <2>2. ss3 # <<>> /\ WithLast(ss2, w) = ss3
    BY <1>3, <2>1, ReplaceLast, SMTT(30)
  <2>3. ss3 = <<>> <=> ss2 = <<>>
    BY <1>4, <2>2
  <2>4. WithSubkeys(Made(kp, rev, dir, us, ss2), ss3) = Made(kp, rev, dir, us, ss3)
    BY <2>3, ComponentUpdates
  <2> QED BY <1>5, <2>1, <2>2, <2>4
<1>8. ASSUME NEW q \in SubkeyRevs
      PROVE  Step(k, st, q) = Made(kp, rev, dir, us, Append(ss, Subkey(p, Append(r, q), b)))
  <2>1. Step(k, st, q) = OnSignature(st, q)
    BY <1>5, SignatureStep DEF SubkeyRevs
  <2>2. q.type = "subkeyRevocation"
    BY DEF SubkeyRevs, SigsOf
  <2>3. PICK w : w = WithRevocations(s, Append(r, q))
    OBVIOUS
  <2>4. s.revocationSignatures = r
    BY <1>2 DEF Subkey
  <2>5. OnSignature(st, q) = WithSubkeys(st, WithLast(ss2, w))
    BY <1>4, <1>6, <2>2, <2>3, <2>4 DEF OnSignature, OnSubkeyRevocation, CertTypes, WithSubkeys, WithLast, WithRevocations
  <2>6. PICK r2 \in Seq(SubkeyRevs) : r2 = Append(r, q)
    <3>1. Append(r, q) \in Seq(SubkeyRevs)
      BY ToSetAppend
    <3> QED BY <3>1
  <2>7. w = Subkey(p, r2, b)
    BY <1>2, <2>3, <2>6, SubkeySigned
  <2>8. w \in SubkeyContents(k)
    BY <1>1, <2>7
  <2> QED BY <1>7, <2>1, <2>5, <2>6, <2>7, <2>8
<1>9. ASSUME NEW q \in Bindings
      PROVE  Step(k, st, q) = Made(kp, rev, dir, us, Append(ss, Subkey(p, r, Append(b, q))))
  <2>1. Step(k, st, q) = OnSignature(st, q)
    BY <1>5, SignatureStep DEF Bindings
  <2>2. q.type = "subkeyBinding"
    BY DEF Bindings, SigsOf
  <2>3. PICK w : w = WithBindings(s, Append(b, q))
    OBVIOUS
  <2>4. s.bindingSignatures = b
    BY <1>2 DEF Subkey
  <2>5. OnSignature(st, q) = WithSubkeys(st, WithLast(ss2, w))
    BY <1>4, <1>6, <2>2, <2>3, <2>4 DEF OnSignature, OnSubkeyBinding, CertTypes, WithSubkeys, WithLast, WithBindings
  <2>6. PICK b2 \in Seq(Bindings) : b2 = Append(b, q)
    <3>1. Append(b, q) \in Seq(Bindings)
      BY ToSetAppend
    <3> QED BY <3>1
  <2>7. w = Subkey(p, r, b2)
    BY <1>2, <2>3, <2>6, SubkeySigned
  <2>8. w \in SubkeyContents(k)
    BY <1>1, <2>7
  <2> QED BY <1>7, <2>1, <2>5, <2>6, <2>7, <2>8
<1> QED BY <1>2, <1>3, <1>5, <1>8, <1>9

SubkeyEnds(p, r, b, q) == SubkeyPackets(Subkey(p, r, Append(b, q))) = Append(SubkeyPackets(Subkey(p, r, b)), q)
UserEnds(p, r, s, q) ==
  UserPackets(User(p, r, Append(s, q), <<>>)) = Append(UserPackets(User(p, r, s, <<>>)), q)

LEMMA WrittenEnds ==
  ASSUME NEW p \in Packet, NEW q \in Packet
  PROVE  \A r \in Seq(Packet), s \in Seq(Packet) : SubkeyEnds(p, r, s, q) /\ UserEnds(p, r, s, q)
<1> SUFFICES ASSUME NEW r \in Seq(Packet), NEW s \in Seq(Packet) PROVE SubkeyEnds(p, r, s, q) /\ UserEnds(p, r, s, q)
  OBVIOUS
<1>1. \A b \in Seq(Packet) :
        /\ UserPackets(User(p, r, Append(b, q), <<>>)) = Append(UserPackets(User(p, r, b, <<>>)), q)
        /\ SubkeyPackets(Subkey(p, r, Append(b, q))) = Append(SubkeyPackets(Subkey(p, r, b)), q)
  BY WrittenGrows, ZenonT(40)
<1> QED BY <1>1, Zenon DEF SubkeyEnds, UserEnds

-----------------------------------------------------------------------------
(* Reading back what was written *)

LEMMA ReadMore ==
  ASSUME NEW k, NEW l \in Seq(Packet), NEW w \in Seq(Packet), NEW q \in Packet
  PROVE  packetListToStructure(k, l \o Append(w, q)) = Step(k, packetListToStructure(k, l \o w), q)
<1>1. l \o Append(w, q) = Append(l \o w, q) /\ l \o w \in Seq(Packet)
  BY SeqFacts
<1>2. PICK m \in Seq(Packet) : m = l \o w
  BY <1>1
<1>3. packetListToStructure(k, Append(m, q)) = Step(k, packetListToStructure(k, m), q)
  BY ReadAppend
<1> QED BY <1>1, <1>2, <1>3

\* What is read before the users.
LEMMA ReadsHead ==
  ASSUME NEW k, NEW kp \in Primaries(k)
  PROVE  \A rev \in Seq(Revs), dir \in Seq(Directs) :
           packetListToStructure(k, Lead(kp, rev, dir)) = Made(kp, rev, dir, <<>>, <<>>)
<1>0. kp \in Packet
  BY PrimaryStep
<1>a. PICK none \in Seq(Packet) : Empty(none)
  <2>1. <<>> \in Seq(Packet) /\ Empty(<<>>)
    BY DEF Empty
  <2> QED BY <2>1, Zenon
<1>b. \A a \in Seq(Revs) : a \in Seq(Packet)
  BY PartTypes, SeqSubset
<1>c. \A a \in Seq(Directs) : a \in Seq(Packet)
  BY PartTypes, SeqSubset
<1>1. packetListToStructure(k, Lead(kp, <<>>, <<>>)) = Made(kp, <<>>, <<>>, <<>>, <<>>)
  <2>1. packetListToStructure(k, Append(none, kp)) = Step(k, packetListToStructure(k, none), kp)
    BY <1>0, ReadAppend
  <2>2. packetListToStructure(k, none) = EmptyKey
    BY <1>a, ReadAppend DEF Empty
  <2>3. Lead(kp, <<>>, <<>>) = <<kp>>
    <3>1. <<>> \in Seq(Packet)
      OBVIOUS
    <3> QED BY <1>0, <1>a, HeadFacts
  <2>4. Append(none, kp) = <<kp>>
    BY <1>a DEF Empty
  <2> QED BY <2>1, <2>2, <2>3, <2>4, PrimaryStep
<1> DEFINE T == {r \in Seq(Revs) : packetListToStructure(k, Lead(kp, r, <<>>)) = Made(kp, r, <<>>, <<>>, <<>>)}
<1>2. <<>> \in T
  <2>1. <<>> \in Seq(Revs)
    OBVIOUS
  <2> QED BY <1>1, <2>1
<1>3. ASSUME NEW r \in Seq(Revs), NEW q \in Revs, r \in T PROVE Append(r, q) \in T
  <2>1. PICK r2 \in Seq(Revs) : r2 = Append(r, q)
    <3>1. Append(r, q) \in Seq(Revs)
      BY ToSetAppend
    <3> QED BY <3>1
  <2>2. r \in Seq(Packet) /\ q \in Packet
    BY <1>b, PartTypes
  <2>3. PICK l \in Seq(Packet) : l = Lead(kp, r, <<>>)
    <3>1. <<>> \in Seq(Packet)
      OBVIOUS
    <3>2. \A dir \in Seq(Packet) : Lead(kp, r, dir) \in Seq(Packet)
      BY <1>0, <2>2, HeadFacts
    <3>3. Lead(kp, r, none) \in Seq(Packet)
      BY <3>2
    <3> QED BY <1>a, <3>3 DEF Empty
  <2>4. Lead(kp, r2, <<>>) = Append(l, q)
    BY <1>0, <2>1, <2>2, <2>3, HeadFacts, ZenonT(40)
  <2>5. packetListToStructure(k, Append(l, q)) = Step(k, packetListToStructure(k, l), q)
    BY <2>2, ReadAppend
  <2>6. packetListToStructure(k, l) = Made(kp, r, <<>>, <<>>, <<>>)
    BY <1>3, <2>3
  <2>7. \A d \in Seq(Directs) : Step(k, Made(kp, r, d, <<>>, <<>>), q) = Made(kp, Append(r, q), d, <<>>, <<>>)
    BY <1>0, KeySignatureSteps
  <2>8. Step(k, Made(kp, r, <<>>, <<>>, <<>>), q) = Made(kp, r2, <<>>, <<>>, <<>>)
    <3>1. <<>> \in Seq(Directs)
      OBVIOUS
    <3> QED BY <2>1, <2>7, <3>1, Zenon
  <2>9. packetListToStructure(k, Lead(kp, r2, <<>>)) = Made(kp, r2, <<>>, <<>>, <<>>)
    BY <2>4, <2>5, <2>6, <2>8
  <2> QED BY <2>1, <2>9
<1>4. ASSUME NEW r \in Seq(Revs)
      PROVE  \A d \in Seq(Directs) : packetListToStructure(k, Lead(kp, r, d)) = Made(kp, r, d, <<>>, <<>>)
  <2> DEFINE U == {d \in Seq(Directs) : packetListToStructure(k, Lead(kp, r, d)) = Made(kp, r, d, <<>>, <<>>)}
  <2>1. <<>> \in U
    <3>1. r \in T
      <4> HIDE DEF T
      <4> QED BY <1>2, <1>3, SeqInduction
    <3>2. <<>> \in Seq(Directs)
      OBVIOUS
    <3> QED BY <3>1, <3>2
  <2>2. ASSUME NEW d \in Seq(Directs), NEW q \in Directs, d \in U PROVE Append(d, q) \in U
    <3>1. PICK d2 \in Seq(Directs) : d2 = Append(d, q)
      <4>1. Append(d, q) \in Seq(Directs)
        BY ToSetAppend
      <4> QED BY <4>1
    <3>2. r \in Seq(Packet) /\ d \in Seq(Packet) /\ q \in Packet
      BY <1>b, <1>c, PartTypes
    <3>3. PICK l \in Seq(Packet) : l = Lead(kp, r, d)
      BY <1>0, <3>2, HeadFacts
    <3>4. Lead(kp, r, d2) = Append(l, q)
      <4>1. \A dir \in Seq(Packet), x \in Packet : Lead(kp, r, Append(dir, x)) = Append(Lead(kp, r, dir), x)
        BY <1>0, <3>2, HeadFacts, Zenon
      <4>2. Lead(kp, r, Append(d, q)) = Append(Lead(kp, r, d), q)
        BY <3>2, <4>1, Zenon
      <4> QED BY <3>1, <3>3, <4>2, Zenon
    <3>5. packetListToStructure(k, Append(l, q)) = Step(k, packetListToStructure(k, l), q)
      BY <3>2, ReadAppend
    <3>6. Step(k, Made(kp, r, d, <<>>, <<>>), q) = Made(kp, r, d2, <<>>, <<>>)
      BY <1>0, <3>1, KeySignatureSteps
    <3>7. packetListToStructure(k, Lead(kp, r, d2)) = Made(kp, r, d2, <<>>, <<>>)
      BY <2>2, <3>3, <3>4, <3>5, <3>6
    <3> QED BY <3>1, <3>7
  <2> HIDE DEF U
  <2>3. \A d \in Seq(Directs) : d \in U
    BY <2>1, <2>2, SeqInduction
  <2> QED BY <2>3 DEF U
<1> QED BY <1>4

\* One user more, its signatures one after the other.
LEMMA ReadsUser ==
  ASSUME NEW k, NEW kp \in Primaries(k), NEW rev \in Seq(Revs), NEW dir \in Seq(Directs), NEW us \in Seq(UserContents),
         NEW l \in Seq(Packet), packetListToStructure(k, l) = Made(kp, rev, dir, us, <<>>),
         NEW p \in Named
  PROVE  \A r \in Seq(CertRevs), s \in Seq(SelfCerts), o \in Seq(OtherCerts) :
           packetListToStructure(k, l \o UserPackets(User(p, r, s, o)))
           = Made(kp, rev, dir, Append(us, User(p, r, s, o)), <<>>)
<1>0. kp \in Packet /\ kp # NoPacket /\ p \in Packet
  BY PrimaryStep, PartTypes
<1>a. PICK ss \in Seq(SubkeyContents(k)) : Empty(ss)
  <2>1. <<>> \in Seq(SubkeyContents(k)) /\ Empty(<<>>)
    BY DEF Empty
  <2> QED BY <2>1, Zenon
<1>b. /\ \A a \in Seq(CertRevs) : a \in Seq(Packet)
      /\ \A a \in Seq(SelfCerts) : a \in Seq(Packet)
      /\ \A a \in Seq(OtherCerts) : a \in Seq(Packet)
  BY PartTypes, SeqSubset
<1>c. CertRevs \subseteq Packet /\ SelfCerts \subseteq Packet /\ OtherCerts \subseteq Packet
  BY PartTypes
<1>d. PICK nr \in Seq(CertRevs), ns \in Seq(SelfCerts), no \in Seq(OtherCerts) : Empty(nr) /\ Empty(ns) /\ Empty(no)
  <2>1. <<>> \in Seq(CertRevs) /\ <<>> \in Seq(SelfCerts) /\ <<>> \in Seq(OtherCerts) /\ Empty(<<>>)
    BY DEF Empty
  <2> QED BY <2>1, Zenon
<1>e. nr = <<>> /\ ns = <<>> /\ no = <<>> /\ ss = <<>>
  BY <1>a, <1>d DEF Empty
<1> DEFINE W(r, s, o) == UserPackets(User(p, r, s, o))
           M(r, s, o) == Made(kp, rev, dir, Append(us, User(p, r, s, o)), ss)
           G(r, s, o) == packetListToStructure(k, l \o W(r, s, o)) = M(r, s, o)
<1>1. G(nr, ns, no)
  <2>1. W(nr, ns, no) = <<p>>
    BY <1>0, <1>e, WrittenGrows
  <2>2. l \o <<p>> = Append(l, p)
    BY <1>0, SeqFacts
  <2>3. packetListToStructure(k, Append(l, p)) = Step(k, packetListToStructure(k, l), p)
    BY <1>0, ReadAppend
  <2>4. Step(k, Made(kp, rev, dir, us, <<>>), p) = Made(kp, rev, dir, Append(us, User(p, <<>>, <<>>, <<>>)), <<>>)
    BY <1>0, ComponentSteps
  <2> QED BY <1>e, <2>1, <2>2, <2>3, <2>4
<1>2. ASSUME NEW r \in Seq(CertRevs), NEW s \in Seq(SelfCerts), NEW o \in Seq(OtherCerts)
      PROVE  /\ W(r, s, o) \in Seq(Packet)
             /\ \A q \in CertRevs : Step(k, M(r, s, o), q) = M(Append(r, q), s, o)
             /\ \A q \in SelfCerts : Step(k, M(r, s, o), q) = M(r, Append(s, q), o)
             /\ \A q \in OtherCerts : Step(k, M(r, s, o), q) = M(r, s, Append(o, q))
  <2>1. User(p, r, s, o) \in UserContents
    BY PartTypes DEF User
  <2>2. W(r, s, o) \in Seq(Packet)
    BY <2>1, WrittenComponents
  <2> QED BY <1>0, <1>a, <2>2, UserSignatureSteps
<1>3. ASSUME NEW w \in Seq(Packet), NEW q \in Packet
      PROVE  packetListToStructure(k, l \o Append(w, q)) = Step(k, packetListToStructure(k, l \o w), q)
  BY ReadMore
<1>4. \A r \in Seq(CertRevs), q \in CertRevs : W(Append(r, q), ns, no) = Append(W(r, ns, no), q)
  BY <1>0, <1>b, <1>c, <1>e, WrittenGrows
<1>5. \A r \in Seq(CertRevs), s \in Seq(SelfCerts), q \in SelfCerts : W(r, Append(s, q), no) = Append(W(r, s, no), q)
  <2> SUFFICES ASSUME NEW r \in Seq(CertRevs), NEW s \in Seq(SelfCerts), NEW q \in SelfCerts
               PROVE  W(r, Append(s, q), no) = Append(W(r, s, no), q)
    OBVIOUS
  <2>1. r \in Seq(Packet) /\ s \in Seq(Packet) /\ q \in Packet
    BY <1>b, <1>c
  <2>2. UserEnds(p, r, s, q)
    BY <1>0, <2>1, WrittenEnds, Zenon
  <2> QED BY <1>e, <2>2, Zenon DEF UserEnds
<1>6. \A r \in Seq(CertRevs), s \in Seq(SelfCerts), o \in Seq(OtherCerts), q \in OtherCerts :
        W(r, s, Append(o, q)) = Append(W(r, s, o), q)
  <2> SUFFICES ASSUME NEW r \in Seq(CertRevs), NEW s \in Seq(SelfCerts), NEW o \in Seq(OtherCerts), NEW q \in OtherCerts
               PROVE  W(r, s, Append(o, q)) = Append(W(r, s, o), q)
    OBVIOUS
  <2>1. r \in Seq(Packet) /\ s \in Seq(Packet) /\ o \in Seq(Packet) /\ q \in Packet
    BY <1>b, <1>c
  <2>2. \A b \in Seq(Packet), c \in Seq(Packet) :
          UserPackets(User(p, r, b, Append(c, q))) = Append(UserPackets(User(p, r, b, c)), q)
    BY <1>0, <2>1, WrittenGrows, ZenonT(80)
  <2> QED BY <2>1, <2>2
<1> HIDE DEF W, M
<1>7. \A r \in Seq(CertRevs) : G(r, ns, no)
  <2> DEFINE T == {r \in Seq(CertRevs) : G(r, ns, no)}
  <2>1. <<>> \in T
    BY <1>1, <1>e
  <2>2. ASSUME NEW r \in Seq(CertRevs), NEW q \in CertRevs, r \in T PROVE Append(r, q) \in T
    <3>1. Append(r, q) \in Seq(CertRevs) /\ q \in Packet
      BY <1>c, ToSetAppend
    <3>2. packetListToStructure(k, l \o Append(W(r, ns, no), q)) = Step(k, packetListToStructure(k, l \o W(r, ns, no)), q)
      BY <1>2, <1>3, <3>1
    <3>3. Step(k, M(r, ns, no), q) = M(Append(r, q), ns, no)
      BY <1>2
    <3>4. W(Append(r, q), ns, no) = Append(W(r, ns, no), q)
      BY <1>4
    <3>5. G(r, ns, no)
      BY <2>2
    <3>6. G(Append(r, q), ns, no)
      BY <3>2, <3>3, <3>4, <3>5
    <3> QED BY <3>1, <3>6
  <2> HIDE DEF T
  <2>3. \A r \in Seq(CertRevs) : r \in T
    BY <2>1, <2>2, SeqInduction
  <2> QED BY <2>3 DEF T
<1>8. ASSUME NEW r \in Seq(CertRevs) PROVE \A s \in Seq(SelfCerts) : G(r, s, no)
  <2> DEFINE T == {s \in Seq(SelfCerts) : G(r, s, no)}
  <2>1. <<>> \in T
    BY <1>7, <1>e
  <2>2. ASSUME NEW s \in Seq(SelfCerts), NEW q \in SelfCerts, s \in T PROVE Append(s, q) \in T
    <3>1. Append(s, q) \in Seq(SelfCerts) /\ q \in Packet
      BY <1>c, ToSetAppend
    <3>2. packetListToStructure(k, l \o Append(W(r, s, no), q)) = Step(k, packetListToStructure(k, l \o W(r, s, no)), q)
      BY <1>2, <1>3, <3>1
    <3>3. Step(k, M(r, s, no), q) = M(r, Append(s, q), no)
      BY <1>2
    <3>4. W(r, Append(s, q), no) = Append(W(r, s, no), q)
      BY <1>5
    <3>5. G(r, s, no)
      BY <2>2
    <3>6. G(r, Append(s, q), no)
      BY <3>2, <3>3, <3>4, <3>5
    <3> QED BY <3>1, <3>6
  <2> HIDE DEF T
  <2>3. \A s \in Seq(SelfCerts) : s \in T
    BY <2>1, <2>2, SeqInduction
  <2> QED BY <2>3 DEF T
<1>9. ASSUME NEW r \in Seq(CertRevs), NEW s \in Seq(SelfCerts) PROVE \A o \in Seq(OtherCerts) : G(r, s, o)
  <2> DEFINE T == {o \in Seq(OtherCerts) : G(r, s, o)}
  <2>1. <<>> \in T
    BY <1>8, <1>e
  <2>2. ASSUME NEW o \in Seq(OtherCerts), NEW q \in OtherCerts, o \in T PROVE Append(o, q) \in T
    <3>1. Append(o, q) \in Seq(OtherCerts) /\ q \in Packet
      BY <1>c, ToSetAppend
    <3>2. packetListToStructure(k, l \o Append(W(r, s, o), q)) = Step(k, packetListToStructure(k, l \o W(r, s, o)), q)
      BY <1>2, <1>3, <3>1
    <3>3. Step(k, M(r, s, o), q) = M(r, s, Append(o, q))
      BY <1>2
    <3>4. W(r, s, Append(o, q)) = Append(W(r, s, o), q)
      BY <1>6
    <3>5. G(r, s, o)
      BY <2>2
    <3>6. G(r, s, Append(o, q))
      BY <3>2, <3>3, <3>4, <3>5
    <3> QED BY <3>1, <3>6
  <2> HIDE DEF T
  <2>3. \A o \in Seq(OtherCerts) : o \in T
    BY <2>1, <2>2, SeqInduction
  <2> QED BY <2>3 DEF T
<1> QED BY <1>9, <1>e DEF W, M

\* One subkey more, its signatures one after the other.
LEMMA ReadsSubkey ==
  ASSUME NEW k, NEW kp \in Primaries(k), NEW rev \in Seq(Revs), NEW dir \in Seq(Directs), NEW us \in Seq(UserContents),
         NEW ss \in Seq(SubkeyContents(k)), NEW l \in Seq(Packet),
         packetListToStructure(k, l) = Made(kp, rev, dir, us, ss), NEW p \in Subordinates(k)
  PROVE  \A r \in Seq(SubkeyRevs), b \in Seq(Bindings) :
           packetListToStructure(k, l \o SubkeyPackets(Subkey(p, r, b)))
           = Made(kp, rev, dir, us, Append(ss, Subkey(p, r, b)))
<1>0. kp \in Packet /\ p \in Packet
  BY PrimaryStep, PartTypes
<1>b. /\ \A a \in Seq(SubkeyRevs) : a \in Seq(Packet)
      /\ \A a \in Seq(Bindings) : a \in Seq(Packet)
  BY PartTypes, SeqSubset
<1>c. SubkeyRevs \subseteq Packet /\ Bindings \subseteq Packet
  BY PartTypes
<1>d. PICK nr \in Seq(SubkeyRevs), nb \in Seq(Bindings) : Empty(nr) /\ Empty(nb)
  <2>1. <<>> \in Seq(SubkeyRevs) /\ <<>> \in Seq(Bindings) /\ Empty(<<>>)
    BY DEF Empty
  <2> QED BY <2>1, Zenon
<1>e. nr = <<>> /\ nb = <<>>
  BY <1>d DEF Empty
<1> DEFINE W(r, b) == SubkeyPackets(Subkey(p, r, b))
           M(r, b) == Made(kp, rev, dir, us, Append(ss, Subkey(p, r, b)))
           G(r, b) == packetListToStructure(k, l \o W(r, b)) = M(r, b)
<1>1. G(nr, nb)
  <2>1. W(nr, nb) = <<p>>
    BY <1>0, <1>e, WrittenGrows
  <2>2. l \o <<p>> = Append(l, p)
    BY <1>0, SeqFacts
  <2>3. packetListToStructure(k, Append(l, p)) = Step(k, packetListToStructure(k, l), p)
    BY <1>0, ReadAppend
  <2>4. Step(k, Made(kp, rev, dir, us, ss), p) = Made(kp, rev, dir, us, Append(ss, Subkey(p, <<>>, <<>>)))
    BY <1>0, ComponentSteps
  <2> QED BY <1>e, <2>1, <2>2, <2>3, <2>4
<1>2. ASSUME NEW r \in Seq(SubkeyRevs), NEW b \in Seq(Bindings)
      PROVE  /\ W(r, b) \in Seq(Packet)
             /\ \A q \in SubkeyRevs : Step(k, M(r, b), q) = M(Append(r, q), b)
             /\ \A q \in Bindings : Step(k, M(r, b), q) = M(r, Append(b, q))
  <2>1. Subkey(p, r, b) \in SubkeyContents(k)
    BY PartTypes DEF Subkey
  <2>2. W(r, b) \in Seq(Packet)
    BY <2>1, WrittenComponents
  <2> QED BY <1>0, <2>2, SubkeySignatureSteps
<1>3. ASSUME NEW w \in Seq(Packet), NEW q \in Packet
      PROVE  packetListToStructure(k, l \o Append(w, q)) = Step(k, packetListToStructure(k, l \o w), q)
  BY ReadMore
<1>4. \A r \in Seq(SubkeyRevs), q \in SubkeyRevs : W(Append(r, q), nb) = Append(W(r, nb), q)
  BY <1>0, <1>b, <1>c, <1>e, WrittenGrows
<1>5. \A r \in Seq(SubkeyRevs), b \in Seq(Bindings), q \in Bindings : W(r, Append(b, q)) = Append(W(r, b), q)
  <2> SUFFICES ASSUME NEW r \in Seq(SubkeyRevs), NEW b \in Seq(Bindings), NEW q \in Bindings
               PROVE  W(r, Append(b, q)) = Append(W(r, b), q)
    OBVIOUS
  <2>1. r \in Seq(Packet) /\ b \in Seq(Packet) /\ q \in Packet
    BY <1>b, <1>c
  <2>2. SubkeyEnds(p, r, b, q)
    BY <1>0, <2>1, WrittenEnds, Zenon
  <2> QED BY <2>2, Zenon DEF SubkeyEnds
<1> HIDE DEF W, M
<1>6. \A r \in Seq(SubkeyRevs) : G(r, nb)
  <2> DEFINE T == {r \in Seq(SubkeyRevs) : G(r, nb)}
  <2>1. <<>> \in T
    BY <1>1, <1>e
  <2>2. ASSUME NEW r \in Seq(SubkeyRevs), NEW q \in SubkeyRevs, r \in T PROVE Append(r, q) \in T
    <3>1. Append(r, q) \in Seq(SubkeyRevs) /\ q \in Packet
      BY <1>c, ToSetAppend
    <3>2. packetListToStructure(k, l \o Append(W(r, nb), q)) = Step(k, packetListToStructure(k, l \o W(r, nb)), q)
      BY <1>2, <1>3, <3>1
    <3>3. Step(k, M(r, nb), q) = M(Append(r, q), nb)
      BY <1>2
    <3>4. W(Append(r, q), nb) = Append(W(r, nb), q)
      BY <1>4
    <3>5. G(r, nb)
      BY <2>2
    <3>6. G(Append(r, q), nb)
      BY <3>2, <3>3, <3>4, <3>5
    <3> QED BY <3>1, <3>6
  <2> HIDE DEF T
  <2>3. \A r \in Seq(SubkeyRevs) : r \in T
    BY <2>1, <2>2, SeqInduction
  <2> QED BY <2>3 DEF T
<1>7. ASSUME NEW r \in Seq(SubkeyRevs) PROVE \A b \in Seq(Bindings) : G(r, b)
  <2> DEFINE T == {b \in Seq(Bindings) : G(r, b)}
  <2>1. <<>> \in T
    BY <1>6, <1>e
  <2>2. ASSUME NEW b \in Seq(Bindings), NEW q \in Bindings, b \in T PROVE Append(b, q) \in T
    <3>1. Append(b, q) \in Seq(Bindings) /\ q \in Packet
      BY <1>c, ToSetAppend
    <3>2. packetListToStructure(k, l \o Append(W(r, b), q)) = Step(k, packetListToStructure(k, l \o W(r, b)), q)
      BY <1>2, <1>3, <3>1
    <3>3. Step(k, M(r, b), q) = M(r, Append(b, q))
      BY <1>2
    <3>4. W(r, Append(b, q)) = Append(W(r, b), q)
      BY <1>5
    <3>5. G(r, b)
      BY <2>2
    <3>6. G(r, Append(b, q))
      BY <3>2, <3>3, <3>4, <3>5
    <3> QED BY <3>1, <3>6
  <2> HIDE DEF T
  <2>3. \A b \in Seq(Bindings) : b \in T
    BY <2>1, <2>2, SeqInduction
  <2> QED BY <2>3 DEF T
<1> QED BY <1>7 DEF W, M

SubkeyGrows(kp, rev, dir, us, ss, s) ==
  Listed(kp, rev, dir, us, Append(ss, s)) = Listed(kp, rev, dir, us, ss) \o SubkeyPackets(s)

LEMMA SubkeyListed ==
  ASSUME NEW k, NEW kp \in Packet, NEW rev \in Seq(Packet), NEW dir \in Seq(Packet)
  PROVE  \A us \in Seq(UserContents), ss \in Seq(SubkeyContents(k)), s \in SubkeyContents(k) :
           SubkeyGrows(kp, rev, dir, us, ss, s)
BY ListedFacts, SMTT(30) DEF SubkeyGrows

\* What is written of an object is read back as the object it was read from.
LEMMA ReadsBack ==
  ASSUME NEW k, NEW kp \in Primaries(k), NEW rev \in Seq(Revs), NEW dir \in Seq(Directs)
  PROVE  \A us \in Seq(UserContents), ss \in Seq(SubkeyContents(k)) :
           packetListToStructure(k, Listed(kp, rev, dir, us, ss)) = Made(kp, rev, dir, us, ss)
<1>0. kp \in Packet /\ rev \in Seq(Packet) /\ dir \in Seq(Packet)
  BY PrimaryStep, PartTypes, SeqSubset
<1>a. PICK nu \in Seq(UserContents), ns \in Seq(SubkeyContents(k)) : Empty(nu) /\ Empty(ns)
  <2>1. <<>> \in Seq(UserContents) /\ <<>> \in Seq(SubkeyContents(k)) /\ Empty(<<>>)
    BY DEF Empty
  <2> QED BY <2>1, Zenon
<1>b. nu = <<>> /\ ns = <<>>
  BY <1>a DEF Empty
<1> DEFINE G(us, ss) == packetListToStructure(k, Listed(kp, rev, dir, us, ss)) = Made(kp, rev, dir, us, ss)
<1>1. G(nu, ns)
  <2>1. Listed(kp, rev, dir, <<>>, <<>>) = Lead(kp, rev, dir)
    BY <1>0, ListedFacts
  <2> QED BY <1>b, <2>1, ReadsHead
<1>2. \A us \in Seq(UserContents), ss \in Seq(SubkeyContents(k)) : Listed(kp, rev, dir, us, ss) \in Seq(Packet)
  BY <1>0, ListedFacts
<1>c. \A us \in Seq(UserContents), ss \in Seq(SubkeyContents(k)), s \in SubkeyContents(k) :
        SubkeyGrows(kp, rev, dir, us, ss, s)
  BY <1>0, SubkeyListed, Zenon
<1>3. \A us \in Seq(UserContents) : G(us, ns)
  <2> DEFINE T == {us \in Seq(UserContents) : G(us, ns)}
  <2>1. <<>> \in T
    BY <1>1, <1>b
  <2>2. ASSUME NEW us \in Seq(UserContents), NEW u \in UserContents, us \in T PROVE Append(us, u) \in T
    <3>1. Append(us, u) \in Seq(UserContents)
      BY ToSetAppend
    <3>2. PICK l \in Seq(Packet) : l = Listed(kp, rev, dir, us, ns)
      BY <1>2
    <3>3. packetListToStructure(k, l) = Made(kp, rev, dir, us, <<>>)
      BY <1>b, <2>2, <3>2
    <3>4. PICK p \in Named, r \in Seq(CertRevs), s \in Seq(SelfCerts), o \in Seq(OtherCerts) : u = User(p, r, s, o)
      <4>1. u \in [packet : Named, selfCertifications : Seq(SelfCerts), otherCertifications : Seq(OtherCerts),
                   revocationSignatures : Seq(CertRevs)]
        BY PartTypes
      <4> DEFINE R == Seq(CertRevs)
                 S == Seq(SelfCerts)
                 O == Seq(OtherCerts)
      <4>2. u \in [packet : Named, selfCertifications : S, otherCertifications : O, revocationSignatures : R]
        BY <4>1
      <4> HIDE DEF R, S, O
      <4>3. u = User(u.packet, u.revocationSignatures, u.selfCertifications, u.otherCertifications)
        BY <4>2 DEF User
      <4>4. /\ u.packet \in Named /\ u.revocationSignatures \in R /\ u.selfCertifications \in S
            /\ u.otherCertifications \in O
        BY <4>2
      <4> QED BY <4>3, <4>4, Zenon DEF R, S, O
    <3>5. packetListToStructure(k, l \o UserPackets(u)) = Made(kp, rev, dir, Append(us, u), <<>>)
      BY <3>3, <3>4, ReadsUser
    <3>6. Listed(kp, rev, dir, Append(us, u), <<>>) = Listed(kp, rev, dir, us, <<>>) \o UserPackets(u)
      BY <1>0, ListedFacts, ZenonT(80)
    <3> QED BY <1>b, <3>1, <3>2, <3>5, <3>6
  <2> HIDE DEF T
  <2>3. \A us \in Seq(UserContents) : us \in T
    BY <2>1, <2>2, SeqInduction
  <2> QED BY <2>3 DEF T
<1>4. ASSUME NEW us \in Seq(UserContents) PROVE \A ss \in Seq(SubkeyContents(k)) : G(us, ss)
  <2> DEFINE T == {ss \in Seq(SubkeyContents(k)) : G(us, ss)}
  <2>1. <<>> \in T
    BY <1>3, <1>b
  <2>2. ASSUME NEW ss \in Seq(SubkeyContents(k)), NEW s \in SubkeyContents(k), ss \in T PROVE Append(ss, s) \in T
    <3>1. Append(ss, s) \in Seq(SubkeyContents(k))
      BY ToSetAppend
    <3>2. PICK l \in Seq(Packet) : l = Listed(kp, rev, dir, us, ss)
      BY <1>2
    <3>3. packetListToStructure(k, l) = Made(kp, rev, dir, us, ss)
      BY <2>2, <3>2
    <3>4. PICK p \in Subordinates(k), r \in Seq(SubkeyRevs), b \in Seq(Bindings) : s = Subkey(p, r, b)
      <4>1. s \in [packet : Subordinates(k), bindingSignatures : Seq(Bindings), revocationSignatures : Seq(SubkeyRevs)]
        BY PartTypes
      <4> DEFINE P == Subordinates(k)
                 R == Seq(SubkeyRevs)
                 B == Seq(Bindings)
      <4>2. s \in [packet : P, bindingSignatures : B, revocationSignatures : R]
        BY <4>1
      <4> HIDE DEF P, R, B
      <4>3. s = Subkey(s.packet, s.revocationSignatures, s.bindingSignatures)
        BY <4>2 DEF Subkey
      <4>4. s.packet \in P /\ s.revocationSignatures \in R /\ s.bindingSignatures \in B
        BY <4>2
      <4> QED BY <4>3, <4>4, Zenon DEF P, R, B
    <3>5. packetListToStructure(k, l \o SubkeyPackets(s)) = Made(kp, rev, dir, us, Append(ss, s))
      BY <3>3, <3>4, ReadsSubkey
    <3>6. Listed(kp, rev, dir, us, Append(ss, s)) = Listed(kp, rev, dir, us, ss) \o SubkeyPackets(s)
      <4>1. SubkeyGrows(kp, rev, dir, us, ss, s)
        BY <1>c, Zenon
      <4> QED BY <4>1, Zenon DEF SubkeyGrows
    <3> QED BY <3>1, <3>2, <3>5, <3>6
  <2> HIDE DEF T
  <2>3. \A ss \in Seq(SubkeyContents(k)) : ss \in T
    BY <2>1, <2>2, SeqInduction
  <2> QED BY <2>3 DEF T
<1> QED BY <1>4

LEMMA KeyStaysRight == Spec => [](KeyRight /\ ContentsRight)
<1> DEFINE CInv == PacketsRight /\ KeyRight /\ ContentsRight
<1>1. Init => CInv
  BY InitialIInv, EmptySound DEF IInv, Init, ContentsRight
<1>2. CInv /\ [Next]_vars => CInv'
  <2> SUFFICES ASSUME CInv, [Next]_vars PROVE CInv'
    OBVIOUS
  <2>1. CASE UNCHANGED vars
    <3>1. kind' = kind /\ key' = key
      BY <2>1 DEF vars
    <3> QED BY <2>1, <3>1, StutterKeeps DEF ContentsRight
  <2>2. CASE Next
    <3>1. PICK p \in Incoming(Here) : Read(p)
      BY <2>2 DEF Next, Here
    <3>2. PacketsRight' /\ p \in Packet /\ packets' # <<>>
      BY <3>1, ReadKeepsPackets
    <3>3. KeyRight'
      BY <3>1, <3>2, ReadKeepsKey
    <3>4. kind' = kind /\ key' = Step(kind, key, p)
      BY <3>1 DEF Read
    <3>5. Contents(kind, Step(kind, key, p))
      BY <3>2, StepContents DEF ContentsRight, KeyRight
    <3>6. ContentsRight'
      BY <3>4, <3>5 DEF ContentsRight
    <3> QED BY <3>2, <3>3, <3>6
  <2> QED BY <2>1, <2>2
<1> QED BY <1>1, <1>2, PTL DEF Spec

\* Each list of a key object has signatures of its own type only, by the
\* issuer that its name says, and each component a packet of its class,
\* whatever packets the block has and in whatever order
\* (packetListToStructure).
THEOREM ContentsStayRight == Spec => []ContentsRight
BY KeyStaysRight, PTL

\* What is compared of an object, and what is written of it.
LEMMA Structured ==
  ASSUME NEW k, NEW o, o \in Objects(k) \/ (o \in Keys /\ Contents(k, o)), ~o.threw, NEW o2, o2 = Structure(o)
  PROVE  o2 \in Objects(k)
         /\ Has(o2, o.keyPacket, o.revocationSignatures, o.directSignatures, o.users, o.subkeys, FALSE, FALSE)
<1> DEFINE P == Packet
           R == Seq(Revs)
           D == Seq(Directs)
           U == Seq(UserContents)
           S == Seq(SubkeyContents(k))
           I == {{}, mainKeyPacketTags, keyPacketTags}
           O(T) == [keyPacket : P, revocationSignatures : R, directSignatures : D, users : U, subkeys : S,
                    user : BOOLEAN, subkey : BOOLEAN, ignoreUntil : T, threw : BOOLEAN]
<1>1. O({{}}) = Objects(k)
  BY DEF Objects
<1>2. CASE o \in Keys /\ Contents(k, o)
  <2>1. o.revocationSignatures \in R /\ o.directSignatures \in D /\ o.users \in U /\ o.subkeys \in S
    BY <1>2 DEF Contents, Revs, Directs
  <2>2. o \in O(I)
    <3> DEFINE R0 == Seq(Packet)
               U0 == Seq(Users)
               S0 == Seq(Subkeys)
    <3>1. o \in [keyPacket : P, revocationSignatures : R0, directSignatures : R0, users : U0, subkeys : S0,
                 user : BOOLEAN, subkey : BOOLEAN, ignoreUntil : I, threw : BOOLEAN]
      BY <1>2 DEF Keys
    <3> HIDE DEF P, R, D, U, S, I, R0, U0, S0
    <3> QED BY <2>1, <3>1
  <2> HIDE DEF P, R, D, U, S, I
  <2>3. o2 \in O({{}}) /\ Has(o2, o.keyPacket, o.revocationSignatures, o.directSignatures, o.users, o.subkeys, FALSE, FALSE)
    BY <2>2 DEF Structure, Has
  <2> QED BY <1>1, <2>3
<1>3. CASE o \in Objects(k)
  <2>1. o \in O({{}})
    BY <1>1, <1>3
  <2> HIDE DEF P, R, D, U, S, I
  <2>2. o2 \in O({{}}) /\ Has(o2, o.keyPacket, o.revocationSignatures, o.directSignatures, o.users, o.subkeys, FALSE, FALSE)
    BY <2>1 DEF Structure, Has
  <2> QED BY <1>1, <2>2
<1> QED BY <1>2, <1>3

LEMMA WrittenIs ==
  ASSUME NEW o
  PROVE  toPacketList(o) = Listed(o.keyPacket, o.revocationSignatures, o.directSignatures, o.users, o.subkeys)
BY DEF toPacketList, Listed, FlatUsers, FlatSubkeys

\* clone() and armor(): an object that was constructed is read back as it is.
LEMMA ReadBackAlike ==
  ASSUME KeyRight, ContentsRight, Constructed
  PROVE  Structure(packetListToStructure(kind, toPacketList(key))) = Structure(key)
<1>1. PICK kp \in Primaries(kind), rev \in Seq(Revs), dir \in Seq(Directs), us \in Seq(UserContents),
           ss \in Seq(SubkeyContents(kind)) :
        /\ kp = key.keyPacket /\ rev = key.revocationSignatures /\ dir = key.directSignatures
        /\ us = key.users /\ ss = key.subkeys
  BY DEF ContentsRight, Contents, Constructed, Revs, Directs
<1>2. packetListToStructure(kind, toPacketList(key)) = Made(kp, rev, dir, us, ss)
  BY <1>1, WrittenIs, ReadsBack
<1>3. PICK m : m = Made(kp, rev, dir, us, ss)
  OBVIOUS
<1>4. m \in Objects(kind) /\ Has(m, kp, rev, dir, us, ss, us # <<>> /\ ss = <<>>, ss # <<>>)
  BY <1>3, MadeFacts, PrimaryStep
<1>5. m \in Objects(kind) /\ ~m.threw
  BY <1>4 DEF Has
<1>6. PICK a, b : a = Structure(m) /\ b = Structure(key)
  OBVIOUS
<1>7. a \in Objects(kind) /\ Has(a, kp, rev, dir, us, ss, FALSE, FALSE)
  <2>1. a \in Objects(kind)
        /\ Has(a, m.keyPacket, m.revocationSignatures, m.directSignatures, m.users, m.subkeys, FALSE, FALSE)
    BY <1>5, <1>6, Structured
  <2> QED BY <1>4, <2>1 DEF Has
<1>8. b \in Objects(kind) /\ Has(b, kp, rev, dir, us, ss, FALSE, FALSE)
  <2>1. key \in Keys /\ Contents(kind, key) /\ ~key.threw
    BY DEF KeyRight, Sound, ContentsRight, Constructed
  <2>2. b \in Objects(kind)
        /\ Has(b, key.keyPacket, key.revocationSignatures, key.directSignatures, key.users, key.subkeys, FALSE, FALSE)
    BY <1>6, <2>1, Structured
  <2> QED BY <1>1, <2>2 DEF Has
<1>9. a = b
  BY <1>7, <1>8, SameObject
<1> QED BY <1>2, <1>3, <1>6, <1>9

-----------------------------------------------------------------------------
(* The public half *)

\* toPublic: packet by packet; what is no key packet stays as it is.
Pub(s) == [i \in DOMAIN s |-> publicPacket(s[i])]
Plain  == {p \in Packet : p.tag \notin KeyTags \cup SubkeyTags}

LEMMA PublicPackets ==
  ASSUME NEW p \in Packet
  PROVE  /\ publicPacket(p) \in Packet /\ publicPacket(p).ok = p.ok
         /\ p \in Plain => publicPacket(p) = p
         /\ p.tag \in KeyTags => publicPacket(p).tag = "publicKey"
         /\ p.tag \in SubkeyTags => publicPacket(p).tag = "publicSubkey"
<1> DEFINE T == Tags
           Y == SigTypes \cup {"none"}
           R == [pos : Nat, tag : T, ok : BOOLEAN, type : Y, self : BOOLEAN]
           g(t) == CASE t = "secretKey" -> "publicKey" [] t = "secretSubkey" -> "publicSubkey" [] OTHER -> t
<1>1. \A t \in T : g(t) \in T
  BY DEF Tags, KeyTags, SubkeyTags
<1>2. /\ \A t \in T : t \notin KeyTags \cup SubkeyTags => g(t) = t
      /\ \A t \in KeyTags : g(t) = "publicKey"
      /\ \A t \in SubkeyTags : g(t) = "publicSubkey"
  BY DEF KeyTags, SubkeyTags
<1>3. publicPacket(p) = [p EXCEPT !.tag = g(@)]
  BY DEF publicPacket
<1>4. Packet = R
  BY DEF Packet
<1> HIDE DEF T, Y, g
<1>5. PICK t \in T : t = g(p.tag)
  BY <1>1, <1>4
<1>6. PICK q : q = [p EXCEPT !.tag = t]
  OBVIOUS
<1>7. q \in R /\ q.tag = t /\ q.pos = p.pos /\ q.ok = p.ok /\ q.type = p.type /\ q.self = p.self
  BY <1>4, <1>6
<1>8. publicPacket(p) = q
  BY <1>3, <1>5, <1>6
<1>9. ASSUME p \in Plain PROVE q = p
  <2>1. q.tag = p.tag
    BY <1>2, <1>4, <1>5, <1>7, <1>9 DEF Plain
  <2>2. p \in R
    BY <1>4
  <2> QED BY <1>7, <2>1, <2>2
<1> QED BY <1>2, <1>4, <1>5, <1>7, <1>8, <1>9

PubJoins(a, b) == Pub(a \o b) = Pub(a) \o Pub(b)

LEMMA PubFacts ==
  ASSUME NEW a \in Seq(Packet)
  PROVE  /\ Pub(a) \in Seq(Packet) /\ (a \in Seq(Plain) => Pub(a) = a)
         /\ \A b \in Seq(Packet) : PubJoins(a, b)
         /\ \A p \in Packet : Pub(<<p>>) = <<publicPacket(p)>>
<1>1. ASSUME NEW s \in Seq(Packet)
      PROVE  /\ Pub(s) \in Seq(Packet) /\ Len(Pub(s)) = Len(s)
             /\ \A i \in 1 .. Len(s) : Pub(s)[i] = publicPacket(s[i])
  <2>1. PICK n \in Nat : n = Len(s) /\ DOMAIN s = 1 .. n
    OBVIOUS
  <2>2. \A i \in 1 .. n : publicPacket(s[i]) \in Packet
    <3>1. \A i \in 1 .. n : s[i] \in Packet
      BY <2>1
    <3> QED BY <3>1, PublicPackets
  <2>3. PICK f : f = Pub(s)
    OBVIOUS
  <2>4. f = [i \in 1 .. n |-> publicPacket(s[i])]
    BY <2>1, <2>3 DEF Pub
  <2>5. f \in [1 .. n -> Packet]
    BY <2>2, <2>4
  <2>6. f \in Seq(Packet) /\ Len(f) = n
    BY <2>5
  <2> QED BY <2>1, <2>3, <2>4, <2>6
<1>2. ASSUME a \in Seq(Plain) PROVE Pub(a) = a
  <2>1. \A i \in 1 .. Len(a) : a[i] \in Plain /\ a[i] \in Packet
    BY <1>2
  <2>2. \A i \in 1 .. Len(a) : Pub(a)[i] = a[i]
    BY <1>1, <2>1, PublicPackets
  <2> QED BY <1>1, <2>2, SeqEqual
<1>3. ASSUME NEW b \in Seq(Packet) PROVE Pub(a \o b) = Pub(a) \o Pub(b)
  <2>1. PICK c \in Seq(Packet) : c = a \o b
    BY SeqFacts
  <2>2. PICK m \in Nat, n \in Nat : m = Len(a) /\ n = Len(b)
    OBVIOUS
  <2>3. PICK x \in Seq(Packet), y \in Seq(Packet), z \in Seq(Packet) : x = Pub(a) /\ y = Pub(b) /\ z = Pub(c)
    BY <1>1
  <2>4. /\ Len(c) = m + n /\ \A i \in 1 .. (m + n) : c[i] = IF i <= m THEN a[i] ELSE b[i - m]
    BY <2>1, <2>2
  <2>5. /\ Len(x) = m /\ \A i \in 1 .. m : x[i] = publicPacket(a[i])
        /\ Len(y) = n /\ \A i \in 1 .. n : y[i] = publicPacket(b[i])
        /\ Len(z) = m + n /\ \A i \in 1 .. (m + n) : z[i] = publicPacket(c[i])
    BY <1>1, <2>2, <2>3, <2>4, SMTT(60)
  <2>6. PICK w \in Seq(Packet) : w = x \o y
    BY SeqFacts
  <2>7. Len(w) = m + n /\ \A i \in 1 .. (m + n) : w[i] = IF i <= m THEN x[i] ELSE y[i - m]
    BY <2>5, <2>6, SMTT(30)
  <2>8. ASSUME NEW i \in 1 .. (m + n) PROVE z[i] = w[i]
    <3>1. CASE i <= m
      <4>1. i \in 1 .. m
        BY <3>1
      <4> QED BY <2>4, <2>5, <2>7, <3>1, <4>1
    <3>2. CASE ~(i <= m)
      <4>1. i - m \in 1 .. n
        BY <3>2
      <4> QED BY <2>4, <2>5, <2>7, <3>2, <4>1, SMTT(30)
    <3> QED BY <3>1, <3>2
  <2>9. z = w
    BY <2>5, <2>7, <2>8, SeqEqual
  <2> QED BY <2>1, <2>3, <2>6, <2>9
<1>4. ASSUME NEW p \in Packet PROVE Pub(<<p>>) = <<publicPacket(p)>>
  <2>1. publicPacket(p) \in Packet
    BY PublicPackets
  <2>2. PICK s \in Seq(Packet), t \in Seq(Packet) : s = <<p>> /\ t = <<publicPacket(p)>>
    <3>1. <<p>> \in Seq(Packet) /\ <<publicPacket(p)>> \in Seq(Packet)
      BY <2>1, SeqFacts
    <3> QED BY <3>1, Zenon
  <2>3. Len(s) = 1 /\ s[1] = p /\ Len(t) = 1 /\ t[1] = publicPacket(p)
    BY <2>2
  <2>4. Len(Pub(s)) = 1 /\ Pub(s) \in Seq(Packet) /\ \A i \in 1 .. 1 : Pub(s)[i] = t[i]
    BY <1>1, <2>3
  <2>5. Pub(s) = t
    BY <2>3, <2>4, SeqEqual
  <2> QED BY <2>2, <2>5
<1> QED BY <1>1, <1>2, <1>3, <1>4 DEF PubJoins

\* The components of the public half.
LEMMA PublicComponents ==
  ASSUME NEW k
  PROVE  /\ \A u \in UserContents : UserPackets(u) \in Seq(Plain)
         /\ \A kp \in Primaries(k) : publicPacket(kp) \in Primaries("PublicKey")
         /\ \A s \in SubkeyContents(k) :
              \E t \in SubkeyContents("PublicKey") : SubkeyPackets(t) = Pub(SubkeyPackets(s))
<1>1. /\ Revs \subseteq Plain /\ Directs \subseteq Plain /\ CertRevs \subseteq Plain /\ SelfCerts \subseteq Plain
      /\ OtherCerts \subseteq Plain /\ Bindings \subseteq Plain /\ SubkeyRevs \subseteq Plain /\ Named \subseteq Plain
  BY DEF Revs, Directs, CertRevs, SelfCerts, OtherCerts, Bindings, SubkeyRevs, Named, SigsOf, Plain, KeyTags,
         SubkeyTags, UserTags
<1>2. ASSUME NEW u \in UserContents PROVE UserPackets(u) \in Seq(Plain)
  <2>1. /\ u.packet \in Named /\ u.selfCertifications \in Seq(SelfCerts)
        /\ u.otherCertifications \in Seq(OtherCerts) /\ u.revocationSignatures \in Seq(CertRevs)
    BY PartTypes
  <2>2. /\ u.packet \in Plain /\ u.selfCertifications \in Seq(Plain)
        /\ u.otherCertifications \in Seq(Plain) /\ u.revocationSignatures \in Seq(Plain)
    BY <1>1, <2>1, SeqSubset
  <2> QED BY <2>2, ComponentLists
<1>3. ASSUME NEW kp \in Primaries(k) PROVE publicPacket(kp) \in Primaries("PublicKey")
  <2>1. kp \in Packet /\ kp.ok /\ kp.tag \in KeyTags
    BY DEF Primaries
  <2>2. publicPacket(kp) \in Packet /\ publicPacket(kp).ok /\ publicPacket(kp).tag = "publicKey"
    BY <2>1, PublicPackets
  <2> QED BY <2>2 DEF Primaries, disallowedPackets, KeyTags
<1>4. ASSUME NEW s \in SubkeyContents(k)
      PROVE  \E t \in SubkeyContents("PublicKey") : SubkeyPackets(t) = Pub(SubkeyPackets(s))
  <2>1. PICK p \in Subordinates(k), r \in Seq(SubkeyRevs), b \in Seq(Bindings) :
          p = s.packet /\ r = s.revocationSignatures /\ b = s.bindingSignatures
    BY PartTypes
  <2>2. p \in Packet /\ p.ok /\ p.tag \in SubkeyTags
    BY DEF Subordinates
  <2>3. PICK q \in Packet : q = publicPacket(p)
    BY <2>2, PublicPackets
  <2>4. q.ok /\ q.tag = "publicSubkey"
    BY <2>2, <2>3, PublicPackets
  <2>5. q \in Subordinates("PublicKey")
    BY <2>4 DEF Subordinates, disallowedPackets, SubkeyTags
  <2>6. PICK t \in SubkeyContents("PublicKey") : t = Subkey(q, r, b)
    BY <2>5, PartTypes DEF Subkey
  <2>7. /\ r \in Seq(Packet) /\ r \in Seq(Plain) /\ b \in Seq(Packet) /\ b \in Seq(Plain)
        /\ <<p>> \in Seq(Packet)
    BY <1>1, <2>2, PartTypes, SeqSubset, SeqFacts
  <2>8. PICK x \in Seq(Packet), y \in Seq(Packet) : x = <<p>> /\ y = x \o r
    BY <2>7, SeqFacts
  <2>9. Pub(x) = <<q>> /\ Pub(r) = r /\ Pub(b) = b
    BY <2>2, <2>3, <2>7, <2>8, PubFacts
  <2>10. PubJoins(x, r) /\ PubJoins(y, b)
    BY <2>7, PubFacts, Zenon
  <2>11. Pub(y \o b) = (<<q>> \o r) \o b
    BY <2>8, <2>9, <2>10, Zenon DEF PubJoins
  <2>12. SubkeyPackets(s) = y \o b
    BY <2>1, <2>8 DEF SubkeyPackets
  <2>13. SubkeyPackets(t) = (<<q>> \o r) \o b
    BY <2>6 DEF SubkeyPackets, Subkey
  <2> QED BY <2>6, <2>11, <2>12, <2>13
<1> QED BY <1>2, <1>3, <1>4

Halves(tt, ss) == FlatSubkeys(tt) = Pub(FlatSubkeys(ss))

LEMMA PublicSubkeys ==
  ASSUME NEW k
  PROVE  \A ss \in Seq(SubkeyContents(k)) : \E tt \in Seq(SubkeyContents("PublicKey")) : Halves(tt, ss)
<1> DEFINE S == SubkeyContents(k)
           U == SubkeyContents("PublicKey")
           T == {ss \in Seq(S) : \E tt \in Seq(U) : Halves(tt, ss)}
<1>1. \A s \in S : SubkeyPackets(s) \in Seq(Packet)
  BY WrittenComponents
<1>2. \A s \in U : SubkeyPackets(s) \in Seq(Packet)
  BY WrittenComponents
<1>3. \A s \in S : \E t \in U : SubkeyPackets(t) = Pub(SubkeyPackets(s))
  BY PublicComponents
<1>a. /\ FlatSubkeys(<<>>) = <<>>
      /\ \A ss \in Seq(S) : FlatSubkeys(ss) \in Seq(Packet)
      /\ \A ss \in Seq(S), s \in S : FlatSubkeys(Append(ss, s)) = FlatSubkeys(ss) \o SubkeyPackets(s)
  <2> HIDE DEF S
  <2> QED BY <1>1, FlatSubkeysAppend
<1>b. \A ss \in Seq(U), s \in U : FlatSubkeys(Append(ss, s)) = FlatSubkeys(ss) \o SubkeyPackets(s)
  <2> HIDE DEF U
  <2> QED BY <1>2, FlatSubkeysAppend
<1> HIDE DEF S, U
<1>4. <<>> \in T
  <2>1. Pub(<<>>) = <<>>
    BY DEF Pub
  <2>2. Halves(<<>>, <<>>)
    BY <1>a, <2>1 DEF Halves
  <2>3. <<>> \in Seq(S) /\ <<>> \in Seq(U)
    OBVIOUS
  <2> QED BY <2>2, <2>3, Zenon
<1>5. ASSUME NEW ss \in Seq(S), NEW s \in S, ss \in T PROVE Append(ss, s) \in T
  <2>1. PICK tt \in Seq(U) : Halves(tt, ss)
    BY <1>5
  <2>2. PICK t \in U : SubkeyPackets(t) = Pub(SubkeyPackets(s))
    BY <1>3
  <2>3. PICK f \in Seq(Packet), l \in Seq(Packet) : f = FlatSubkeys(ss) /\ l = SubkeyPackets(s)
    BY <1>1, <1>a
  <2>4. PubJoins(f, l)
    BY PubFacts, Zenon
  <2>5. FlatSubkeys(Append(tt, t)) = FlatSubkeys(tt) \o SubkeyPackets(t)
    BY <1>b, Zenon
  <2>6. FlatSubkeys(Append(ss, s)) = f \o l
    BY <1>a, <2>3, Zenon
  <2>7. Halves(Append(tt, t), Append(ss, s))
    BY <2>1, <2>2, <2>3, <2>4, <2>5, <2>6, Zenon DEF Halves, PubJoins
  <2>8. Append(tt, t) \in Seq(U) /\ Append(ss, s) \in Seq(S)
    BY ToSetAppend
  <2> QED BY <2>7, <2>8, Zenon
<1> HIDE DEF T
<1>6. \A ss \in Seq(S) : ss \in T
  BY <1>4, <1>5, SeqInduction
<1> QED BY <1>6 DEF T, S, U

\* The list of the public half is that of an object.
LEMMA PublicHalf ==
  ASSUME NEW k, NEW kp \in Primaries(k), NEW rev \in Seq(Revs), NEW dir \in Seq(Directs),
         NEW us \in Seq(UserContents), NEW ss \in Seq(SubkeyContents(k))
  PROVE  \E tt \in Seq(SubkeyContents("PublicKey")) :
           Pub(Listed(kp, rev, dir, us, ss)) = Listed(publicPacket(kp), rev, dir, us, tt)
<1>1. kp \in Packet
  BY DEF Primaries
<1>2. Revs \subseteq Plain /\ Directs \subseteq Plain /\ Plain \subseteq Packet
  BY DEF Revs, Directs, SigsOf, Plain, KeyTags, SubkeyTags
<1>3. rev \in Seq(Packet) /\ rev \in Seq(Plain) /\ dir \in Seq(Packet) /\ dir \in Seq(Plain)
  BY <1>2, SeqSubset
<1>4. PICK fu \in Seq(Plain) : fu = FlatUsers(us)
  <2>1. \A u \in UserContents : UserPackets(u) \in Seq(Plain)
    BY PublicComponents
  <2> QED BY <2>1, FlatUsersAppend
<1>5. fu \in Seq(Packet)
  BY <1>2, SeqSubset
<1>6. PICK fs \in Seq(Packet) : fs = FlatSubkeys(ss)
  <2>1. \A s \in SubkeyContents(k) : SubkeyPackets(s) \in Seq(Packet)
    BY WrittenComponents
  <2> QED BY <2>1, FlatSubkeysAppend
<1>7. PICK tt \in Seq(SubkeyContents("PublicKey")) : Halves(tt, ss)
  BY PublicSubkeys
<1>8. PICK a \in Seq(Packet), b \in Seq(Packet), c \in Seq(Packet), d \in Seq(Packet) :
        a = <<kp>> /\ b = a \o rev /\ c = b \o dir /\ d = c \o fu
  <2>1. PICK a \in Seq(Packet) : a = <<kp>>
    BY <1>1, <1>3, SeqFacts
  <2>2. PICK b \in Seq(Packet) : b = a \o rev
    BY <1>3, SeqFacts
  <2>3. PICK c \in Seq(Packet) : c = b \o dir
    BY <1>3, SeqFacts
  <2>4. PICK d \in Seq(Packet) : d = c \o fu
    BY <1>5, SeqFacts
  <2> QED BY <2>1, <2>2, <2>3, <2>4, Zenon
<1>9. PubJoins(a, rev) /\ PubJoins(b, dir) /\ PubJoins(c, fu) /\ PubJoins(d, fs)
  BY <1>3, <1>5, PubFacts, Zenon
<1>10. Pub(rev) = rev /\ Pub(dir) = dir /\ Pub(fu) = fu /\ Pub(a) = <<publicPacket(kp)>>
  BY <1>1, <1>3, <1>5, <1>8, PubFacts
<1>11. Pub(d \o fs) = (((<<publicPacket(kp)>> \o rev) \o dir) \o fu) \o Pub(fs)
  BY <1>8, <1>9, <1>10, Zenon DEF PubJoins
<1>12. Listed(kp, rev, dir, us, ss) = d \o fs
  BY <1>4, <1>6, <1>8, Zenon DEF Listed
<1>13. Listed(publicPacket(kp), rev, dir, us, tt) = (((<<publicPacket(kp)>> \o rev) \o dir) \o fu) \o Pub(fs)
  BY <1>4, <1>6, <1>7, Zenon DEF Listed, Halves
<1> QED BY <1>11, <1>12, <1>13

\* toPublic(): what is written of the public half is read as an object of
\* which the same is written.
LEMMA PublicReadsBack ==
  ASSUME ContentsRight, Constructed, NEW pub, pub = packetListToStructure("PublicKey", toPublicList(key))
  PROVE  ~pub.threw /\ toPacketList(pub) = toPublicList(key)
<1>1. PICK kp \in Primaries(kind), rev \in Seq(Revs), dir \in Seq(Directs), us \in Seq(UserContents),
           ss \in Seq(SubkeyContents(kind)) :
        /\ kp = key.keyPacket /\ rev = key.revocationSignatures /\ dir = key.directSignatures
        /\ us = key.users /\ ss = key.subkeys
  BY DEF ContentsRight, Contents, Constructed, Revs, Directs
<1>2. toPublicList(key) = Pub(Listed(kp, rev, dir, us, ss))
  BY <1>1, WrittenIs DEF toPublicList, Pub
<1>3. PICK q \in Primaries("PublicKey") : q = publicPacket(kp)
  BY PublicComponents
<1>4. PICK tt \in Seq(SubkeyContents("PublicKey")) : Pub(Listed(kp, rev, dir, us, ss)) = Listed(q, rev, dir, us, tt)
  BY <1>3, PublicHalf
<1>5. packetListToStructure("PublicKey", Listed(q, rev, dir, us, tt)) = Made(q, rev, dir, us, tt)
  BY ReadsBack
<1>6. pub = Made(q, rev, dir, us, tt)
  BY <1>2, <1>4, <1>5
<1>7. q \in Packet
  BY DEF Primaries
<1>8. Has(pub, q, rev, dir, us, tt, us # <<>> /\ tt = <<>>, tt # <<>>)
  BY <1>6, <1>7, MadeFacts
<1>9. ~pub.threw /\ toPacketList(pub) = Listed(q, rev, dir, us, tt)
  BY <1>8, WrittenIs DEF Has
<1> QED BY <1>2, <1>4, <1>9

\* Writing a key and reading it back loses, moves and invents nothing, nor
\* does writing its public half, for key blocks of any length with their
\* packets in any order, any of them unparseable (packetListToStructure,
\* toPacketList, PrivateKey.toPublic).
THEOREM RoundTripHolds == Spec => []RoundTrip
<1>1. ASSUME TypeOK, KeyRight /\ ContentsRight PROVE RoundTrip
  <2> SUFFICES ASSUME Constructed
               PROVE  /\ Structure(packetListToStructure(kind, toPacketList(key))) = Structure(key)
                      /\ LET pub == packetListToStructure("PublicKey", toPublicList(key))
                         IN  ~pub.threw /\ toPacketList(pub) = toPublicList(key)
    BY <1>1 DEF RoundTrip
  <2> QED BY <1>1, ReadBackAlike, PublicReadsBack
<1> QED BY <1>1, TypeCorrect, KeyStaysRight, PTL
=============================================================================
