----------------------------- MODULE SecretKeys -----------------------------
(***************************************************************************)
(* Passphrase protection of private keys: the secret key packets of        *)
(* packet/secret_key.js, and the asynchronous calls that lock and unlock   *)
(* them (encryptKey, decryptKey, generateKey, reformatKey of openpgp.js).  *)
(*                                                                         *)
(* JavaScript runs one turn at a time: everything a call does up to its    *)
(* next `await' is one action here, and the turns of several calls, and of *)
(* the several packets of one call (Promise.all), interleave freely.       *)
(*                                                                         *)
(* A key object is a HANDLE; its secret key packets, one per POSITION (the *)
(* primary key and the subkeys), live in a heap slot.  Key.clone() shares  *)
(* the slot, Key.clone(true) copies it.  A call names both the handle of   *)
(* the key it returns and the slot it allocates.                           *)
(***************************************************************************)
EXTENDS Naturals

CONSTANTS Pos,        \* positions of the key packets in a key
          Primary,    \* the position of the primary key
          Pass,       \* passphrases
          NoPass,     \* the empty or missing passphrase
          AeadProtect, \* config.aeadProtect
          Calls,      \* names for the API calls made
          Original,   \* the key that was read before any call
          Null        \* no handle

ASSUME PrimaryAssumption == Primary \in Pos
ASSUME PassAssumption    == NoPass \notin Pass
ASSUME ConfigAssumption  == AeadProtect \in BOOLEAN
ASSUME HandleAssumption  == Original \notin Calls /\ Null \notin Calls \cup {Original}

Handles == Calls \cup {Original}

VARIABLES packets,    \* heap: [Handles -> [Pos -> Packet]]
          owner,      \* the heap slot a handle's packets live in
          call,       \* what each call was asked to do
          status,     \* how far each call is
          task        \* per call, position and passphrase: packet.encrypt / packet.decrypt in flight

vars == <<packets, owner, call, status, task>>

-----------------------------------------------------------------------------
(***************************************************************************)
(* A secret key packet.  keyMaterial is the serialized secret data: absent,*)
(* in the clear, or encrypted under (passphrase, salt, iv); salts and ivs  *)
(* are random, so each is named after the call that drew it.               *)
(***************************************************************************)
NoMaterial == [form |-> "null"]
Clear      == [form |-> "clear"]
Enc(p, s, v) == [form |-> "enc", pass |-> p, salt |-> s, iv |-> v]
Material   == {NoMaterial, Clear} \cup {Enc(p, s, v) : p \in Pass, s \in Handles, v \in Handles}

Packet == [kind        : {"normal", "dummy", "unparseable"},
           isEncrypted : {"null", "true", "false"},
           s2kUsage    : {"none", "sha1", "aead", "weak"},
           keyMaterial : Material,
           privateParams : {"null", "live"},
           salt        : Handles,
           iv          : Handles]

isDummy(pk)     == pk.kind = "dummy"
isDecrypted(pk) == pk.isEncrypted = "false"
isMissingSecretKeyMaterial(pk) == pk.kind \in {"unparseable", "dummy"}

\* What SecretKeyPacket.read() leaves behind, for each form of secret key
\* data: plain, encrypted (SHA-1 or AEAD protected), encrypted with a weak
\* protection (two-byte checksum, unsalted MD5), encrypted in an unsupported
\* way, gnu-dummy.
ReadAs(kind, flag, usage, material, params) ==
  [kind |-> kind, isEncrypted |-> flag, s2kUsage |-> usage, keyMaterial |-> material,
   privateParams |-> params, salt |-> Original, iv |-> Original]
ReadPackets ==
  {ReadAs("normal", "true", usage, Enc(p, Original, Original), "null") :
      usage \in {"sha1", "aead", "weak"}, p \in Pass}
  \cup {ReadAs("normal", "false", "none", Clear, "live"),
        ReadAs("unparseable", "true", "sha1", NoMaterial, "null"),  \* its raw data is kept, never read
        ReadAs("dummy", "null", "sha1", NoMaterial, "null")}

\* SecretKeyPacket.generate()
Generated(c) == [kind |-> "normal", isEncrypted |-> "false", s2kUsage |-> "none",
                 keyMaterial |-> NoMaterial, privateParams |-> "live",
                 salt |-> c, iv |-> c]

\* Mutant of Cleared: the flag still says that the params are there.
ClearedFlagKept(pk) == [pk EXCEPT !.privateParams = "null"]

\* SecretKeyPacket.clearPrivateParams(), on a packet that holds its params
Cleared(pk) == [pk EXCEPT !.privateParams = "null", !.isEncrypted = "true"]

\* PrivateKey.clearPrivateParams(): only the decrypted packets
ClearedKey(key) == [i \in Pos |-> IF isDecrypted(key[i]) THEN Cleared(key[i]) ELSE key[i]]

\* Mutant of Dummied: isEncrypted is deleted instead of set to null.
DummiedUndefined(pk) == [pk EXCEPT !.kind = "dummy", !.isEncrypted = "undefined", !.keyMaterial = NoMaterial,
                                   !.s2kUsage = "sha1", !.privateParams = "null"]

\* SecretKeyPacket.makeDummy()
Dummied(pk) == IF isDummy(pk) THEN pk
               ELSE [pk EXCEPT !.kind = "dummy", !.isEncrypted = "null", !.keyMaterial = NoMaterial,
                               !.s2kUsage = "sha1", !.privateParams = "null"]

\* Mutant of CloneDeep: Key.clone() instead of Key.clone(true).
CloneShallow(c, h) == owner[h]

\* Key.clone(true): the clone's packets are copies, with private params of
\* their own, in the slot that the cloning call c allocates.
CloneDeep(c, h) == c

\* What encrypt() does before its first await, and whether it throws there
EncryptStarts(pk, p)  == ~isDummy(pk) /\ isDecrypted(pk) /\ p # NoPass
EncryptRefuses(pk, p) == ~isDummy(pk) /\ ~(isDecrypted(pk) /\ p # NoPass)
\* Mutant of EncryptPrologue: the S2K specifier of the packet is kept, with its salt.
EncryptPrologueOldSalt(pk, p, c) == pk

EncryptPrologue(pk, p, c) == IF EncryptStarts(pk, p) THEN [pk EXCEPT !.salt = c] ELSE pk

\* What decrypt() does before its first await, and whether it throws there
DecryptRefuses(pk) == \/ pk.kind = "unparseable"
                      \/ isDecrypted(pk)
                      \/ pk.s2kUsage \notin {"sha1", "aead"}

\* What encrypt() and decrypt() assign after their awaits
Derived(pk, v) == [pk EXCEPT !.iv = v, !.s2kUsage = IF AeadProtect THEN "aead" ELSE "sha1"]
Holding(pk, material) == [pk EXCEPT !.keyMaterial = material]
Decrypted(pk) == [pk EXCEPT !.privateParams = "live", !.isEncrypted = "false",
                            !.keyMaterial = NoMaterial, !.s2kUsage = "none"]

\* A passphrase opens a packet when the encrypted material was made with
\* it, with the salt and with the iv that the packet carries.
Opens(pk, p) == pk.keyMaterial = Enc(p, pk.salt, pk.iv)

-----------------------------------------------------------------------------
\* A task keeps what it has drawn or read before an await and uses after it.
Stages == {"none", "kdf", "hash", "cipher", "matched", "wrong", "encrypted", "done", "failed"}
Task   == [at : Stages, salt : Handles, iv : Handles]
At(stage, s) == [at |-> stage, salt |-> s, iv |-> Original]
Idle   == At("none", Original)

Phases == {"unused", "packets", "checked", "primary", "subkeys", "signing", "signed",
           "returned", "threw"}
Args   == Pass \cup {NoPass}
Running(c) == status[c] \notin {"unused", "returned", "threw"}

CallRec == [op : {"none", "encryptKey", "decryptKey", "reformatKey", "generateKey", "revokeKey"},
            pass : [Pos -> Args],    \* encryptKey, reformatKey, generateKey
            passes : SUBSET Pass,    \* decryptKey
            overlaps : BOOLEAN]      \* history: began while another reformatKey used its packets
Asked(op, pass, passes, overlaps) == [op |-> op, pass |-> pass, passes |-> passes, overlaps |-> overlaps]
Nothing(op) == Asked(op, [i \in Pos |-> NoPass], {}, FALSE)
NoCall      == Nothing("none")

\* Types; and a key object that is held, or that a call or a task works on, has packets.
TypeOK == /\ packets \in [Handles -> [Pos -> Packet]]
          /\ owner \in [Handles -> Handles \cup {Null}]
          /\ call \in [Calls -> CallRec]
          /\ status \in [Calls -> Phases]
          /\ task \in [Calls -> [Pos -> [Args -> Task]]]
          /\ owner[Original] # Null
          /\ \A c \in Calls : Running(c) \/ status[c] = "returned" => owner[c] # Null
          /\ \A c \in Calls, i \in Pos, p \in Args : task[c][i][p].at # "none" => owner[c] # Null

NoTasks == [i \in Pos |-> [p \in Args |-> Idle]]

Init == /\ \E key \in [Pos -> ReadPackets] :
              packets = [h \in Handles |-> IF h = Original THEN key ELSE [i \in Pos |-> Generated(h)]]
        /\ owner = [h \in Handles |-> IF h = Original THEN Original ELSE Null]
        /\ call = [c \in Calls |-> NoCall]
        /\ status = [c \in Calls |-> "unused"]
        /\ task = [c \in Calls |-> NoTasks]

\* The keys the application holds: the one it read and those calls returned.
Held(h) == h = Original \/ (h \in Calls /\ status[h] = "returned")

\* A packet.encrypt() up to its first await: it returns at once on a dummy
\* packet, refuses, or has the key derived from a fresh salt.
EncryptTask(pk, p, c, onDummy) == IF isDummy(pk) THEN At(onDummy, c)
                                  ELSE IF EncryptRefuses(pk, p) THEN At("failed", c)
                                  ELSE At("kdf", c)
\* The task of call c on packet i with passphrase p has come to a stage.
Advance(c, i, p, stage) == [task EXCEPT ![c][i][p].at = stage]
-----------------------------------------------------------------------------
(* openpgp.encryptKey *)

\* The call, up to the first await: the key is cloned with its params, and
\* encrypt() is started on every packet.  A dummy packet is left alone.
EncryptKey(c, h, pass) ==
  /\ status[c] = "unused" /\ Held(h)
  /\ LET key == packets[owner[h]]
     IN  /\ packets' = [packets EXCEPT ![CloneDeep(c, h)] =
                          [i \in Pos |-> EncryptPrologue(key[i], pass[i], c)]]
         /\ task' = [task EXCEPT ![c] = [i \in Pos |-> [p \in Args |->
                       IF p = pass[i] THEN EncryptTask(key[i], p, c, "done") ELSE Idle]]]
  /\ owner' = [owner EXCEPT ![c] = CloneDeep(c, h)]
  /\ call' = [call EXCEPT ![c] = Asked("encryptKey", pass, {}, FALSE)]
  /\ status' = [status EXCEPT ![c] = "packets"]

\* Promise.all rejects as soon as one packet refuses; the catch clause
\* clears what the clone still holds.  Other packets may be in flight.
EncryptKeyThrows(c) ==
  /\ call[c].op = "encryptKey" /\ status[c] = "packets"
  /\ \E i \in Pos : task[c][i][call[c].pass[i]].at = "failed"
  /\ packets' = [packets EXCEPT ![owner[c]] = ClearedKey(packets[owner[c]])]
  /\ status' = [status EXCEPT ![c] = "threw"]
  /\ UNCHANGED <<owner, call, task>>

\* keyPacket.clearPrivateParams() after a packet's encrypt() has resolved;
\* it throws when the params are already gone.
EncryptKeyClears(c, i, p) ==
  /\ call[c].op = "encryptKey" /\ task[c][i][p].at = "encrypted"
  /\ IF packets[owner[c]][i].privateParams = "live"
     THEN /\ packets' = [packets EXCEPT ![owner[c]][i] = Cleared(@)]
          /\ task' = Advance(c, i, p, "done")
     ELSE /\ task' = Advance(c, i, p, "failed")
          /\ UNCHANGED packets
  /\ UNCHANGED <<owner, call, status>>

EncryptKeyReturns(c) ==
  /\ call[c].op = "encryptKey" /\ status[c] = "packets"
  /\ \A i \in Pos : task[c][i][call[c].pass[i]].at = "done"
  /\ status' = [status EXCEPT ![c] = "returned"]
  /\ UNCHANGED <<packets, owner, call, task>>
-----------------------------------------------------------------------------
(* packet.encrypt(), after its awaits; on the slot the call works on *)

\* The key derivation is done: a fresh iv, and the protection is recorded.
EncryptDerived(c, i, p) ==
  /\ call[c].op # "decryptKey" /\ task[c][i][p].at = "kdf"
  /\ packets' = [packets EXCEPT ![owner[c]][i] = Derived(@, c)]
  /\ task' = Advance(c, i, p, "hash")
  /\ UNCHANGED <<owner, call, status>>

\* The hash of the params, or the AEAD mode, is there: the cipher is started,
\* with the iv that the packet has by now.
EncryptHashed(c, i, p) ==
  /\ call[c].op # "decryptKey" /\ task[c][i][p].at = "hash"
  /\ task' = [task EXCEPT ![c][i][p] = [@ EXCEPT !.at = "cipher", !.iv = packets[owner[c]][i].iv]]
  /\ UNCHANGED <<packets, owner, call, status>>

\* The cipher is done: the material is encrypted with the salt this call drew
\* and the iv it found.
EncryptCiphered(c, i, p) ==
  /\ call[c].op # "decryptKey" /\ task[c][i][p].at = "cipher"
  /\ packets' = [packets EXCEPT ![owner[c]][i] = Holding(@, Enc(p, task[c][i][p].salt, task[c][i][p].iv))]
  /\ task' = Advance(c, i, p, "encrypted")
  /\ UNCHANGED <<owner, call, status>>
-----------------------------------------------------------------------------
(* openpgp.decryptKey *)

\* The call, up to the first await: clone, and decrypt() is started on every
\* packet with every passphrase.  On a dummy packet it resolves to false.
DecryptKey(c, h, passes) ==
  /\ status[c] = "unused" /\ Held(h)
  /\ LET key == packets[owner[h]]
     IN  /\ packets' = [packets EXCEPT ![CloneDeep(c, h)] = key]
         /\ task' = [task EXCEPT ![c] = [i \in Pos |-> [p \in Args |->
                       IF p \notin passes THEN Idle
                       ELSE IF isDummy(key[i]) THEN At("done", Original)
                       ELSE IF DecryptRefuses(key[i]) THEN At("failed", Original)
                       ELSE At("kdf", key[i].salt)]]]
  /\ owner' = [owner EXCEPT ![c] = CloneDeep(c, h)]
  /\ call' = [call EXCEPT ![c] = Asked("decryptKey", [i \in Pos |-> NoPass], passes, FALSE)]
  /\ status' = [status EXCEPT ![c] = "packets"]

\* The key derivation is done; the material and the iv are read only now.
DecryptDerived(c, i, p) ==
  /\ call[c].op = "decryptKey" /\ task[c][i][p].at = "kdf"
  /\ LET pk == packets[owner[c]][i]
         right == pk.keyMaterial = Enc(p, task[c][i][p].salt, pk.iv)
     IN  task' = Advance(c, i, p, IF right THEN "matched" ELSE "wrong")
  /\ UNCHANGED <<packets, owner, call, status>>

\* The cipher and the hash are done: the params are parsed and installed, or
\* the passphrase was wrong.
DecryptCiphered(c, i, p) ==
  /\ task[c][i][p].at \in {"matched", "wrong"}
  /\ IF task[c][i][p].at = "matched"
     THEN /\ packets' = [packets EXCEPT ![owner[c]][i] = Decrypted(@)]
          /\ task' = Advance(c, i, p, "done")
     ELSE /\ task' = Advance(c, i, p, "failed")
          /\ UNCHANGED packets
  /\ UNCHANGED <<owner, call, status>>

\* Mutants: Promise.race instead of anyPromise; a rejection that is swallowed.
UnlockedByRace(c, i) == \E p \in Pass : task[c][i][p].at \in {"done", "failed"}
NeverGivenUp(c, i)   == FALSE

\* util.anyPromise: a packet is unlocked by the first passphrase that works,
\* and given up when all have failed.
Unlocked(c, i) == \E p \in Pass : task[c][i][p].at = "done"
GivenUp(c, i)  == \A p \in call[c].passes : task[c][i][p].at = "failed"

\* All packets are unlocked; validate() accepts the parameters.
DecryptKeyReturns(c) ==
  /\ call[c].op = "decryptKey" /\ status[c] = "packets"
  /\ \A i \in Pos : Unlocked(c, i)
  /\ status' = [status EXCEPT ![c] = "returned"]
  /\ UNCHANGED <<packets, owner, call, task>>

\* A packet could not be unlocked, or validate() rejects: the catch clause
\* clears the packets decrypted so far.
DecryptKeyThrows(c) ==
  /\ call[c].op = "decryptKey" /\ status[c] = "packets"
  /\ (\E i \in Pos : GivenUp(c, i)) \/ (\A i \in Pos : Unlocked(c, i))
  /\ packets' = [packets EXCEPT ![owner[c]] = ClearedKey(packets[owner[c]])]
  /\ status' = [status EXCEPT ![c] = "threw"]
  /\ UNCHANGED <<owner, call, task>>
-----------------------------------------------------------------------------
(* openpgp.generateKey and openpgp.reformatKey: wrapKeyObject of key/factory.js *)

\* A reformatKey call is at work on the packets of slot s.  Nothing in the
\* code keeps a second one from starting; the record of that call says so.
Reformatting(s) == \E c \in Calls : /\ call[c].op = "reformatKey" /\ owner[c] = s
                                    /\ Running(c) \/ \E i \in Pos, p \in Pass :
                                          task[c][i][p].at \in {"kdf", "hash", "cipher"}

\* The new packets are made; wrapKeyObject runs in a later turn.
GenerateKey(c, pass) ==
  /\ status[c] = "unused"
  /\ call' = [call EXCEPT ![c] = Asked("generateKey", pass, {}, FALSE)]
  /\ packets' = [packets EXCEPT ![c] = [i \in Pos |-> Generated(c)]]
  /\ owner' = [owner EXCEPT ![c] = c]
  /\ status' = [status EXCEPT ![c] = "checked"]
  /\ UNCHANGED task

\* reformat() works on the packets of the key it is given, not on a clone.
\* It refuses a key with a packet that is not decrypted, then awaits the
\* subkey binding signatures.
ReformatKey(c, h, pass) ==
  /\ status[c] = "unused" /\ Held(h)
  /\ call' = [call EXCEPT ![c] = Asked("reformatKey", pass, {}, Reformatting(owner[h]))]
  /\ IF \A i \in Pos : isDecrypted(packets[owner[h]][i])
     THEN /\ owner' = [owner EXCEPT ![c] = owner[h]]
          /\ status' = [status EXCEPT ![c] = "checked"]
     ELSE /\ status' = [status EXCEPT ![c] = "threw"]
          /\ UNCHANGED owner
  /\ UNCHANGED <<packets, task>>

\* encrypt() is started on the packets S that were given a passphrase; the
\* call goes on to phase `next' unless one of them refuses at once.
WrapEncrypts(c, S, next) ==
  LET key == packets[owner[c]]
      pass == call[c].pass
      T == {i \in S : pass[i] # NoPass}
  IN  /\ packets' = [packets EXCEPT ![owner[c]] = [i \in Pos |->
                       IF i \in T THEN EncryptPrologue(key[i], pass[i], c) ELSE key[i]]]
      /\ task' = [task EXCEPT ![c] = [i \in Pos |-> [p \in Args |->
                       IF i \in T /\ p = pass[i] THEN EncryptTask(key[i], p, c, "encrypted")
                       ELSE task[c][i][p]]]]
      /\ status' = [status EXCEPT ![c] =
                       IF \E i \in T : EncryptRefuses(key[i], pass[i]) THEN "threw" ELSE next]
      /\ UNCHANGED <<owner, call>>

\* The packets S that were given a passphrase are encrypted.
WrapEncrypted(c, S) ==
  \A i \in S : call[c].pass[i] # NoPass => task[c][i][call[c].pass[i]].at = "encrypted"

\* wrapKeyObject encrypts the primary key packet, then all the subkeys.
WrapPrimary(c) == status[c] = "checked" /\ WrapEncrypts(c, {Primary}, "primary")
WrapSubkeys(c) == /\ status[c] = "primary" /\ WrapEncrypted(c, {Primary})
                  /\ WrapEncrypts(c, Pos \ {Primary}, "subkeys")

\* It then signs user IDs, subkey bindings and a revocation, with the params
\* still in memory, ...
WrapSign(c) ==
  /\ status[c] = "subkeys" /\ WrapEncrypted(c, Pos)
  /\ status' = [status EXCEPT ![c] = "signing"]
  /\ UNCHANGED <<packets, owner, call, task>>

\* ... which needs a decrypted primary key ...
WrapSigned(c) ==
  /\ status[c] = "signing" /\ isDecrypted(packets[owner[c]][Primary])
  /\ status' = [status EXCEPT ![c] = "signed"]
  /\ UNCHANGED <<packets, owner, call, task>>

\* Mutant of WrapThrows: the params are cleared on the way out.
WrapThrowsClearing(c) ==
  /\ status[c] = "signing"
  /\ packets' = [packets EXCEPT ![owner[c]] = ClearedKey(@)]
  /\ status' = [status EXCEPT ![c] = "threw"]
  /\ UNCHANGED <<owner, call, task>>

\* ... and may be refused for other reasons.  Nothing is undone.
WrapThrows(c) ==
  /\ status[c] = "signing"
  /\ status' = [status EXCEPT ![c] = "threw"]
  /\ UNCHANGED <<packets, owner, call, task>>

\* Last, the packets given a passphrase drop their params.  That throws on
\* a packet that has lost them; on the primary, before any subkey.
WrapReturns(c) ==
  /\ status[c] = "signed"
  /\ LET key == packets[owner[c]]
         locks(i) == call[c].pass[i] # NoPass /\ ~isMissingSecretKeyMaterial(key[i])
         stuck(i) == locks(i) /\ key[i].privateParams = "null"
     IN  /\ packets' = [packets EXCEPT ![owner[c]] = [i \in Pos |->
                          IF locks(i) /\ ~stuck(i) /\ ~stuck(Primary) THEN Cleared(key[i]) ELSE key[i]]]
         /\ status' = [status EXCEPT ![c] = IF \E i \in Pos : stuck(i) THEN "threw" ELSE "returned"]
  /\ UNCHANGED <<owner, call, task>>
-----------------------------------------------------------------------------
(* What the application may do to a key it holds *)

\* openpgp.revokeKey and Key.update return Key.clone(): a new key object on
\* the same packets.
RevokeKey(c, h) ==
  /\ status[c] = "unused" /\ Held(h)
  /\ owner' = [owner EXCEPT ![c] = owner[h]]
  /\ call' = [call EXCEPT ![c] = Nothing("revokeKey")]
  /\ status' = [status EXCEPT ![c] = "returned"]
  /\ UNCHANGED <<packets, task>>

\* PrivateKey.clearPrivateParams()
ClearPrivateParams(h) ==
  /\ Held(h)
  /\ packets' = [packets EXCEPT ![owner[h]] = ClearedKey(packets[owner[h]])]
  /\ UNCHANGED <<owner, call, status, task>>

\* SecretKeyPacket.makeDummy()
MakeDummy(h, i) ==
  /\ Held(h)
  /\ packets' = [packets EXCEPT ![owner[h]][i] = Dummied(packets[owner[h]][i])]
  /\ UNCHANGED <<owner, call, status, task>>

\* SecretKeyPacket.write() on an unprotected packet: it keeps the serialized
\* params it has just made.  On any other packet write() changes nothing.
Write(h, i) ==
  /\ Held(h)
  /\ LET pk == packets[owner[h]][i]
     IN  pk.kind = "normal" /\ pk.s2kUsage = "none" /\ pk.privateParams = "live"
  /\ packets' = [packets EXCEPT ![owner[h]][i] = Holding(@, Clear)]
  /\ UNCHANGED <<owner, call, status, task>>
-----------------------------------------------------------------------------
PassArgs == [Pos -> Args]

EncryptKeyStep(c) == \/ \E h \in Handles, pass \in PassArgs : EncryptKey(c, h, pass)
                     \/ EncryptKeyThrows(c) \/ EncryptKeyReturns(c)
                     \/ \E i \in Pos, p \in Pass : EncryptKeyClears(c, i, p)
DecryptKeyStep(c) == \/ \E h \in Handles, passes \in SUBSET Pass : DecryptKey(c, h, passes)
                     \/ DecryptKeyThrows(c) \/ DecryptKeyReturns(c)
                     \/ \E i \in Pos, p \in Pass : DecryptDerived(c, i, p) \/ DecryptCiphered(c, i, p)
PacketStep(c)     == \E i \in Pos, p \in Pass :
                       EncryptDerived(c, i, p) \/ EncryptHashed(c, i, p) \/ EncryptCiphered(c, i, p)
WrapStep(c)       == \/ \E pass \in PassArgs : GenerateKey(c, pass)
                     \/ \E h \in Handles, pass \in PassArgs : ReformatKey(c, h, pass)
                     \/ WrapPrimary(c) \/ WrapSubkeys(c) \/ WrapSign(c) \/ WrapSigned(c)
                     \/ WrapThrows(c) \/ WrapReturns(c)
Destroy           == \E h \in Handles : ClearPrivateParams(h) \/ \E i \in Pos : MakeDummy(h, i)
UserStep          == \/ Destroy
                     \/ \E h \in Handles, i \in Pos : Write(h, i)
                     \/ \E c \in Calls, h \in Handles : RevokeKey(c, h)

Next == \/ \E c \in Calls : EncryptKeyStep(c) \/ DecryptKeyStep(c) \/ PacketStep(c) \/ WrapStep(c)
        \/ UserStep

Spec == Init /\ [][Next]_vars

\* Key derivation, ciphers and signatures complete, and the event loop runs
\* the continuation of every promise that is settled.
Fairness == \A c \in Calls :
  /\ WF_vars(EncryptKeyThrows(c) \/ EncryptKeyReturns(c))
  /\ WF_vars(DecryptKeyThrows(c) \/ DecryptKeyReturns(c))
  /\ WF_vars(WrapPrimary(c) \/ WrapSubkeys(c) \/ WrapSign(c))
  /\ WF_vars(WrapSigned(c) \/ WrapThrows(c) \/ WrapReturns(c))
  /\ \A i \in Pos, p \in Pass :
       /\ WF_vars(\/ EncryptDerived(c, i, p) \/ EncryptHashed(c, i, p) \/ EncryptCiphered(c, i, p)
                  \/ EncryptKeyClears(c, i, p))
       /\ WF_vars(DecryptDerived(c, i, p) \/ DecryptCiphered(c, i, p))
FairSpec == Spec /\ Fairness
-----------------------------------------------------------------------------
(* Properties *)

FlagMatches(pk) == isDecrypted(pk) <=> pk.privateParams = "live"
FlagsMatch == \A h \in Handles, i \in Pos : FlagMatches(packets[h][i])

\* The fields of a packet have values the code can meet, and a packet says it
\* is decrypted exactly when it holds its private params: signing and
\* decryption test isDecrypted() and then read the params.
ParamsMatchFlag == TypeOK /\ FlagsMatch

\* Two reformatKey calls worked on the packets of slot s at the same time.
Overlapped(s) == \E c \in Calls : owner[c] = s /\ call[c].overlaps

\* The material was stored by a call on the same packets, under the passphrase
\* that this call was given for the packet and with the salt it drew.
StoredFor(s, i) == \E d \in Calls, v \in Handles :
  owner[d] = s /\ call[d].pass[i] # NoPass /\ packets[s][i].keyMaterial = Enc(call[d].pass[i], d, v)

\* A key returned by encryptKey, reformatKey or generateKey is locked: every
\* packet that was given a passphrase has dropped its params, and is stored
\* under a passphrase that was given for it, never in the clear, even where two
\* reformatKey calls overlapped on it.  Where none did, that very passphrase
\* opens it again, with the salt and iv now stored beside it; where two did,
\* the salt or iv may be that of one call and the material that of the other,
\* and no passphrase opens the packet.
LockedKeyOpens ==
  \A c \in Calls : status[c] = "returned" => \A i \in Pos :
    LET pk == packets[owner[c]][i]
    IN  call[c].pass[i] # NoPass /\ ~isDummy(pk) =>
          /\ pk.isEncrypted = "true" /\ pk.privateParams = "null" /\ pk.s2kUsage \in {"sha1", "aead"}
          /\ StoredFor(owner[c], i)
          /\ Overlapped(owner[c]) \/ Opens(pk, call[c].pass[i])

\* The secret of a packet is still there: in memory, or under a passphrase.
Recoverable(pk) == \/ pk.privateParams = "live"
                   \/ /\ pk.kind = "normal" /\ pk.isEncrypted = "true"
                      /\ pk.s2kUsage \in {"sha1", "aead"} /\ \E p \in Pass : Opens(pk, p)

\* No call, however it ends, destroys the secret of a key the application
\* holds; only clearPrivateParams and makeDummy do, and reformatKey calls that
\* overlap on that key (see LockedKeyOpens): those may leave it encrypted
\* so that nothing opens it.  And when decryptKey resolves, every packet of the
\* returned key can be used.
SecretsKept ==
  [][/\ \/ Destroy
        \/ \A h \in Handles, i \in Pos :
             Held(h) /\ Recoverable(packets[owner[h]][i]) =>
               Recoverable(packets'[owner'[h]][i]) \/ Overlapped(owner[h])'
     /\ \A c \in Calls : call[c].op = "decryptKey" /\ status[c] = "packets" /\ status'[c] = "returned" =>
          \A i \in Pos : isDummy(packets'[owner'[c]][i]) \/ packets'[owner'[c]][i].privateParams = "live"]_vars

\* encryptKey and decryptKey work on a clone: no turn of theirs changes a
\* packet of any key the application holds.
InputUntouched ==
  [][(\E c \in Calls : EncryptKeyStep(c) \/ DecryptKeyStep(c)) =>
       \A h \in Handles : Held(h) => packets'[owner[h]] = packets[owner[h]]]_vars

\* Every encryptKey, decryptKey, generateKey and reformatKey call settles, also
\* when passphrases are wrong, packets refuse or the key is cleared meanwhile.
CallsSettle == \A c \in Calls : Running(c) ~> ~Running(c)
=============================================================================
