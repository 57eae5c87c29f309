----------------------------- MODULE SessionKeys -----------------------------
(***************************************************************************)
(* The session key of an encrypted message: how message.js encrypts it for *)
(* private keys (PKESK packets) and passwords (SKESK packets), recovers    *)
(* candidates for it, and decrypts the data with them.                     *)
(*                                                                         *)
(* A version 4 SKESK has no integrity check: a wrong password that happens *)
(* to decrypt to a known cipher octet is accepted and yields a bogus       *)
(* session key.  Which passwords do is drawn with the salt.                *)
(*                                                                         *)
(* The encrypted data is integrity protected and verified before its       *)
(* packets appear (no config.allowUnauthenticatedStream), so that a bogus  *)
(* session key never decrypts it.                                          *)
(***************************************************************************)
EXTENDS Naturals, FiniteSets

CONSTANTS Slots,          \* the entries of the array of passwords to encrypt with
          Password,       \* the password in each slot
          Guess,          \* a password that the message is not encrypted with
          Empty,          \* the empty password, which `undefined' stands for
          Keys,           \* the private keys of those the message is encrypted to
          Stranger,       \* a private key that it is not encrypted to
          Wildcard,       \* the PKESKs carry key ID 0 instead of the recipients'
          Calls,          \* decrypt and decryptSessionKeys calls on the message
          Overlapping,    \* whether calls are made before earlier ones settle
          CollisionCheck, \* config.passwordCollisionCheck
          AeadProtect,    \* config.aeadProtect: version 5 SKESKs, with integrity check
          ConstantTime,   \* config.constantTimePKCS1Decryption, with RSA keys
          AlgoAccepted,   \* the session key's cipher is one that the recipient accepts
          MaxTries        \* bound: encryption attempts per password

Passwords   == {Password[s] : s \in Slots}
Recipients  == Keys \cup {Stranger}
SessionKey  == {"real", "bogus"}

ASSUME PasswordAssumption == {Empty, Guess} \cap Passwords = {} /\ Empty # Guess /\ MaxTries \in Nat
ASSUME KeyAssumption      == Stranger \notin Keys
ASSUME ConfigAssumption   ==
  {Wildcard, Overlapping, CollisionCheck, AeadProtect, ConstantTime, AlgoAccepted} \subseteq BOOLEAN

VARIABLES enc,      \* per slot, how far encryptPassword is
          skesk,    \* per slot, the SKESK packet made
          pkesk,    \* per key, whether its PKESK packet still has its encrypted data
          sym,      \* the encrypted data packet: its ciphertext and its packets
          call      \* per call, its arguments, candidates and progress

vars == <<enc, skesk, pkesk, sym, call>>
-----------------------------------------------------------------------------
\* under: the password the packet was encrypted with; also: the passwords
\* that happen to decrypt it too; sessionKey: the one last decrypted.
Skesk   == [under : Passwords \cup {Empty}, also : SUBSET (Passwords \cup {Guess}),
            sessionKey : SessionKey \cup {"none"}]
NoSkesk == [under |-> Empty, also |-> {}, sessionKey |-> "none"]

CallRec == [at : {"unused", "esk", "found", "data", "await", "returned", "threw"},
            api : {"decrypt", "decryptSessionKeys"},
            by : {"none", "passwords", "keys", "sessionKeys"},
            passwords : SUBSET (Passwords \cup {Guess}),
            first : Passwords \cup {Guess, Empty},
            skesks : SUBSET Slots,                \* SKESKs that `first' has still to be tried on
            hits : SUBSET Slots,                  \* SKESKs that `first' decrypted
            keys : SUBSET Recipients, locked : SUBSET Recipients,
            todo : SUBSET (Keys \X Recipients),   \* attempts on PKESKs left
            open : SUBSET Keys,                   \* PKESKs that the call has not finished with
            candidates : SUBSET SessionKey,       \* session keys found
            trying : SUBSET SessionKey,           \* data decryptions under way
            result : {"none", "plain", "keys"}]
NoCall == [at |-> "unused", api |-> "decrypt", by |-> "none", passwords |-> {}, first |-> Empty,
           skesks |-> {}, hits |-> {}, keys |-> {}, locked |-> {}, todo |-> {}, open |-> {}, candidates |-> {}, trying |-> {},
           result |-> "none"]

Sent == \A s \in Slots : enc[s].at = "done"

TypeOK == /\ enc \in [Slots -> [at : {"encrypt", "test", "done", "threw"},
                                arg : Passwords \cup {Empty}, tries : 0 .. MaxTries]]
          /\ skesk \in [Slots -> Skesk]
          /\ pkesk \in [Keys -> BOOLEAN]
          /\ sym \in [encrypted : BOOLEAN, packets : {"none", "plain"}]
          /\ call \in [Calls -> CallRec]

\* Message.encryptSessionKey once its PKESKs are made.
Init == /\ enc = [s \in Slots |-> [at |-> "encrypt", arg |-> Password[s], tries |-> 0]]
        /\ skesk = [s \in Slots |-> NoSkesk]
        /\ pkesk = [k \in Keys |-> TRUE]
        /\ sym = [encrypted |-> TRUE, packets |-> "none"]
        /\ call = [c \in Calls |-> NoCall]
-----------------------------------------------------------------------------
(* Encrypting the session key *)

\* SymEncryptedSessionKeyPacket.encrypt with a fresh salt.  A second attempt
\* takes the password for the AEAD algorithm, which version 5 rejects.
Encrypt(s) ==
  /\ enc[s].at = "encrypt" /\ enc[s].tries < MaxTries
  /\ \E also \in SUBSET ((Passwords \cup {Guess}) \ {enc[s].arg}) :
       /\ AeadProtect => also = {}
       /\ skesk' = [skesk EXCEPT ![s] = [under |-> enc[s].arg, also |-> also, sessionKey |-> "none"]]
  /\ enc' = [enc EXCEPT ![s].tries = @ + 1,
                        ![s].at = IF AeadProtect /\ enc[s].tries > 0 THEN "threw"
                                  ELSE IF CollisionCheck THEN "test" ELSE "done"]
  /\ UNCHANGED <<pkesk, sym, call>>

\* The packet must be opened by one entry of the passwords; otherwise
\* encryptPassword(sessionKey, algorithm, password) starts over, its password
\* in the place of the AEAD algorithm and none in the place of the password.
Openers(pkt) == {t \in Slots : Password[t] \in pkt.also \cup {pkt.under}}
TestDecrypt(s) ==
  /\ enc[s].at = "test"
  /\ enc' = IF Cardinality(Openers(skesk[s])) = 1
            THEN [enc EXCEPT ![s].at = "done"]
            ELSE [enc EXCEPT ![s].at = "encrypt", ![s].arg = Empty]
  /\ UNCHANGED <<skesk, pkesk, sym, call>>
-----------------------------------------------------------------------------
(* Recovering session keys: decryptSessionKeys *)

Settled(c) == call[c].at \in {"returned", "threw"}

\* Session keys that passwords ps find when each has its own copy of the SKESKs.
FromPasswords(ps) ==
  {k \in SessionKey : \E s \in Slots : IF k = "real" THEN skesk[s].under \in ps
                                                   ELSE skesk[s].also \cap ps # {}}

\* A call is made: its record starts as rec.
Begin(c, rec) ==
  /\ Sent /\ call[c].at = "unused"
  /\ Overlapping \/ \A d \in Calls : call[d].at = "unused" \/ Settled(d)
  /\ call' = [call EXCEPT ![c] = rec]
  /\ UNCHANGED <<enc, skesk, pkesk, sym>>

\* Every password is tried on every SKESK: the first on the message's own
\* packets, the others on copies.
DecryptWithPasswords(c, api, ps, first) ==
  Begin(c, [NoCall EXCEPT !.at = IF Slots = {} THEN "threw" ELSE "esk", !.api = api,
                          !.by = "passwords", !.passwords = ps, !.first = first, !.skesks = Slots,
                          !.candidates = FromPasswords(ps \ {first})])

\* SymEncryptedSessionKeyPacket.decrypt on a packet of the message.
DecryptSkesk(c, s) ==
  /\ s \in call[c].skesks
  /\ LET found == IF skesk[s].under = call[c].first THEN "real"
                  ELSE IF call[c].first \in skesk[s].also THEN "bogus" ELSE "none"
     IN  /\ skesk' = IF found = "none" THEN skesk ELSE [skesk EXCEPT ![s].sessionKey = found]
         /\ call' = [call EXCEPT ![c].skesks = @ \ {s},
                                 ![c].hits = IF found = "none" THEN @ ELSE @ \cup {s},
                                 ![c].at = IF call[c].skesks = {s} THEN "found" ELSE @]
  /\ UNCHANGED <<enc, pkesk, sym>>

\* Every PKESK is tried with every private key, concurrently.
DecryptWithKeys(c, api, ks, lk) ==
  Begin(c, [NoCall EXCEPT !.at = "esk", !.api = api, !.by = "keys", !.keys = ks, !.locked = lk,
                          !.todo = Keys \X ks, !.open = Keys])

\* decrypt with session keys from an earlier decryptSessionKeys, or wrong ones.
DecryptWithSessionKeys(c, sks) ==
  Begin(c, [NoCall EXCEPT !.at = "data", !.by = "sessionKeys", !.candidates = sks])

\* PublicKeyEncryptedSessionKeyPacket.decrypt with key d, after
\* getDecryptionKeys matched the key ID.  In constant time, a copy of the
\* packet is decrypted once for each supported cipher, with random session
\* keys where that fails.
FromPkesk(k, d) ==
  {x \in SessionKey : IF x = "real" THEN pkesk[k] /\ d = k /\ AlgoAccepted ELSE ConstantTime}

\* getDecryptionKeys: the keys that may have to be tried on PKESK k.
Fits(k, d) == Wildcard \/ d = k

\* A locked key, or serialising a packet whose data is gone, rejects the
\* call; the attempts on other packets go on.
Throws(rec, k, d) == d \in rec.locked \/ (ConstantTime /\ ~pkesk[k])
Attempt(c, k, d) ==
  /\ <<k, d>> \in call[c].todo
  /\ LET rec  == call[c]
         left == [rec EXCEPT !.todo = @ \ {<<k, d>>}]
     IN  call' = [call EXCEPT ![c] =
           IF ~Fits(k, d) THEN left
           ELSE IF Throws(rec, k, d)
           THEN [left EXCEPT !.open = @ \ {k}, !.at = "threw"]
           ELSE [left EXCEPT !.candidates = @ \cup FromPkesk(k, d)]]
  /\ UNCHANGED <<enc, skesk, pkesk, sym>>

\* All attempts on a PKESK succeeded or failed quietly: its data is dropped.
DropPkesk(c, k) ==
  /\ k \in call[c].open /\ \A d \in Recipients : <<k, d>> \notin call[c].todo
  /\ pkesk' = [pkesk EXCEPT ![k] = FALSE]
  /\ call' = [call EXCEPT ![c].open = @ \ {k},
                          ![c].at = IF @ = "esk" /\ call[c].open = {k} THEN "found" ELSE @]
  /\ UNCHANGED <<enc, skesk, sym>>

\* Mutant: a call that finds no session key never settles.
SessionKeysFoundHangs(c) ==
  /\ call[c].at = "found" /\ call[c].candidates \cup {skesk[s].sessionKey : s \in call[c].hits} # {}
  /\ call' = [call EXCEPT ![c].at = "data",
                          ![c].candidates = @ \cup {skesk[s].sessionKey : s \in call[c].hits}]
  /\ UNCHANGED <<enc, skesk, pkesk, sym>>

\* decryptSessionKeys returns the distinct session keys that the packets found hold.
Found(c) == call[c].candidates \cup {skesk[s].sessionKey : s \in call[c].hits}
SessionKeysFound(c) ==
  /\ call[c].at = "found"
  /\ call' = [call EXCEPT ![c] =
       IF Found(c) = {} THEN [@ EXCEPT !.at = "threw"]
       ELSE IF call[c].api = "decrypt" THEN [@ EXCEPT !.at = "data", !.candidates = Found(c)]
       ELSE [@ EXCEPT !.at = "returned", !.candidates = Found(c), !.result = "keys"]]
  /\ UNCHANGED <<enc, skesk, pkesk, sym>>
-----------------------------------------------------------------------------
(* Decrypting the data: Message.decrypt *)

\* Every session key found is tried on the data, concurrently; the ciphertext
\* is dropped as soon as they have started.
DecryptData(c) ==
  /\ call[c].at = "data"
  /\ call' = [call EXCEPT ![c].at = "await",
                          ![c].trying = IF sym.encrypted THEN call[c].candidates ELSE {}]
  /\ sym' = [sym EXCEPT !.encrypted = FALSE]
  /\ UNCHANGED <<enc, skesk, pkesk>>

\* Mutant: a failed decryption empties the packets.
TrySessionKeyEmpties(c, k) ==
  /\ k \in call[c].trying
  /\ call' = [call EXCEPT ![c].trying = @ \ {k}]
  /\ sym' = [sym EXCEPT !.packets = IF k = "real" THEN "plain" ELSE "none"]
  /\ UNCHANGED <<enc, skesk, pkesk>>

\* The decrypt of the encrypted data packet with one session key.
TrySessionKey(c, k) ==
  /\ k \in call[c].trying
  /\ call' = [call EXCEPT ![c].trying = @ \ {k}]
  /\ sym' = IF k = "real" THEN [sym EXCEPT !.packets = "plain"] ELSE sym
  /\ UNCHANGED <<enc, skesk, pkesk>>

\* Mutants: the packets are removed by setting them to null; they stay; an
\* exception of any session key is thrown.
DataDoneWith(c, ok, after) ==
  /\ call[c].at = "await" /\ call[c].trying = {}
  /\ call' = [call EXCEPT ![c].at = IF ok THEN "returned" ELSE "threw",
                          ![c].result = IF ok THEN "plain" ELSE "none"]
  /\ sym' = [sym EXCEPT !.packets = after]
  /\ UNCHANGED <<enc, skesk, pkesk>>
DataDoneNulls(c)  == DataDoneWith(c, sym.packets = "plain", "null")
DataDoneKeeps(c)  == DataDoneWith(c, sym.packets = "plain", sym.packets)
DataDoneThrows(c) == DataDoneWith(c, sym.packets = "plain" /\ "bogus" \notin call[c].candidates, "none")

\* All of them are done: the packets, if any, become the result and are
\* removed from the packet.
DataDone(c) ==
  /\ call[c].at = "await" /\ call[c].trying = {}
  /\ call' = [call EXCEPT ![c].at = IF sym.packets = "plain" THEN "returned" ELSE "threw",
                          ![c].result = sym.packets]
  /\ sym' = [sym EXCEPT !.packets = "none"]
  /\ UNCHANGED <<enc, skesk, pkesk>>
-----------------------------------------------------------------------------
Encryption == \E s \in Slots : Encrypt(s) \/ TestDecrypt(s)
CallStarts(c) ==
  \/ \E api \in {"decrypt", "decryptSessionKeys"} :
       \/ \E ps \in SUBSET (Passwords \cup {Guess}) :
            \E first \in ps : DecryptWithPasswords(c, api, ps, first)
       \/ \E ks \in SUBSET Recipients : \E lk \in SUBSET ks : DecryptWithKeys(c, api, ks, lk)
  \/ \E sks \in SUBSET SessionKey : DecryptWithSessionKeys(c, sks)
CallSteps(c) ==
  \/ \E s \in Slots : DecryptSkesk(c, s)
  \/ \E k \in Keys : DropPkesk(c, k) \/ \E d \in Recipients : Attempt(c, k, d)
  \/ SessionKeysFound(c)
  \/ DecryptData(c)
  \/ \E k \in SessionKey : TrySessionKey(c, k)
  \/ DataDone(c)

Next == Encryption \/ \E c \in Calls : CallStarts(c) \/ CallSteps(c)

Spec == Init /\ [][Next]_vars

\* Promises settle: the promises of a call are resolved as long as some are.
FairSpec == Spec /\ \A c \in Calls : WF_vars(CallSteps(c))
-----------------------------------------------------------------------------
(* Properties *)

\* What a call needs to decrypt the message, as its caller sees it: a
\* password the message was encrypted with, or a recipient's private key with
\* none of the keys that may fit locked, or the session key.
RightSecret(rec) ==
  CASE rec.by = "passwords"   -> rec.passwords \cap Passwords # {}
    [] rec.by = "keys"        -> AlgoAccepted /\ rec.locked = {} /\ rec.keys \cap Keys # {}
    [] rec.by = "sessionKeys" -> "real" \in rec.candidates
    [] OTHER                  -> FALSE

\* What other calls take from the message: its ciphertext, once they have come
\* to the data with some session key; the PKESKs that none of their keys was
\* locked for, whether or not a key fitted; and, while calls overlap, the session
\* key of an SKESK that a wrong password opened by accident.
LockedOut(d, k)  == \E x \in call[d].locked : Fits(k, x)
Consumer(d)      == /\ call[d].api = "decrypt" /\ call[d].at \in {"await", "returned", "threw"}
                    /\ call[d].by # "sessionKeys" => call[d].candidates # {}
                    /\ call[d].by = "keys" => \A k \in Keys : ~LockedOut(d, k)
Dropper(d, k)    == call[d].by = "keys" /\ k \notin call[d].open /\ ~LockedOut(d, k)
Overwriter(d)    == call[d].by = "passwords" /\ \E s \in call[d].hits : skesk[s].under # call[d].first
Forestalls(d, c) ==
  \/ Consumer(d)
  \/ call[c].by = "keys" /\ \E k \in Keys, x \in call[c].keys : Fits(k, x) /\ Dropper(d, k)
  \/ call[c].by = "passwords" /\ Overlapping /\ Overwriter(d)
Forestalled(c)   == \E d \in Calls \ {c} : Forestalls(d, c)

\* A call with the right secret returns, whatever bogus session keys turn up
\* beside the real one and in whatever order the attempts of all calls end,
\* unless another call has taken what it needs by then.  So passwords that open
\* nothing, and keys that are locked, can be tried first, however often; of
\* passwords that open an SKESK by accident, and of wrong keys, that is not
\* true: decrypt then drops the ciphertext, and decryptSessionKeys the encrypted
\* data of every PKESK, also when no key fitted.
RightSecretDecrypts ==
  \A c \in Calls : Settled(c) /\ RightSecret(call[c]) =>
    call[c].at = "returned" \/ Forestalled(c)

\* A call returns the plaintext only if it found the real session key itself,
\* as long as calls do not overlap: what an earlier call decrypted is not
\* left in the packet for a later one (message.js removes the packets).
PlainOnlyWithSecret ==
  \A c \in Calls : call[c].result = "plain" => "real" \in call[c].candidates

\* The plaintext is handed out once, even to overlapping calls: the second
\* finds neither ciphertext nor packets (Message.decrypt).
DeliveredOnce ==
  \A c, d \in Calls : call[c].result = "plain" /\ call[d].result = "plain" => c = d

\* Decrypted packets reach some caller: a concurrent attempt with a bogus
\* session key, or an overlapping call, does not discard them.  And every call
\* settles, also one that finds nothing or meets a locked key.
PlainDelivered ==
  /\ (sym.packets = "plain") ~> (\E c \in Calls : call[c].result = "plain")
  /\ \A c \in Calls : (call[c].at # "unused") ~> Settled(c)

\* "Array of passwords or a single password to encrypt the message": once
\* encrypted, every password has an SKESK of its own that yields the session
\* key.  Message.encryptSessionKey breaks it when a collision makes
\* encryptPassword retry without the password.
EveryPasswordOpens == Sent => \A s \in Slots : \E t \in Slots : skesk[t].under = Password[s]
=============================================================================
