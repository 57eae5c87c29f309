-------------------------- MODULE SessionKeysProofs --------------------------
(***************************************************************************)
(* Theorems about SessionKeys, for any passwords, keys, calls and          *)
(* configuration.  Of calls that overlap in any way: type correctness, that *)
(* the plaintext is delivered at most once, and that a call with the right *)
(* secret returns unless another has taken what it needs.  Of any number of *)
(* calls that do not overlap: the plaintext is returned only to a call that *)
(* found the session key.  The last two follow from SessionKeysInvariant.  *)
(***************************************************************************)
EXTENDS SessionKeysInvariant, TLAPS

\* The initial state of a call record is one, and so is what each kind of
\* call starts with.
LEMMA StartTypes ==
  /\ NoCall \in CallRec
  /\ \A api \in {"decrypt", "decryptSessionKeys"}, ps \in SUBSET (Passwords \cup {Guess}),
        first \in Passwords \cup {Guess} :
       [NoCall EXCEPT !.at = IF Slots = {} THEN "threw" ELSE "esk", !.api = api,
                      !.by = "passwords", !.passwords = ps, !.first = first, !.skesks = Slots,
                      !.candidates = FromPasswords(ps \ {first})] \in CallRec
  /\ \A api \in {"decrypt", "decryptSessionKeys"}, ks \in SUBSET Recipients, lk \in SUBSET Recipients :
       [NoCall EXCEPT !.at = "esk", !.api = api, !.by = "keys", !.keys = ks, !.locked = lk,
                      !.todo = Keys \X ks, !.open = Keys] \in CallRec
  /\ \A sks \in SUBSET SessionKey :
       [NoCall EXCEPT !.at = "data", !.by = "sessionKeys", !.candidates = sks] \in CallRec
<1>1. \A ps : FromPasswords(ps) \in SUBSET SessionKey
  BY DEF FromPasswords
<1>2. NoCall \in CallRec
  BY DEF NoCall, CallRec
<1>3. ASSUME NEW api \in {"decrypt", "decryptSessionKeys"}, NEW ps \in SUBSET (Passwords \cup {Guess}),
             NEW first \in Passwords \cup {Guess}
      PROVE  [NoCall EXCEPT !.at = IF Slots = {} THEN "threw" ELSE "esk", !.api = api,
                      !.by = "passwords", !.passwords = ps, !.first = first, !.skesks = Slots,
                      !.candidates = FromPasswords(ps \ {first})] \in CallRec
  BY <1>1, ZenonT(40) DEF NoCall, CallRec
<1>4. ASSUME NEW api \in {"decrypt", "decryptSessionKeys"}, NEW ks \in SUBSET Recipients,
             NEW lk \in SUBSET Recipients
      PROVE  [NoCall EXCEPT !.at = "esk", !.api = api, !.by = "keys", !.keys = ks, !.locked = lk,
                      !.todo = Keys \X ks, !.open = Keys] \in CallRec
  <2>1. Keys \X ks \in SUBSET (Keys \X Recipients)
    OBVIOUS
  <2> QED
    BY <2>1, ZenonT(40) DEF NoCall, CallRec
<1>5. ASSUME NEW sks \in SUBSET SessionKey
      PROVE  [NoCall EXCEPT !.at = "data", !.by = "sessionKeys", !.candidates = sks] \in CallRec
  BY DEF NoCall, CallRec
<1> QED
  BY <1>2, <1>3, <1>4, <1>5

\* A step that replaces one call record by another keeps the records typed.
LEMMA CallUpdate ==
  ASSUME TypeOK, NEW c \in Calls, NEW rec \in CallRec
  PROVE  [call EXCEPT ![c] = rec] \in [Calls -> CallRec]
BY DEF TypeOK

\* Starting a call keeps the types.
LEMMA BeginType ==
  ASSUME TypeOK, NEW c \in Calls, NEW rec \in CallRec, Begin(c, rec)
  PROVE  TypeOK'
BY CallUpdate DEF Begin, TypeOK

\* The ways to start a call.
LEMMA CallStartsType ==
  ASSUME TypeOK, NEW c \in Calls, CallStarts(c)
  PROVE  TypeOK'
<1>1. ASSUME NEW api \in {"decrypt", "decryptSessionKeys"},
             NEW ps \in SUBSET (Passwords \cup {Guess}), NEW first \in ps,
             DecryptWithPasswords(c, api, ps, first)
      PROVE  TypeOK'
  <2>1. first \in Passwords \cup {Guess}
    OBVIOUS
  <2> QED
    BY <1>1, <2>1, StartTypes, BeginType DEF DecryptWithPasswords
<1>2. ASSUME NEW api \in {"decrypt", "decryptSessionKeys"}, NEW ks \in SUBSET Recipients,
             NEW lk \in SUBSET ks, DecryptWithKeys(c, api, ks, lk)
      PROVE  TypeOK'
  <2>1. lk \in SUBSET Recipients
    OBVIOUS
  <2> QED
    BY <1>2, <2>1, StartTypes, BeginType DEF DecryptWithKeys
<1>3. ASSUME NEW sks \in SUBSET SessionKey, DecryptWithSessionKeys(c, sks)
      PROVE  TypeOK'
  BY <1>3, StartTypes, BeginType DEF DecryptWithSessionKeys
<1> QED
  BY <1>1, <1>2, <1>3 DEF CallStarts

\* A call record's candidates come from packets that hold a session key: SKESKs
\* are decrypted only once the message is whole, so that no new encryption
\* replaces them.  This is what the types of the records rest on.
HitsHold ==
  \A c \in Calls : call[c] # NoCall =>
    Sent /\ \A s \in call[c].hits : skesk[s].sessionKey \in SessionKey
TypeInv == TypeOK /\ HitsHold

\* The steps of a call under way.
LEMMA CallStepsType ==
  ASSUME TypeInv, NEW c \in Calls, CallSteps(c)
  PROVE  TypeOK'
<1>0. call[c] \in CallRec /\ TypeOK
  BY DEF TypeInv, TypeOK
<1>1. ASSUME NEW s \in Slots, DecryptSkesk(c, s)
      PROVE  TypeOK'
  <2> DEFINE found == IF skesk[s].under = call[c].first THEN "real"
                      ELSE IF call[c].first \in skesk[s].also THEN "bogus" ELSE "none"
             rec == [call[c] EXCEPT !.skesks = @ \ {s},
                                    !.hits = IF found = "none" THEN @ ELSE @ \cup {s},
                                    !.at = IF call[c].skesks = {s} THEN "found" ELSE @]
  <2>1. rec \in CallRec
    BY <1>0, ZenonT(40) DEF CallRec
  <2>2. call' = [call EXCEPT ![c] = rec]
    BY <1>0, <1>1 DEF DecryptSkesk, TypeOK
  <2>3. skesk' \in [Slots -> Skesk]
    <3>1. found \in SessionKey \cup {"none"}
      BY DEF SessionKey
    <3> HIDE DEF found
    <3>2. [skesk EXCEPT ![s].sessionKey = found] \in [Slots -> Skesk]
      BY <1>0, <3>1, SMTT(30) DEF TypeOK, Skesk
    <3> QED
      BY <1>0, <1>1, <3>2 DEF DecryptSkesk, TypeOK, found
  <2>4. UNCHANGED <<enc, pkesk, sym>>
    BY <1>1 DEF DecryptSkesk
  <2> HIDE DEF rec
  <2> QED
    BY <1>0, <2>1, <2>2, <2>3, <2>4, CallUpdate DEF TypeOK
<1>2. ASSUME NEW k \in Keys, DropPkesk(c, k)
      PROVE  TypeOK'
  <2> DEFINE rec == [call[c] EXCEPT !.open = @ \ {k},
                                    !.at = IF @ = "esk" /\ call[c].open = {k} THEN "found" ELSE @]
  <2>1. rec \in CallRec
    BY <1>0, ZenonT(40) DEF CallRec
  <2>2. call' = [call EXCEPT ![c] = rec]
    BY <1>0, <1>2 DEF DropPkesk, TypeOK
  <2>3. pkesk' \in [Keys -> BOOLEAN] /\ UNCHANGED <<enc, skesk, sym>>
    BY <1>0, <1>2 DEF DropPkesk, TypeOK
  <2> HIDE DEF rec
  <2> QED
    BY <1>0, <2>1, <2>2, <2>3, CallUpdate DEF TypeOK
<1>3. ASSUME NEW k \in Keys, NEW d \in Recipients, Attempt(c, k, d)
      PROVE  TypeOK'
  <2> DEFINE left == [call[c] EXCEPT !.todo = @ \ {<<k, d>>}]
  <2>1. left \in CallRec
    BY <1>0 DEF CallRec
  <2>2. [left EXCEPT !.open = @ \ {k}, !.at = "threw"] \in CallRec
    BY <2>1, ZenonT(40) DEF CallRec
  <2>3. [left EXCEPT !.candidates = @ \cup FromPkesk(k, d)] \in CallRec
    <3>1. FromPkesk(k, d) \in SUBSET SessionKey
      BY DEF FromPkesk
    <3> QED
      BY <2>1, <3>1 DEF CallRec
  <2>4. PICK rec \in CallRec : call' = [call EXCEPT ![c] = rec]
    BY <1>3, <2>1, <2>2, <2>3 DEF Attempt
  <2>5. UNCHANGED <<enc, skesk, pkesk, sym>>
    BY <1>3 DEF Attempt
  <2> QED
    BY <1>0, <2>4, <2>5, CallUpdate DEF TypeOK
<1>4. ASSUME SessionKeysFound(c)
      PROVE  TypeOK'
  <2>1. Found(c) \in SUBSET SessionKey
    <3>1. call[c] # NoCall
      BY <1>4 DEF SessionKeysFound, NoCall
    <3>2. \A s \in call[c].hits : skesk[s].sessionKey \in SessionKey
      BY <3>1 DEF TypeInv, HitsHold
    <3>3. call[c].candidates \in SUBSET SessionKey
      BY <1>0 DEF CallRec
    <3> QED
      BY <3>2, <3>3 DEF Found
  <2>2. /\ [call[c] EXCEPT !.at = "threw"] \in CallRec
        /\ [call[c] EXCEPT !.at = "data", !.candidates = Found(c)] \in CallRec
        /\ [call[c] EXCEPT !.at = "returned", !.candidates = Found(c), !.result = "keys"] \in CallRec
    BY <1>0, <2>1, ZenonT(40) DEF CallRec
  <2>3. PICK rec \in CallRec : call' = [call EXCEPT ![c] = rec]
    BY <1>4, <2>2 DEF SessionKeysFound
  <2>4. UNCHANGED <<enc, skesk, pkesk, sym>>
    BY <1>4 DEF SessionKeysFound
  <2> QED
    BY <1>0, <2>3, <2>4, CallUpdate DEF TypeOK
<1>5. ASSUME DecryptData(c)
      PROVE  TypeOK'
  <2> DEFINE rec == [call[c] EXCEPT !.at = "await",
                                    !.trying = IF sym.encrypted THEN call[c].candidates ELSE {}]
  <2>1. rec \in CallRec
    BY <1>0, ZenonT(40) DEF CallRec
  <2>2. call' = [call EXCEPT ![c] = rec]
    BY <1>0, <1>5 DEF DecryptData, TypeOK
  <2>3. sym' \in [encrypted : BOOLEAN, packets : {"none", "plain"}] /\ UNCHANGED <<enc, skesk, pkesk>>
    BY <1>0, <1>5 DEF DecryptData, TypeOK
  <2> HIDE DEF rec
  <2> QED
    BY <1>0, <2>1, <2>2, <2>3, CallUpdate DEF TypeOK
<1>6. ASSUME NEW k \in SessionKey, TrySessionKey(c, k)
      PROVE  TypeOK'
  <2> DEFINE rec == [call[c] EXCEPT !.trying = @ \ {k}]
  <2>1. rec \in CallRec
    BY <1>0 DEF CallRec
  <2>2. call' = [call EXCEPT ![c] = rec]
    BY <1>0, <1>6 DEF TrySessionKey, TypeOK
  <2>3. sym' \in [encrypted : BOOLEAN, packets : {"none", "plain"}] /\ UNCHANGED <<enc, skesk, pkesk>>
    BY <1>0, <1>6 DEF TrySessionKey, TypeOK
  <2> HIDE DEF rec
  <2> QED
    BY <1>0, <2>1, <2>2, <2>3, CallUpdate DEF TypeOK
<1>7. ASSUME DataDone(c)
      PROVE  TypeOK'
  <2> DEFINE rec == [call[c] EXCEPT !.at = IF sym.packets = "plain" THEN "returned" ELSE "threw",
                                    !.result = sym.packets]
  <2>1. rec \in CallRec
    <3>1. sym.packets \in {"none", "plain"}
      BY <1>0 DEF TypeOK
    <3> QED
      BY <1>0, <3>1, ZenonT(80) DEF CallRec
  <2>2. call' = [call EXCEPT ![c] = rec]
    BY <1>0, <1>7 DEF DataDone, TypeOK
  <2>3. sym' \in [encrypted : BOOLEAN, packets : {"none", "plain"}] /\ UNCHANGED <<enc, skesk, pkesk>>
    BY <1>0, <1>7 DEF DataDone, TypeOK
  <2> HIDE DEF rec
  <2> QED
    BY <1>0, <2>1, <2>2, <2>3, CallUpdate DEF TypeOK
<1> QED
  BY <1>1, <1>2, <1>3, <1>4, <1>5, <1>6, <1>7 DEF CallSteps

\* Making the SKESKs keeps the types, and happens only before any call.
LEMMA EncryptionType ==
  ASSUME TypeInv, Encryption
  PROVE  TypeOK' /\ HitsHold' /\ ~Sent /\ UNCHANGED <<pkesk, sym, call>>
<1>0. TypeOK
  BY DEF TypeInv
<1>1. PICK s \in Slots : Encrypt(s) \/ TestDecrypt(s)
  BY DEF Encryption
<1>2. ~Sent /\ UNCHANGED <<pkesk, sym, call>>
  BY <1>1 DEF Sent, Encrypt, TestDecrypt
<1>3. CASE Encrypt(s)
  <2>1. PICK also \in SUBSET (Passwords \cup {Guess}) :
          skesk' = [skesk EXCEPT ![s] = [under |-> enc[s].arg, also |-> also, sessionKey |-> "none"]]
    BY <1>3 DEF Encrypt
  <2>2. enc[s].arg \in Passwords \cup {Empty}
    BY <1>0 DEF TypeOK
  <2>3. skesk' \in [Slots -> Skesk]
    BY <1>0, <2>1, <2>2 DEF TypeOK, Skesk
  <2>4. enc[s].tries \in 0 .. MaxTries /\ enc[s].tries < MaxTries /\ MaxTries \in Nat
    BY <1>0, <1>3, PasswordAssumption DEF TypeOK, Encrypt
  <2>5. enc[s].tries + 1 \in 0 .. MaxTries
    BY <2>4
  <2>6. enc' \in [Slots -> [at : {"encrypt", "test", "done", "threw"},
                            arg : Passwords \cup {Empty}, tries : 0 .. MaxTries]]
    BY <1>0, <1>3, <2>5 DEF TypeOK, Encrypt
  <2> QED
    BY <1>0, <1>2, <2>3, <2>6 DEF TypeOK, TypeInv, HitsHold
<1>4. CASE TestDecrypt(s)
  <2>1. enc' \in [Slots -> [at : {"encrypt", "test", "done", "threw"},
                            arg : Passwords \cup {Empty}, tries : 0 .. MaxTries]]
    BY <1>0, <1>4, ZenonT(80) DEF TypeOK, TestDecrypt
  <2> QED
    BY <1>0, <1>2, <1>4, <2>1 DEF TypeOK, TypeInv, HitsHold, TestDecrypt
<1> QED
  BY <1>1, <1>2, <1>3, <1>4

\* The steps of calls keep HitsHold.
LEMMA CallHits ==
  ASSUME TypeInv, NEW c \in Calls, CallStarts(c) \/ CallSteps(c)
  PROVE  HitsHold'
<1>0. TypeOK /\ HitsHold /\ call[c] \in CallRec
  BY DEF TypeInv, TypeOK
<1>1. CASE CallStarts(c)
  <2>1. PICK rec \in CallRec : Begin(c, rec) /\ rec.hits = {}
    <3>1. NoCall.hits = {} /\ NoCall \in CallRec
      BY StartTypes DEF NoCall
    <3>2. \A api \in {"decrypt", "decryptSessionKeys"}, ps \in SUBSET (Passwords \cup {Guess}) :
            \A first \in ps : DecryptWithPasswords(c, api, ps, first) =>
              \E rec \in CallRec : Begin(c, rec) /\ rec.hits = {}
      <4> SUFFICES ASSUME NEW api \in {"decrypt", "decryptSessionKeys"},
                          NEW ps \in SUBSET (Passwords \cup {Guess}), NEW first \in ps,
                          DecryptWithPasswords(c, api, ps, first)
                   PROVE  \E rec \in CallRec : Begin(c, rec) /\ rec.hits = {}
        OBVIOUS
      <4> DEFINE rec == [NoCall EXCEPT !.at = IF Slots = {} THEN "threw" ELSE "esk", !.api = api,
                          !.by = "passwords", !.passwords = ps, !.first = first, !.skesks = Slots,
                          !.candidates = FromPasswords(ps \ {first})]
      <4>1. rec \in CallRec
        BY StartTypes
      <4>2. Begin(c, rec)
        BY DEF DecryptWithPasswords
      <4>3. rec.hits = {}
        BY <3>1 DEF CallRec
      <4> HIDE DEF rec
      <4> QED
        BY <4>1, <4>2, <4>3
    <3>3. \A api \in {"decrypt", "decryptSessionKeys"}, ks \in SUBSET Recipients :
            \A lk \in SUBSET ks : DecryptWithKeys(c, api, ks, lk) =>
              \E rec \in CallRec : Begin(c, rec) /\ rec.hits = {}
      <4> SUFFICES ASSUME NEW api \in {"decrypt", "decryptSessionKeys"},
                          NEW ks \in SUBSET Recipients, NEW lk \in SUBSET ks,
                          DecryptWithKeys(c, api, ks, lk)
                   PROVE  \E rec \in CallRec : Begin(c, rec) /\ rec.hits = {}
        OBVIOUS
      <4> DEFINE rec == [NoCall EXCEPT !.at = "esk", !.api = api, !.by = "keys", !.keys = ks,
                          !.locked = lk, !.todo = Keys \X ks, !.open = Keys]
      <4>1. rec \in CallRec
        BY StartTypes
      <4>2. Begin(c, rec)
        BY DEF DecryptWithKeys
      <4>3. rec.hits = {}
        BY <3>1 DEF CallRec
      <4> HIDE DEF rec
      <4> QED
        BY <4>1, <4>2, <4>3
    <3>4. \A sks \in SUBSET SessionKey : DecryptWithSessionKeys(c, sks) =>
              \E rec \in CallRec : Begin(c, rec) /\ rec.hits = {}
      <4> SUFFICES ASSUME NEW sks \in SUBSET SessionKey, DecryptWithSessionKeys(c, sks)
                   PROVE  \E rec \in CallRec : Begin(c, rec) /\ rec.hits = {}
        OBVIOUS
      <4> DEFINE rec == [NoCall EXCEPT !.at = "data", !.by = "sessionKeys", !.candidates = sks]
      <4>1. rec \in CallRec
        BY StartTypes
      <4>2. Begin(c, rec)
        BY DEF DecryptWithSessionKeys
      <4>3. rec.hits = {}
        BY <3>1 DEF CallRec
      <4> HIDE DEF rec
      <4> QED
        BY <4>1, <4>2, <4>3
    <3> QED
      BY <1>1, <3>2, <3>3, <3>4 DEF CallStarts
  <2>2. Sent /\ UNCHANGED <<enc, skesk>>
    BY <2>1 DEF Begin
  <2>3. \A d \in Calls : d # c => call'[d] = call[d]
    BY <1>0, <2>1 DEF Begin, TypeOK
  <2>4. call'[c].hits = {}
    BY <1>0, <2>1 DEF Begin, TypeOK
  <2>5. Sent'
    BY <2>2 DEF Sent
  <2>6. ASSUME NEW d \in Calls, call'[d] # NoCall
        PROVE  \A s \in call'[d].hits : skesk'[s].sessionKey \in SessionKey
    <3>1. CASE d = c
      BY <2>4, <3>1
    <3>2. CASE d # c
      BY <1>0, <2>2, <2>3, <2>6, <3>2 DEF HitsHold
    <3> QED
      BY <3>1, <3>2
  <2> QED
    BY <2>5, <2>6 DEF HitsHold
<1>2. CASE CallSteps(c)
  <2>1. call[c] # NoCall
    <3>1. /\ NoCall.at = "unused" /\ NoCall.skesks = {} /\ NoCall.todo = {}
          /\ NoCall.open = {} /\ NoCall.trying = {}
      BY DEF NoCall
    <3> QED
      BY <1>2, <3>1 DEF CallSteps, DecryptSkesk, DropPkesk, Attempt, SessionKeysFound, DecryptData,
                        TrySessionKey, DataDone
  <2>2. Sent /\ \A s \in call[c].hits : skesk[s].sessionKey \in SessionKey
    BY <1>0, <2>1 DEF HitsHold
  <2>3. UNCHANGED enc /\ \A d \in Calls : d # c => call'[d] = call[d]
    BY <1>0, <1>2, ZenonT(40) DEF TypeOK, CallSteps, DecryptSkesk, DropPkesk, Attempt, SessionKeysFound,
                      DecryptData, TrySessionKey, DataDone
  <2>4. CASE \E s \in Slots : DecryptSkesk(c, s)
    <3>1. PICK s \in Slots : DecryptSkesk(c, s)
      BY <2>4
    <3> DEFINE found == IF skesk[s].under = call[c].first THEN "real"
                        ELSE IF call[c].first \in skesk[s].also THEN "bogus" ELSE "none"
    <3>2. /\ skesk' = IF found = "none" THEN skesk ELSE [skesk EXCEPT ![s].sessionKey = found]
          /\ call'[c].hits = IF found = "none" THEN call[c].hits ELSE call[c].hits \cup {s}
      BY <1>0, <3>1 DEF DecryptSkesk, TypeOK, CallRec
    <3>3. found \in SessionKey \cup {"none"}
      BY DEF SessionKey
    <3> HIDE DEF found
    <3>4. \A t \in Slots : skesk[t].sessionKey \in SessionKey => skesk'[t].sessionKey \in SessionKey
      BY <1>0, <3>2, <3>3 DEF TypeOK, Skesk
    <3>5. found # "none" => skesk'[s].sessionKey \in SessionKey
      BY <1>0, <3>2, <3>3 DEF TypeOK, Skesk
    <3>6. \A d \in Calls : call[d].hits \subseteq Slots
      BY <1>0 DEF TypeOK, CallRec
    <3>7. \A t \in call'[c].hits : skesk'[t].sessionKey \in SessionKey
      BY <2>2, <3>2, <3>4, <3>5, <3>6
    <3>8. ASSUME NEW d \in Calls, call'[d] # NoCall
          PROVE  Sent' /\ \A t \in call'[d].hits : skesk'[t].sessionKey \in SessionKey
      BY <1>0, <2>2, <2>3, <3>4, <3>6, <3>7, <3>8 DEF HitsHold, Sent
    <3> QED
      BY <3>8 DEF HitsHold
  <2>5. CASE ~(\E s \in Slots : DecryptSkesk(c, s))
    <3>1. UNCHANGED skesk
      BY <1>2, <2>5 DEF CallSteps, DropPkesk, Attempt, SessionKeysFound,
                        DecryptData, TrySessionKey, DataDone
    <3>2. call'[c].hits = call[c].hits
      <4>1. ASSUME NEW k \in Keys, DropPkesk(c, k) PROVE call'[c].hits = call[c].hits
        BY <1>0, <4>1 DEF DropPkesk, TypeOK, CallRec
      <4>2. ASSUME NEW k \in Keys, NEW d \in Recipients, Attempt(c, k, d)
            PROVE  call'[c].hits = call[c].hits
        BY <1>0, <4>2 DEF Attempt, TypeOK, CallRec
      <4>3. ASSUME SessionKeysFound(c) PROVE call'[c].hits = call[c].hits
        BY <1>0, <4>3 DEF SessionKeysFound, TypeOK, CallRec
      <4>4. ASSUME DecryptData(c) PROVE call'[c].hits = call[c].hits
        BY <1>0, <4>4 DEF DecryptData, TypeOK, CallRec
      <4>5. ASSUME NEW k \in SessionKey, TrySessionKey(c, k) PROVE call'[c].hits = call[c].hits
        BY <1>0, <4>5 DEF TrySessionKey, TypeOK, CallRec
      <4>6. ASSUME DataDone(c) PROVE call'[c].hits = call[c].hits
        BY <1>0, <4>6 DEF DataDone, TypeOK, CallRec
      <4> QED
        BY <1>2, <2>5, <4>1, <4>2, <4>3, <4>4, <4>5, <4>6 DEF CallSteps
    <3> QED
      BY <1>0, <2>2, <2>3, <3>1, <3>2 DEF HitsHold, Sent
  <2> QED
    BY <2>4, <2>5
<1> QED
  BY <1>1, <1>2

\* The initial state satisfies the type invariant.
LEMMA InitType == Init => TypeInv
<1> SUFFICES ASSUME Init PROVE TypeInv
  OBVIOUS
<1>1. 0 \in 0 .. MaxTries
  BY PasswordAssumption
<1>2. enc \in [Slots -> [at : {"encrypt", "test", "done", "threw"},
                         arg : Passwords \cup {Empty}, tries : 0 .. MaxTries]]
  BY <1>1 DEF Init, Passwords
<1>3. skesk \in [Slots -> Skesk]
  BY DEF Init, Skesk, NoSkesk
<1>4. call \in [Calls -> CallRec] /\ HitsHold
  BY StartTypes DEF Init, HitsHold
<1> QED
  BY <1>2, <1>3, <1>4 DEF Init, TypeInv, TypeOK

\* Every step keeps the type invariant.
LEMMA NextType == TypeInv /\ [Next]_vars => TypeInv'
<1> SUFFICES ASSUME TypeInv, [Next]_vars PROVE TypeInv'
  OBVIOUS
<1>1. CASE Encryption
  BY <1>1, EncryptionType DEF TypeInv
<1>2. ASSUME NEW c \in Calls, CallStarts(c) PROVE TypeInv'
  BY <1>2, CallStartsType, CallHits DEF TypeInv
<1>3. ASSUME NEW c \in Calls, CallSteps(c) PROVE TypeInv'
  BY <1>3, CallStepsType, CallHits DEF TypeInv
<1>4. CASE UNCHANGED vars
  BY <1>4 DEF vars, TypeInv, TypeOK, HitsHold, Sent
<1> QED
  BY <1>1, <1>2, <1>3, <1>4 DEF Next

\* Type correctness of the session key model, for every instance: the session
\* keys that decryptSessionKeys returns were really decrypted from a packet.
THEOREM TypeCorrect == Spec => []TypeOK
<1>1. TypeInv => TypeOK
  BY DEF TypeInv
<1> QED
  BY <1>1, InitType, NextType, PTL DEF Spec
-----------------------------------------------------------------------------
(* The plaintext is delivered once. *)

\* Where the plaintext can be: with a call that tries the real session key, in
\* the encrypted data packet, or with the caller it was returned to.
Trying(c)   == "real" \in call[c].trying
InPacket    == sym.packets = "plain"
Returned(c) == call[c].result = "plain"

\* At most one of these at a time, and none while there is ciphertext.
OnePlace ==
  /\ \A c, d \in Calls : Trying(c) /\ Trying(d) => c = d
  /\ \A c \in Calls : Trying(c) => ~InPacket
  /\ \A c, d \in Calls : Trying(c) => ~Returned(d)
  /\ \A c \in Calls : InPacket => ~Returned(c)
  /\ DeliveredOnce
  /\ sym.encrypted => ~InPacket /\ \A c \in Calls : ~Trying(c) /\ ~Returned(c)

\* What the steps of a call do with the plaintext: nothing; take up the
\* ciphertext; decrypt it into the packet; return what is in the packet.
Idle(c)     == (Trying(c)' => Trying(c)) /\ (Returned(c)' => Returned(c)) /\ UNCHANGED sym
TakesUp(c)  == (Trying(c)' => sym.encrypted) /\ (Returned(c)' => Returned(c))
               /\ sym'.packets = sym.packets /\ ~sym'.encrypted
Decrypts(c) == Trying(c) /\ ~Trying(c)' /\ (Returned(c)' => Returned(c))
               /\ InPacket' /\ sym'.encrypted = sym.encrypted
Returns(c)  == (Trying(c)' => Trying(c)) /\ (Returned(c)' => InPacket)
               /\ ~InPacket' /\ sym'.encrypted = sym.encrypted

\* Every step of a call is one of these, and leaves the other calls alone.
LEMMA PlaceMoves ==
  ASSUME TypeInv, NEW c \in Calls, CallSteps(c)
  PROVE  /\ \A d \in Calls : d # c => /\ Trying(d)' <=> Trying(d)
                                      /\ Returned(d)' <=> Returned(d)
         /\ Idle(c) \/ TakesUp(c) \/ Decrypts(c) \/ Returns(c)
<1>0. TypeOK /\ call[c] \in CallRec
  BY DEF TypeInv, TypeOK
<1>1. \A d \in Calls : d # c => call'[d] = call[d]
  BY <1>0, ZenonT(40) DEF TypeOK, CallSteps, DecryptSkesk, DropPkesk, Attempt, SessionKeysFound,
              DecryptData, TrySessionKey, DataDone
<1>2. \A d \in Calls : d # c => /\ Trying(d)' <=> Trying(d)
                                /\ Returned(d)' <=> Returned(d)
  BY <1>1 DEF Trying, Returned
<1>3. ASSUME NEW s \in Slots, DecryptSkesk(c, s) PROVE Idle(c)
  BY <1>0, <1>3 DEF DecryptSkesk, TypeOK, CallRec, Trying, Returned, Idle
<1>4. ASSUME NEW k \in Keys, DropPkesk(c, k) PROVE Idle(c)
  BY <1>0, <1>4 DEF DropPkesk, TypeOK, CallRec, Trying, Returned, Idle
<1>5. ASSUME NEW k \in Keys, NEW d \in Recipients, Attempt(c, k, d) PROVE Idle(c)
  BY <1>0, <1>5 DEF Attempt, TypeOK, CallRec, Trying, Returned, Idle
<1>6. ASSUME SessionKeysFound(c) PROVE Idle(c)
  BY <1>0, <1>6 DEF SessionKeysFound, TypeOK, CallRec, Trying, Returned, Idle
<1>7. ASSUME DecryptData(c) PROVE TakesUp(c)
  BY <1>0, <1>7 DEF DecryptData, TypeOK, CallRec, Trying, Returned, TakesUp
<1>8. ASSUME NEW k \in SessionKey, TrySessionKey(c, k) PROVE Idle(c) \/ Decrypts(c)
  <2>1. CASE k = "real"
    BY <1>0, <1>8, <2>1 DEF TrySessionKey, TypeOK, CallRec, Trying, Returned, InPacket, Decrypts
  <2>2. CASE k # "real"
    BY <1>0, <1>8, <2>2 DEF TrySessionKey, TypeOK, CallRec, Trying, Returned, Idle
  <2> QED
    BY <2>1, <2>2
<1>9. ASSUME DataDone(c) PROVE Returns(c)
  BY <1>0, <1>9 DEF DataDone, TypeOK, CallRec, Trying, Returned, InPacket, Returns
<1> QED
  BY <1>2, <1>3, <1>4, <1>5, <1>6, <1>7, <1>8, <1>9 DEF CallSteps

\* A new call starts without the plaintext.
LEMMA BeginIdle ==
  ASSUME TypeInv, NEW c \in Calls, CallStarts(c)
  PROVE  /\ \A d \in Calls : d # c => /\ Trying(d)' <=> Trying(d)
                                      /\ Returned(d)' <=> Returned(d)
         /\ ~Trying(c)' /\ ~Returned(c)' /\ UNCHANGED sym
<1>0. TypeOK
  BY DEF TypeInv
<1>1. \A d \in Calls : d # c => call'[d] = call[d]
  BY <1>0, ZenonT(40) DEF TypeOK, CallStarts, DecryptWithPasswords, DecryptWithKeys, DecryptWithSessionKeys, Begin
<1>2. UNCHANGED sym
  BY DEF CallStarts, DecryptWithPasswords, DecryptWithKeys, DecryptWithSessionKeys, Begin
<1>3. call'[c].trying = {} /\ call'[c].result = "none"
  <2>1. ASSUME NEW api, NEW ps, NEW first, DecryptWithPasswords(c, api, ps, first)
        PROVE  call'[c].trying = {} /\ call'[c].result = "none"
    BY <1>0, <2>1 DEF TypeOK, DecryptWithPasswords, Begin, NoCall
  <2>2. ASSUME NEW api, NEW ks, NEW lk, DecryptWithKeys(c, api, ks, lk)
        PROVE  call'[c].trying = {} /\ call'[c].result = "none"
    BY <1>0, <2>2 DEF TypeOK, DecryptWithKeys, Begin, NoCall
  <2>3. ASSUME NEW sks, DecryptWithSessionKeys(c, sks)
        PROVE  call'[c].trying = {} /\ call'[c].result = "none"
    BY <1>0, <2>3 DEF TypeOK, DecryptWithSessionKeys, Begin, NoCall
  <2> QED
    BY <2>1, <2>2, <2>3 DEF CallStarts
<1> QED
  BY <1>1, <1>2, <1>3 DEF Trying, Returned

\* Every step keeps the plaintext in at most one place.
LEMMA NextOnePlace == TypeInv /\ OnePlace /\ [Next]_vars => OnePlace'
<1> SUFFICES ASSUME TypeInv, OnePlace, [Next]_vars PROVE OnePlace'
  OBVIOUS
<1> USE DEF DeliveredOnce
<1>0. OnePlace <=> /\ \A c, d \in Calls : Trying(c) /\ Trying(d) => c = d
                   /\ \A c \in Calls : Trying(c) => ~InPacket
                   /\ \A c, d \in Calls : Trying(c) => ~Returned(d)
                   /\ \A c \in Calls : InPacket => ~Returned(c)
                   /\ \A c, d \in Calls : Returned(c) /\ Returned(d) => c = d
                   /\ sym.encrypted => ~InPacket /\ \A c \in Calls : ~Trying(c) /\ ~Returned(c)
  BY DEF OnePlace, Returned
<1>1. CASE Encryption
  BY <1>1, EncryptionType DEF OnePlace, Trying, InPacket, Returned
<1>2. ASSUME NEW c \in Calls, CallStarts(c) PROVE OnePlace'
  BY <1>2, <1>0, BeginIdle DEF OnePlace, InPacket, Returned
<1>3. ASSUME NEW c \in Calls, CallSteps(c) PROVE OnePlace'
  <2>1. CASE Idle(c)
    BY <1>3, <2>1, PlaceMoves DEF OnePlace, Idle, InPacket, Returned
  <2>2. CASE TakesUp(c)
    BY <1>3, <2>2, PlaceMoves DEF OnePlace, TakesUp, InPacket, Returned
  <2>3. CASE Decrypts(c)
    BY <1>3, <2>3, PlaceMoves DEF OnePlace, Decrypts, InPacket, Returned
  <2>4. CASE Returns(c)
    BY <1>3, <2>4, PlaceMoves DEF OnePlace, Returns, InPacket, Returned
  <2> QED
    BY <1>3, <2>1, <2>2, <2>3, <2>4, PlaceMoves
<1>4. CASE UNCHANGED vars
  BY <1>4 DEF vars, OnePlace, Trying, InPacket, Returned
<1> QED
  BY <1>1, <1>2, <1>3, <1>4 DEF Next

\* The plaintext of a message is handed out at most once, for any number of
\* calls, overlapping or not, with any secrets and any configuration
\* (Message.decrypt drops the ciphertext when it starts and the packets when
\* it returns).
THEOREM PlainDeliveredOnce == Spec => []DeliveredOnce
<1>1. Init => OnePlace
  BY DEF Init, NoCall, OnePlace, Trying, InPacket, Returned, DeliveredOnce
<1>2. OnePlace => DeliveredOnce
  BY DEF OnePlace
<1> QED
  BY <1>1, <1>2, InitType, NextType, NextOnePlace, PTL DEF Spec

-----------------------------------------------------------------------------
(* What each step does to the record of its call *)

\* The fields that are set when a call is made, and what no call changes.
Kept(c) ==
  /\ call'[c].by = call[c].by /\ call'[c].passwords = call[c].passwords /\ call'[c].first = call[c].first
  /\ call'[c].keys = call[c].keys /\ call'[c].locked = call[c].locked /\ call'[c].api = call[c].api
  /\ \A d \in Calls : d # c => call'[d] = call[d]
  /\ UNCHANGED enc
SameTries(c)  == /\ call'[c].skesks = call[c].skesks /\ call'[c].hits = call[c].hits
                 /\ call'[c].todo = call[c].todo /\ call'[c].open = call[c].open
SameResult(c) == call'[c].trying = call[c].trying /\ call'[c].result = call[c].result

LEMMA SkeskFields ==
  ASSUME TypeOK, NEW c \in Calls, NEW s \in Slots, DecryptSkesk(c, s)
  PROVE  /\ Kept(c) /\ SameResult(c) /\ UNCHANGED <<pkesk, sym>>
         /\ s \in call[c].skesks /\ call'[c].skesks = call[c].skesks \ {s}
         /\ call'[c].todo = call[c].todo /\ call'[c].open = call[c].open
         /\ call'[c].candidates = call[c].candidates
         /\ call'[c].at = IF call[c].skesks = {s} THEN "found" ELSE call[c].at
         /\ \A t \in Slots : skesk'[t].under = skesk[t].under /\ (t # s => skesk'[t] = skesk[t])
         /\ call'[c].hits \subseteq call[c].hits \cup {s} /\ call[c].hits \subseteq call'[c].hits
         /\ skesk[s].under = call[c].first => s \in call'[c].hits /\ skesk'[s].sessionKey = "real"
         /\ skesk' = skesk \/ s \in call'[c].hits
<1>1. call[c] \in CallRec /\ skesk \in [Slots -> Skesk] /\ \A t \in Slots : skesk[t] \in Skesk
  BY DEF TypeOK
<1> DEFINE found == IF skesk[s].under = call[c].first THEN "real"
                    ELSE IF call[c].first \in skesk[s].also THEN "bogus" ELSE "none"
           rec == [call[c] EXCEPT !.skesks = @ \ {s},
                                  !.hits = IF found = "none" THEN @ ELSE @ \cup {s},
                                  !.at = IF call[c].skesks = {s} THEN "found" ELSE @]
<1>2. /\ call' = [call EXCEPT ![c] = rec]
      /\ skesk' = IF found = "none" THEN skesk ELSE [skesk EXCEPT ![s].sessionKey = found]
      /\ s \in call[c].skesks /\ UNCHANGED <<enc, pkesk, sym>>
  BY DEF DecryptSkesk, TypeOK
<1>3. call'[c] = rec /\ \A d \in Calls : d # c => call'[d] = call[d]
  BY <1>2 DEF TypeOK
<1>4. Kept(c) /\ SameResult(c)
  BY <1>1, <1>2, <1>3 DEF Kept, SameResult, CallRec
<1>5. /\ call'[c].skesks = call[c].skesks \ {s}
      /\ call'[c].todo = call[c].todo /\ call'[c].open = call[c].open
      /\ call'[c].candidates = call[c].candidates
      /\ call'[c].at = IF call[c].skesks = {s} THEN "found" ELSE call[c].at
      /\ call'[c].hits = IF found = "none" THEN call[c].hits ELSE call[c].hits \cup {s}
  BY <1>1, <1>3 DEF CallRec
<1> HIDE DEF rec
<1>6. /\ \A t \in Slots : skesk'[t].under = skesk[t].under /\ (t # s => skesk'[t] = skesk[t])
      /\ found # "none" => skesk'[s].sessionKey = found
  <2> HIDE DEF found
  <2> QED BY <1>1, <1>2 DEF Skesk
<1> QED BY <1>2, <1>4, <1>5, <1>6

LEMMA AttemptFields ==
  ASSUME TypeOK, NEW c \in Calls, NEW k \in Keys, NEW x \in Recipients, Attempt(c, k, x)
  PROVE  /\ Kept(c) /\ SameResult(c) /\ UNCHANGED <<skesk, pkesk, sym>>
         /\ call'[c].skesks = call[c].skesks /\ call'[c].hits = call[c].hits
         /\ <<k, x>> \in call[c].todo /\ call'[c].todo = call[c].todo \ {<<k, x>>}
         /\ IF Fits(k, x) /\ Throws(call[c], k, x)
            THEN /\ call'[c].at = "threw" /\ call'[c].open = call[c].open \ {k}
                 /\ call'[c].candidates = call[c].candidates
            ELSE /\ call'[c].at = call[c].at /\ call'[c].open = call[c].open
                 /\ call'[c].candidates = IF Fits(k, x) THEN call[c].candidates \cup FromPkesk(k, x)
                                                        ELSE call[c].candidates
<1>1. call[c] \in CallRec
  BY DEF TypeOK
<1> DEFINE left == [call[c] EXCEPT !.todo = @ \ {<<k, x>>}]
           rec == IF ~Fits(k, x) THEN left
                  ELSE IF Throws(call[c], k, x) THEN [left EXCEPT !.open = @ \ {k}, !.at = "threw"]
                  ELSE [left EXCEPT !.candidates = @ \cup FromPkesk(k, x)]
<1>2. /\ call' = [call EXCEPT ![c] = rec]
      /\ <<k, x>> \in call[c].todo /\ UNCHANGED <<enc, skesk, pkesk, sym>>
  BY DEF Attempt, Fits
<1>3. call'[c] = rec /\ \A d \in Calls : d # c => call'[d] = call[d]
  <2> HIDE DEF rec
  <2> QED BY <1>2 DEF TypeOK
<1> HIDE DEF Fits, Throws, FromPkesk
<1>4. CASE ~Fits(k, x)
  BY <1>1, <1>2, <1>3, <1>4 DEF Kept, SameResult, CallRec
<1>5. CASE Fits(k, x) /\ Throws(call[c], k, x)
  <2>1. call'[c] = [call[c] EXCEPT !.todo = call[c].todo \ {<<k, x>>}, !.open = call[c].open \ {k}, !.at = "threw"]
    BY <1>1, <1>3, <1>5 DEF CallRec
  <2> HIDE DEF rec, left
  <2>2. Kept(c) /\ SameResult(c)
    BY <1>1, <1>2, <1>3, <2>1 DEF Kept, SameResult, CallRec
  <2>3. /\ call'[c].skesks = call[c].skesks /\ call'[c].hits = call[c].hits
        /\ call'[c].todo = call[c].todo \ {<<k, x>>} /\ call'[c].open = call[c].open \ {k}
        /\ call'[c].at = "threw" /\ call'[c].candidates = call[c].candidates
    BY <1>1, <2>1 DEF CallRec
  <2> QED BY <1>2, <1>5, <2>2, <2>3
<1>6. CASE Fits(k, x) /\ ~Throws(call[c], k, x)
  <2>1. call'[c] = [call[c] EXCEPT !.todo = call[c].todo \ {<<k, x>>}, !.candidates = call[c].candidates \cup FromPkesk(k, x)]
    BY <1>1, <1>3, <1>6 DEF CallRec
  <2> HIDE DEF rec, left
  <2>2. Kept(c) /\ SameResult(c)
    BY <1>1, <1>2, <1>3, <2>1 DEF Kept, SameResult, CallRec
  <2>3. /\ call'[c].skesks = call[c].skesks /\ call'[c].hits = call[c].hits
        /\ call'[c].todo = call[c].todo \ {<<k, x>>} /\ call'[c].open = call[c].open
        /\ call'[c].at = call[c].at /\ call'[c].candidates = call[c].candidates \cup FromPkesk(k, x)
    BY <1>1, <2>1 DEF CallRec
  <2> QED BY <1>2, <1>6, <2>2, <2>3
<1> QED BY <1>4, <1>5, <1>6

LEMMA DropFields ==
  ASSUME TypeOK, NEW c \in Calls, NEW k \in Keys, DropPkesk(c, k)
  PROVE  /\ Kept(c) /\ SameResult(c) /\ UNCHANGED <<skesk, sym>>
         /\ call'[c].skesks = call[c].skesks /\ call'[c].hits = call[c].hits
         /\ call'[c].todo = call[c].todo /\ call'[c].candidates = call[c].candidates
         /\ k \in call[c].open /\ \A x \in Recipients : <<k, x>> \notin call[c].todo
         /\ call'[c].open = call[c].open \ {k}
         /\ call'[c].at = IF call[c].at = "esk" /\ call[c].open = {k} THEN "found" ELSE call[c].at
         /\ \A l \in Keys : pkesk'[l] = (pkesk[l] /\ l # k)
<1>1. call[c] \in CallRec
  BY DEF TypeOK
<1> DEFINE at == IF call[c].at = "esk" /\ call[c].open = {k} THEN "found" ELSE call[c].at
<1>2. call' = [call EXCEPT ![c].open = @ \ {k}, ![c].at = at]
  BY DEF DropPkesk
<1> HIDE DEF at
<1>3. /\ call'[c] = [call[c] EXCEPT !.open = @ \ {k}, !.at = at]
      /\ \A d \in Calls : d # c => call'[d] = call[d]
  BY <1>2 DEF TypeOK
<1>4. Kept(c) /\ SameResult(c)
  <2>1. UNCHANGED enc
    BY DEF DropPkesk
  <2> QED BY <1>1, <1>3, <2>1 DEF CallRec, Kept, SameResult
<1>5. /\ call'[c].skesks = call[c].skesks /\ call'[c].hits = call[c].hits
      /\ call'[c].todo = call[c].todo /\ call'[c].candidates = call[c].candidates
      /\ call'[c].open = call[c].open \ {k} /\ call'[c].at = at
  BY <1>1, <1>3 DEF CallRec
<1>6. \A l \in Keys : pkesk'[l] = (pkesk[l] /\ l # k)
  BY DEF DropPkesk, TypeOK
<1> QED BY <1>4, <1>5, <1>6 DEF DropPkesk, at

LEMMA FoundFields ==
  ASSUME TypeOK, NEW c \in Calls, SessionKeysFound(c)
  PROVE  /\ Kept(c) /\ SameTries(c) /\ call'[c].trying = call[c].trying
         /\ UNCHANGED <<skesk, pkesk, sym>>
         /\ call[c].at = "found"
         /\ Found(c) = {} => call'[c].at = "threw" /\ call'[c].candidates = call[c].candidates
         /\ Found(c) # {} => call'[c].at \in {"data", "returned"} /\ call'[c].candidates = Found(c)
         /\ call'[c].at = "data" => call[c].api = "decrypt"
         /\ call'[c].result = call[c].result \/ call'[c].result = "keys"
<1>1. call[c] \in CallRec
  BY DEF TypeOK
<1> DEFINE rec == IF Found(c) = {} THEN [call[c] EXCEPT !.at = "threw"]
                  ELSE IF call[c].api = "decrypt" THEN [call[c] EXCEPT !.at = "data", !.candidates = Found(c)]
                  ELSE [call[c] EXCEPT !.at = "returned", !.candidates = Found(c), !.result = "keys"]
<1>2. /\ call' = [call EXCEPT ![c] = rec]
      /\ call[c].at = "found" /\ UNCHANGED <<enc, skesk, pkesk, sym>>
  BY DEF SessionKeysFound
<1>3. call'[c] = rec /\ \A d \in Calls : d # c => call'[d] = call[d]
  <2> HIDE DEF rec
  <2> QED BY <1>2 DEF TypeOK
<1>4. CASE Found(c) = {}
  BY <1>1, <1>2, <1>3, <1>4 DEF Kept, SameTries, CallRec
<1>5. CASE Found(c) # {} /\ call[c].api = "decrypt"
  <2>1. call'[c] = [call[c] EXCEPT !.at = "data", !.candidates = Found(c)]
    BY <1>3, <1>5
  <2> HIDE DEF rec
  <2>2. Kept(c) /\ SameTries(c)
    BY <1>1, <1>2, <1>3, <2>1 DEF Kept, SameTries, CallRec
  <2>3. /\ call'[c].trying = call[c].trying /\ call'[c].at = "data"
        /\ call'[c].candidates = Found(c) /\ call'[c].result = call[c].result
    BY <1>1, <2>1 DEF CallRec
  <2> QED BY <1>2, <1>5, <2>2, <2>3
<1>6. CASE Found(c) # {} /\ call[c].api # "decrypt"
  <2>1. call'[c] = [call[c] EXCEPT !.at = "returned", !.candidates = Found(c), !.result = "keys"]
    BY <1>3, <1>6
  <2> HIDE DEF rec
  <2>2. Kept(c) /\ SameTries(c)
    BY <1>1, <1>2, <1>3, <2>1 DEF Kept, SameTries, CallRec
  <2>3. /\ call'[c].trying = call[c].trying /\ call'[c].at = "returned"
        /\ call'[c].candidates = Found(c) /\ call'[c].result = "keys"
    BY <1>1, <2>1 DEF CallRec
  <2> QED BY <1>2, <1>6, <2>2, <2>3
<1> QED BY <1>4, <1>5, <1>6

LEMMA DataFields ==
  ASSUME TypeOK, NEW c \in Calls, DecryptData(c)
  PROVE  /\ Kept(c) /\ SameTries(c) /\ UNCHANGED <<skesk, pkesk>>
         /\ call'[c].candidates = call[c].candidates /\ call'[c].result = call[c].result
         /\ call[c].at = "data" /\ call'[c].at = "await"
         /\ call'[c].trying = IF sym.encrypted THEN call[c].candidates ELSE {}
         /\ ~sym'.encrypted /\ sym'.packets = sym.packets
BY DEF DecryptData, TypeOK, CallRec, Kept, SameTries

LEMMA TryFields ==
  ASSUME TypeOK, NEW c \in Calls, NEW k \in SessionKey, TrySessionKey(c, k)
  PROVE  /\ Kept(c) /\ SameTries(c) /\ UNCHANGED <<skesk, pkesk>>
         /\ call'[c].at = call[c].at
         /\ call'[c].candidates = call[c].candidates /\ call'[c].result = call[c].result
         /\ k \in call[c].trying /\ call'[c].trying = call[c].trying \ {k}
         /\ sym'.encrypted = sym.encrypted
         /\ sym'.packets = IF k = "real" THEN "plain" ELSE sym.packets
BY DEF TrySessionKey, TypeOK, CallRec, Kept, SameTries

LEMMA DoneFields ==
  ASSUME TypeOK, NEW c \in Calls, DataDone(c)
  PROVE  /\ Kept(c) /\ SameTries(c) /\ UNCHANGED <<skesk, pkesk>>
         /\ call[c].at = "await" /\ call[c].trying = {}
         /\ call'[c].candidates = call[c].candidates /\ call'[c].trying = {}
         /\ call'[c].at = IF sym.packets = "plain" THEN "returned" ELSE "threw"
         /\ call'[c].result = sym.packets
         /\ sym'.encrypted = sym.encrypted /\ sym'.packets = "none"
BY DEF DataDone, TypeOK, CallRec, Kept, SameTries

\* The record of a new call, by what it decrypts with.
StartsWithPasswords(c) ==
  /\ call'[c].by = "passwords" /\ call'[c].keys = {} /\ call'[c].locked = {}
  /\ call'[c].todo = {} /\ call'[c].open = {}
  /\ call'[c].skesks = Slots /\ call'[c].at = IF Slots = {} THEN "threw" ELSE "esk"
  /\ call'[c].first \in call'[c].passwords
  /\ call'[c].candidates = FromPasswords(call'[c].passwords \ {call'[c].first})
StartsWithKeys(c) ==
  /\ call'[c].by = "keys" /\ call'[c].keys \subseteq Recipients /\ call'[c].locked \subseteq call'[c].keys
  /\ call'[c].todo = Keys \X call'[c].keys /\ call'[c].open = Keys
  /\ call'[c].skesks = {} /\ call'[c].at = "esk" /\ call'[c].candidates = {}
StartsWithSessionKeys(c) ==
  /\ call'[c].by = "sessionKeys" /\ call'[c].keys = {} /\ call'[c].locked = {}
  /\ call'[c].todo = {} /\ call'[c].open = {} /\ call'[c].skesks = {} /\ call'[c].at = "data"
  /\ call'[c].api = "decrypt"

LEMMA StartFields ==
  ASSUME TypeOK, NEW c \in Calls, CallStarts(c)
  PROVE  /\ Sent /\ call[c].at = "unused" /\ UNCHANGED <<enc, skesk, pkesk, sym>>
         /\ Overlapping \/ \A d \in Calls : call[d].at = "unused" \/ Settled(d)
         /\ \A d \in Calls : d # c => call'[d] = call[d]
         /\ call'[c].hits = {} /\ call'[c].trying = {} /\ call'[c].result = "none"
         /\ StartsWithPasswords(c) \/ StartsWithKeys(c) \/ StartsWithSessionKeys(c)
<1> DEFINE Common   == /\ Sent /\ call[c].at = "unused" /\ UNCHANGED <<enc, skesk, pkesk, sym>>
                       /\ Overlapping \/ \A d \in Calls : call[d].at = "unused" \/ Settled(d)
                       /\ \A d \in Calls : d # c => call'[d] = call[d]
<1>1. ASSUME NEW rec \in CallRec, Begin(c, rec)
      PROVE  Common /\ call'[c] = rec
  BY <1>1 DEF Begin, TypeOK
<1>2. ASSUME NEW api \in {"decrypt", "decryptSessionKeys"}, NEW ps \in SUBSET (Passwords \cup {Guess}),
             NEW first \in ps, DecryptWithPasswords(c, api, ps, first)
      PROVE  /\ Common /\ call'[c].hits = {} /\ call'[c].trying = {} /\ call'[c].result = "none"
             /\ StartsWithPasswords(c)
  <2> DEFINE rec == [NoCall EXCEPT !.at = IF Slots = {} THEN "threw" ELSE "esk", !.api = api,
                          !.by = "passwords", !.passwords = ps, !.first = first, !.skesks = Slots,
                          !.candidates = FromPasswords(ps \ {first})]
  <2>1. rec \in CallRec /\ Begin(c, rec)
    BY <1>2, StartTypes DEF DecryptWithPasswords
  <2>2. /\ rec.hits = {} /\ rec.trying = {} /\ rec.result = "none" /\ rec.by = "passwords" /\ rec.keys = {}
        /\ rec.locked = {} /\ rec.todo = {} /\ rec.open = {} /\ rec.skesks = Slots
        /\ rec.at = IF Slots = {} THEN "threw" ELSE "esk"
        /\ rec.passwords = ps /\ rec.first = first /\ rec.candidates = FromPasswords(ps \ {first})
    BY DEF NoCall
  <2> HIDE DEF rec
  <2> QED BY <1>1, <2>1, <2>2, SMTT(30) DEF StartsWithPasswords
<1>3. ASSUME NEW api \in {"decrypt", "decryptSessionKeys"}, NEW ks \in SUBSET Recipients, NEW lk \in SUBSET ks,
             DecryptWithKeys(c, api, ks, lk)
      PROVE  /\ Common /\ call'[c].hits = {} /\ call'[c].trying = {} /\ call'[c].result = "none"
             /\ StartsWithKeys(c)
  <2> DEFINE rec == [NoCall EXCEPT !.at = "esk", !.api = api, !.by = "keys", !.keys = ks, !.locked = lk,
                          !.todo = Keys \X ks, !.open = Keys]
  <2>1. rec \in CallRec /\ Begin(c, rec)
    BY <1>3, StartTypes DEF DecryptWithKeys
  <2>2. /\ rec.hits = {} /\ rec.trying = {} /\ rec.result = "none" /\ rec.by = "keys" /\ rec.keys = ks
        /\ rec.locked = lk /\ rec.todo = Keys \X ks /\ rec.open = Keys /\ rec.skesks = {}
        /\ rec.at = "esk" /\ rec.candidates = {}
    BY DEF NoCall
  <2> HIDE DEF rec
  <2> QED BY <1>1, <2>1, <2>2 DEF StartsWithKeys
<1>4. ASSUME NEW sks \in SUBSET SessionKey, DecryptWithSessionKeys(c, sks)
      PROVE  /\ Common /\ call'[c].hits = {} /\ call'[c].trying = {} /\ call'[c].result = "none"
             /\ StartsWithSessionKeys(c)
  <2> DEFINE rec == [NoCall EXCEPT !.at = "data", !.by = "sessionKeys", !.candidates = sks]
  <2>1. rec \in CallRec /\ Begin(c, rec)
    BY <1>4, StartTypes DEF DecryptWithSessionKeys
  <2>2. /\ rec.hits = {} /\ rec.trying = {} /\ rec.result = "none" /\ rec.by = "sessionKeys" /\ rec.keys = {}
        /\ rec.locked = {} /\ rec.todo = {} /\ rec.open = {} /\ rec.skesks = {} /\ rec.at = "data"
        /\ rec.api = "decrypt"
    BY DEF NoCall
  <2> HIDE DEF rec
  <2> QED BY <1>1, <2>1, <2>2 DEF StartsWithSessionKeys
<1> QED BY <1>2, <1>3, <1>4 DEF CallStarts

-----------------------------------------------------------------------------
(* The passwords that a message is encrypted with *)

\* The retry of a failed collision test, and what comes of it.
LEMMA EncRightStep ==
  ASSUME TypeInv, EncRight, Encryption, ~CollisionCheck \/ AeadProtect
  PROVE  EncRight'
<1>0. TypeOK
  BY DEF TypeInv
<1>1. PICK s \in Slots : Encrypt(s) \/ TestDecrypt(s)
  BY DEF Encryption
<1>2. \A t \in Slots : t # s => enc'[t] = enc[t] /\ skesk'[t] = skesk[t]
  BY <1>0, <1>1 DEF TypeOK, Encrypt, TestDecrypt
<1>3. enc[s].tries \in Nat
  BY <1>0, PasswordAssumption DEF TypeOK
<1>4. CASE Encrypt(s)
  <2>1. /\ enc[s].at = "encrypt" /\ enc'[s].tries = enc[s].tries + 1 /\ enc'[s].arg = enc[s].arg
        /\ enc'[s].at = IF AeadProtect /\ enc[s].tries > 0 THEN "threw"
                        ELSE IF CollisionCheck THEN "test" ELSE "done"
        /\ skesk'[s].under = enc[s].arg
    BY <1>0, <1>4 DEF TypeOK, Encrypt
  <2>2. enc[s].tries > 0 => AeadProtect
    BY <2>1 DEF EncRight
  <2>3. /\ enc'[s].at \in {"test", "done", "threw"} /\ enc'[s].tries > 0
        /\ enc'[s].at = "test" => AeadProtect
        /\ enc'[s].at \in {"test", "done"} => enc[s].tries = 0
    BY <1>3, <2>1, <2>2, ConfigAssumption
  <2> QED BY <1>2, <2>1, <2>3 DEF EncRight
<1>5. CASE TestDecrypt(s)
  <2>1. /\ enc[s].at = "test" /\ enc'[s].tries = enc[s].tries /\ enc'[s].at \in {"done", "encrypt"}
        /\ skesk' = skesk
    BY <1>0, <1>5 DEF TypeOK, TestDecrypt
  <2>2. enc[s].tries > 0 /\ AeadProtect
    BY <2>1 DEF EncRight
  <2> QED BY <1>2, <1>3, <2>1, <2>2 DEF EncRight
<1> QED BY <1>1, <1>4, <1>5

\* The steps of calls leave the passwords of the SKESKs alone.
LEMMA EncRightKept ==
  ASSUME TypeInv, EncRight, NEW c \in Calls, CallStarts(c) \/ CallSteps(c)
  PROVE  EncRight'
<1>1. TypeOK
  BY DEF TypeInv
<1>2. enc' = enc /\ \A s \in Slots : skesk'[s].under = skesk[s].under
  <2>1. CASE CallStarts(c)
    BY <1>1, <2>1, StartFields
  <2>2. CASE CallSteps(c)
    BY <1>1, <2>2, SkeskFields, AttemptFields, DropFields, FoundFields, DataFields, TryFields, DoneFields
       DEF CallSteps, Kept
  <2> QED BY <2>1, <2>2
<1> QED BY <1>2 DEF EncRight

\* Unless version 4 SKESKs are tested for collisions, each password of a
\* message that was encrypted has an SKESK of its own (encryptPassword).
THEOREM PasswordsOpen == ~CollisionCheck \/ AeadProtect => (Spec => []EveryPasswordOpens)
<1> SUFFICES ASSUME ~CollisionCheck \/ AeadProtect PROVE Spec => []EveryPasswordOpens
  OBVIOUS
<1>1. Init => EncRight
  BY DEF Init, EncRight
<1>2. TypeInv /\ EncRight /\ [Next]_vars => EncRight'
  <2> SUFFICES ASSUME TypeInv, EncRight, [Next]_vars PROVE EncRight'
    OBVIOUS
  <2>1. CASE UNCHANGED vars
    BY <2>1 DEF vars, EncRight
  <2> QED BY <2>1, EncRightStep, EncRightKept DEF Next
<1>3. EncRight => EveryPasswordOpens
  BY DEF EncRight, EveryPasswordOpens, Sent
<1> QED BY <1>1, <1>2, <1>3, InitType, NextType, PTL DEF Spec

-----------------------------------------------------------------------------
(* What a call has left to do *)

\* Each step of a call keeps Stages and Attempts of it.
LEMMA SkeskStages ==
  ASSUME TypeOK, NEW c \in Calls, NEW s \in Slots, DecryptSkesk(c, s), Stages(c), Attempts(c)
  PROVE  Stages(c)' /\ Attempts(c)'
<1>1. /\ call'[c].by = call[c].by /\ call[c].by = "passwords" /\ call[c].at = "esk"
      /\ call'[c].keys = call[c].keys /\ call'[c].locked = call[c].locked
      /\ call'[c].trying = {} /\ call[c].todo = {} /\ call[c].open = {}
      /\ call'[c].skesks = call[c].skesks \ {s}
      /\ call'[c].todo = call[c].todo /\ call'[c].open = call[c].open
      /\ call'[c].candidates = call[c].candidates
      /\ call'[c].at = IF call[c].skesks = {s} THEN "found" ELSE "esk"
  BY SkeskFields DEF Stages, Kept, SameResult
<1> QED BY <1>1 DEF Stages, Attempts

LEMMA AttemptStages ==
  ASSUME TypeOK, NEW c \in Calls, NEW k \in Keys, NEW x \in Recipients, Attempt(c, k, x),
         Stages(c), Attempts(c)
  PROVE  Stages(c)' /\ Attempts(c)'
<1>1. /\ call'[c].by = call[c].by /\ call'[c].keys = call[c].keys /\ call'[c].locked = call[c].locked
      /\ call[c].by = "keys" /\ call[c].at \in {"esk", "threw"}
      /\ call[c].trying = {} /\ call'[c].trying = {} /\ call[c].skesks = {} /\ call'[c].skesks = {}
      /\ <<k, x>> \in call[c].todo /\ call'[c].todo = call[c].todo \ {<<k, x>>}
      /\ call'[c].at \in {call[c].at, "threw"}
      /\ call'[c].open \subseteq call[c].open
  BY AttemptFields, ZenonT(40) DEF Stages, Kept, SameResult
<1>2. Stages(c)'
  BY <1>1 DEF Stages
<1>3. ASSUME NEW l \in call'[c].open, NEW y \in call'[c].locked, Fits(l, y)
      PROVE  <<l, y>> \in call'[c].todo
  <2>1. <<l, y>> \in call[c].todo
    BY <1>1, <1>3 DEF Attempts
  <2>2. ASSUME l = k, y = x PROVE FALSE
    <3>1. Throws(call[c], k, x)
      BY <1>1, <1>3, <2>2 DEF Throws
    <3>2. call'[c].open = call[c].open \ {k}
      BY <1>3, <2>2, <3>1, AttemptFields
    <3> QED BY <1>3, <2>2, <3>2
  <2> QED BY <1>1, <2>1, <2>2
<1>4. call'[c].at # "threw" => call[c].at # "threw" /\ call'[c].open = call[c].open
  BY <1>1, AttemptFields
<1>5. Attempts(c)'
  BY <1>1, <1>3, <1>4 DEF Attempts, LockedOut, Fits
<1> QED BY <1>2, <1>5

LEMMA DropStages ==
  ASSUME TypeOK, NEW c \in Calls, NEW k \in Keys, DropPkesk(c, k), Stages(c), Attempts(c)
  PROVE  Stages(c)' /\ Attempts(c)'
<1>1. /\ call'[c].by = call[c].by /\ call'[c].keys = call[c].keys /\ call'[c].locked = call[c].locked
      /\ call[c].by = "keys" /\ call[c].at \in {"esk", "threw"}
      /\ call[c].trying = {} /\ call'[c].trying = {} /\ call[c].skesks = {} /\ call'[c].skesks = {}
      /\ call'[c].todo = call[c].todo /\ call'[c].candidates = call[c].candidates
      /\ \A x \in Recipients : <<k, x>> \notin call[c].todo
      /\ call'[c].open = call[c].open \ {k}
      /\ call'[c].at = IF call[c].at = "esk" /\ call[c].open = {k} THEN "found" ELSE call[c].at
  BY DropFields DEF Stages, Kept, SameResult
<1>2. call[c].todo \subseteq Keys \X Recipients /\ call[c].locked \subseteq Recipients
  BY DEF TypeOK, CallRec
<1>3. call[c].at # "threw" => \A l \in Keys, x \in Recipients : <<l, x>> \in call[c].todo =>
        l \in call[c].open \ {k}
  BY <1>1 DEF Attempts
<1>4. call'[c].at = "found" => call'[c].todo = {} /\ call'[c].open = {}
  BY <1>1, <1>2, <1>3
<1>5. Stages(c)'
  BY <1>1, <1>4 DEF Stages
<1>6. ~LockedOut(c, k) \/ k \notin call[c].open
  BY <1>1, <1>2 DEF Attempts, LockedOut
<1>7. k \in call[c].open
  BY DropFields
<1>8. /\ call'[c].at # "threw" => call[c].at # "threw"
      /\ \A l \in Keys : LockedOut(c, l)' <=> LockedOut(c, l)
  BY <1>1 DEF LockedOut, Fits
<1>9. Attempts(c)'
  BY <1>1, <1>3, <1>6, <1>7, <1>8 DEF Attempts
<1> QED BY <1>5, <1>9

LEMMA FoundStages ==
  ASSUME TypeOK, NEW c \in Calls, SessionKeysFound(c), Stages(c), Attempts(c)
  PROVE  Stages(c)' /\ Attempts(c)'
<1>1. /\ call'[c].by = call[c].by /\ call'[c].keys = call[c].keys /\ call'[c].locked = call[c].locked
      /\ call[c].at = "found" /\ call'[c].trying = {} /\ call'[c].skesks = {} /\ call'[c].hits = call[c].hits
      /\ call[c].todo = {} /\ call[c].open = {} /\ call'[c].todo = {} /\ call'[c].open = {}
  BY FoundFields DEF Stages, Kept, SameTries
<1>2. /\ call'[c].at \in {"threw", "data", "returned"}
      /\ call'[c].at # "threw" => call'[c].candidates # {}
      /\ call'[c].at = "data" => call'[c].api = "decrypt"
  BY FoundFields DEF Kept
<1>3. Stages(c)'
  BY <1>1, <1>2 DEF Stages
<1>4. Attempts(c)'
  BY <1>1 DEF Attempts, LockedOut, Fits
<1> QED BY <1>3, <1>4

LEMMA DataStages ==
  ASSUME TypeOK, NEW c \in Calls, DecryptData(c), Stages(c), Attempts(c)
  PROVE  Stages(c)' /\ Attempts(c)'
<1>1. /\ call'[c].by = call[c].by /\ call'[c].keys = call[c].keys /\ call'[c].locked = call[c].locked
      /\ call[c].at = "data" /\ call'[c].at = "await" /\ call'[c].skesks = {}
      /\ call'[c].trying \subseteq call[c].candidates /\ call'[c].candidates = call[c].candidates
      /\ call'[c].api = call[c].api
      /\ call[c].todo = {} /\ call[c].open = {} /\ call'[c].todo = {} /\ call'[c].open = {}
  BY DataFields DEF Stages, Kept, SameTries
<1> QED BY <1>1 DEF Stages, Attempts, LockedOut, Fits

LEMMA TryStages ==
  ASSUME TypeOK, NEW c \in Calls, NEW k \in SessionKey, TrySessionKey(c, k), Stages(c), Attempts(c)
  PROVE  Stages(c)' /\ Attempts(c)'
<1>1. /\ call'[c].by = call[c].by /\ call'[c].keys = call[c].keys /\ call'[c].locked = call[c].locked
      /\ call[c].at = "await" /\ call'[c].at = "await" /\ call'[c].skesks = {}
      /\ call'[c].trying \subseteq call[c].trying /\ call'[c].candidates = call[c].candidates
      /\ call'[c].api = call[c].api
      /\ call[c].todo = {} /\ call[c].open = {} /\ call'[c].todo = {} /\ call'[c].open = {}
  BY TryFields DEF Stages, Kept, SameTries
<1> QED BY <1>1 DEF Stages, Attempts, LockedOut, Fits

LEMMA DoneStages ==
  ASSUME TypeOK, NEW c \in Calls, DataDone(c), Stages(c), Attempts(c)
  PROVE  Stages(c)' /\ Attempts(c)'
<1>1. /\ call'[c].by = call[c].by /\ call'[c].keys = call[c].keys /\ call'[c].locked = call[c].locked
      /\ call[c].at = "await" /\ call'[c].at \in {"returned", "threw"} /\ call'[c].skesks = {}
      /\ call'[c].trying = {} /\ call'[c].candidates = call[c].candidates
      /\ call[c].todo = {} /\ call[c].open = {} /\ call'[c].todo = {} /\ call'[c].open = {}
  BY DoneFields DEF Stages, Kept, SameTries
<1> QED BY <1>1 DEF Stages, Attempts, LockedOut, Fits

\* A new call has everything left to do.
LEMMA StartStages ==
  ASSUME TypeOK, NEW c \in Calls, CallStarts(c)
  PROVE  Stages(c)' /\ Attempts(c)'
<1>1. call'[c].trying = {} /\ call'[c].candidates \subseteq SessionKey /\ call'[c].at # "unused"
  <2>1. TypeOK'
    BY CallStartsType
  <2>2. call'[c].trying = {}
    BY StartFields
  <2>3. StartsWithPasswords(c) \/ StartsWithKeys(c) \/ StartsWithSessionKeys(c)
    BY StartFields
  <2>4. call'[c].at # "unused"
    BY <2>3 DEF StartsWithPasswords, StartsWithKeys, StartsWithSessionKeys
  <2> QED BY <2>1, <2>2, <2>4 DEF TypeOK, CallRec
<1>2. CASE StartsWithPasswords(c)
  BY <1>1, <1>2 DEF StartsWithPasswords, Stages, Attempts
<1>3. CASE StartsWithKeys(c)
  <2>1. Stages(c)'
    BY <1>1, <1>3 DEF StartsWithKeys, Stages
  <2>2. Attempts(c)'
    BY <1>3 DEF StartsWithKeys, Attempts, LockedOut
  <2> QED BY <2>1, <2>2
<1>4. CASE StartsWithSessionKeys(c)
  BY <1>1, <1>4 DEF StartsWithSessionKeys, Stages, Attempts
<1> QED BY <1>2, <1>3, <1>4, StartFields

-----------------------------------------------------------------------------
(* The plaintext comes from the call that gets it. *)

\* Any step of a call keeps its Stages and Attempts, and the other calls.
LEMMA StepStages ==
  ASSUME TypeOK, NEW c \in Calls, CallSteps(c), Stages(c), Attempts(c)
  PROVE  Stages(c)' /\ Attempts(c)' /\ Kept(c)
<1>1. Kept(c)
  BY SkeskFields, AttemptFields, DropFields, FoundFields, DataFields, TryFields, DoneFields DEF CallSteps
<1>2. Stages(c)' /\ Attempts(c)'
  BY SkeskStages, AttemptStages, DropStages, FoundStages, DataStages, TryStages, DoneStages DEF CallSteps
<1> QED BY <1>1, <1>2

\* A step of a call leaves the plaintext where it was, or the call moves it.
LEMMA StepPlain ==
  ASSUME TypeOK, NEW c \in Calls, CallSteps(c), Stages(c)
  PROVE  /\ Busy(c)' => Busy(c)
         /\ call[c].candidates \subseteq call'[c].candidates
         /\ \/ /\ sym'.packets = sym.packets /\ call'[c].result \in {call[c].result, "keys"}
               /\ call[c].at = "await" => call'[c].at = "await"
            \/ /\ sym'.packets = "plain" /\ call'[c].result = call[c].result
               /\ call'[c].at = "await" /\ "real" \in call'[c].candidates
            \/ /\ sym'.packets = "none" /\ call[c].at = "await" /\ call'[c].at # "await"
               /\ call'[c].result = sym.packets
<1>1. ASSUME NEW s \in Slots, DecryptSkesk(c, s)
      PROVE  /\ call[c].at = "esk" /\ call'[c].result = call[c].result
             /\ call'[c].candidates = call[c].candidates /\ sym' = sym
  BY <1>1, SkeskFields DEF Stages, SameResult
<1>2. ASSUME NEW k \in Keys, NEW x \in Recipients, Attempt(c, k, x)
      PROVE  /\ call'[c].result = call[c].result /\ call[c].candidates \subseteq call'[c].candidates
             /\ call[c].at \in {"esk", "threw"} /\ call'[c].at \in {call[c].at, "threw"} /\ sym' = sym
  BY <1>2, AttemptFields, ZenonT(40) DEF Stages, SameResult
<1>3. ASSUME NEW k \in Keys, DropPkesk(c, k)
      PROVE  /\ call'[c].result = call[c].result /\ call[c].candidates = call'[c].candidates
             /\ call[c].at = "esk" \/ call'[c].at = call[c].at
             /\ call[c].at \in {"esk", "threw"} /\ sym' = sym
  BY <1>3, DropFields DEF Stages, SameResult
<1>4. ASSUME SessionKeysFound(c)
      PROVE  /\ call[c].at = "found" /\ call'[c].result \in {call[c].result, "keys"} /\ sym' = sym
             /\ call[c].candidates \subseteq call'[c].candidates
  BY <1>4, FoundFields DEF Found
<1>5. ASSUME DecryptData(c)
      PROVE  /\ call[c].at = "data" /\ call'[c].at = "await" /\ call'[c].result = call[c].result
             /\ call'[c].candidates = call[c].candidates /\ sym'.packets = sym.packets
  BY <1>5, DataFields
<1>6. ASSUME NEW k \in SessionKey, TrySessionKey(c, k)
      PROVE  /\ call[c].at = "await" /\ call'[c].at = "await" /\ call'[c].result = call[c].result
             /\ call'[c].candidates = call[c].candidates /\ k \in call[c].candidates
             /\ sym'.packets = IF k = "real" THEN "plain" ELSE sym.packets
  BY <1>6, TryFields DEF Stages
<1>7. ASSUME DataDone(c)
      PROVE  /\ call[c].at = "await" /\ call'[c].at \in {"returned", "threw"}
             /\ call'[c].result = sym.packets
             /\ call'[c].candidates = call[c].candidates /\ sym'.packets = "none"
  BY <1>7, DoneFields
<1> QED
  BY <1>1, <1>2, <1>3, <1>4, <1>5, <1>6, <1>7 DEF CallSteps, Busy

\* CallsRight is kept.
LEMMA CallsRightStep ==
  ASSUME TypeInv, CallsRight, [Next]_vars
  PROVE  CallsRight'
<1>0. TypeOK
  BY DEF TypeInv
<1>1. CASE call' = call
  BY <1>1 DEF CallsRight, OneBusy, Busy, Stages, Attempts, LockedOut, Fits
<1>2. ASSUME NEW c \in Calls, CallStarts(c) PROVE CallsRight'
  <2>1. /\ Overlapping \/ \A d \in Calls : call[d].at = "unused" \/ Settled(d)
        /\ \A d \in Calls : d # c => call'[d] = call[d]
    BY <1>0, <1>2, StartFields
  <2>2. OneBusy'
    BY <2>1 DEF OneBusy, Busy, Settled
  <2>3. ASSUME NEW d \in Calls PROVE Stages(d)' /\ Attempts(d)'
    <3>1. CASE d = c
      BY <1>0, <1>2, <3>1, StartStages
    <3>2. CASE d # c
      BY <2>1, <3>2 DEF CallsRight, Stages, Attempts, LockedOut, Fits
    <3> QED BY <3>1, <3>2
  <2> QED BY <2>2, <2>3 DEF CallsRight
<1>3. ASSUME NEW c \in Calls, CallSteps(c) PROVE CallsRight'
  <2>0. Stages(c) /\ Attempts(c)
    BY DEF CallsRight
  <2>1. \A d \in Calls : d # c => call'[d] = call[d]
    BY <1>0, <1>3, <2>0, StepStages DEF Kept
  <2>2. OneBusy'
    BY <1>0, <1>3, <2>0, <2>1, StepPlain DEF CallsRight, OneBusy, Busy
  <2>3. ASSUME NEW d \in Calls PROVE Stages(d)' /\ Attempts(d)'
    <3>1. CASE d = c
      BY <1>0, <1>3, <2>0, <3>1, StepStages
    <3>2. CASE d # c
      BY <2>1, <3>2 DEF CallsRight, Stages, Attempts, LockedOut, Fits
    <3> QED BY <3>1, <3>2
  <2> QED BY <2>2, <2>3 DEF CallsRight
<1> QED
  BY <1>1, <1>2, <1>3, EncryptionType DEF Next, vars

\* The plaintext stays with the call that found its key, if calls do not overlap.
LEMMA PlainFromStep ==
  ASSUME ~Overlapping, TypeInv, CallsRight, PlainFrom, [Next]_vars
  PROVE  PlainFrom'
<1>0. TypeOK
  BY DEF TypeInv
<1>1. CASE call' = call /\ sym' = sym
  BY <1>1 DEF PlainFrom, PlainOnlyWithSecret
<1>2. ASSUME NEW c \in Calls, CallStarts(c) PROVE PlainFrom'
  <2>1. /\ call[c].at = "unused" /\ sym' = sym /\ call'[c].result = "none"
        /\ \A d \in Calls : d # c => call'[d] = call[d]
    BY <1>0, <1>2, StartFields
  <2> QED BY <2>1 DEF PlainFrom, PlainOnlyWithSecret
<1>3. ASSUME NEW c \in Calls, CallSteps(c) PROVE PlainFrom'
  <2>0. Stages(c) /\ Attempts(c)
    BY DEF CallsRight
  <2>1. \A d \in Calls : d # c => call'[d] = call[d]
    BY <1>0, <1>3, <2>0, StepStages DEF Kept
  <2>2. CASE /\ sym'.packets = sym.packets /\ call'[c].result \in {call[c].result, "keys"}
             /\ call[c].at = "await" => call'[c].at = "await"
    BY <1>0, <1>3, <2>0, <2>1, <2>2, StepPlain DEF PlainFrom, PlainOnlyWithSecret
  <2>3. CASE /\ sym'.packets = "plain" /\ call'[c].result = call[c].result
             /\ call'[c].at = "await" /\ "real" \in call'[c].candidates
    BY <1>0, <1>3, <2>0, <2>1, <2>3, StepPlain DEF PlainFrom, PlainOnlyWithSecret
  <2>4. CASE /\ sym'.packets = "none" /\ call[c].at = "await" /\ call'[c].at # "await"
             /\ call'[c].result = sym.packets
    <3>1. sym.packets = "plain" => "real" \in call[c].candidates
      BY <2>4 DEF CallsRight, PlainFrom, OneBusy, Busy
    <3> QED
      BY <1>0, <1>3, <2>0, <2>1, <2>4, <3>1, StepPlain DEF PlainFrom, PlainOnlyWithSecret
  <2> QED BY <1>0, <1>3, <2>0, <2>2, <2>3, <2>4, StepPlain
<1> QED
  BY <1>1, <1>2, <1>3, EncryptionType DEF Next, vars

LEMMA InitCallsRight == Init => CallsRight /\ PlainFrom
BY DEF Init, NoCall, CallsRight, OneBusy, Busy, PlainFrom, PlainOnlyWithSecret, Stages, Attempts

\* Only a call that found the session key itself gets the plaintext, for any
\* passwords, keys and configuration and any number of calls, as long as they
\* do not overlap (Message.decrypt empties the packet it decrypted).
THEOREM PlainNeedsSecret == ~Overlapping => (Spec => []PlainOnlyWithSecret)
<1> SUFFICES ASSUME ~Overlapping PROVE Spec => []PlainOnlyWithSecret
  OBVIOUS
<1> DEFINE Inv == TypeInv /\ CallsRight /\ PlainFrom
<1>1. Init => Inv
  BY InitCallsRight, InitType
<1>2. Inv /\ [Next]_vars => Inv'
  BY NextType, CallsRightStep, PlainFromStep
<1>3. Inv => PlainOnlyWithSecret
  BY DEF PlainFrom
<1> QED
  <2> HIDE DEF Inv
  <2> QED BY <1>1, <1>2, <1>3, PTL DEF Spec

-----------------------------------------------------------------------------
(* A call with the right secret returns unless another forestalled it. *)

\* No step of a call changes what an SKESK was encrypted with, nor what was opened.
LEMMA UnderKept ==
  ASSUME TypeInv, CallsRight, NEW c \in Calls, CallSteps(c)
  PROVE  call[c].hits \subseteq call'[c].hits /\ \A s \in Slots : skesk'[s].under = skesk[s].under
<1>0. TypeOK
  BY DEF TypeInv
<1>1. ASSUME NEW s \in Slots, DecryptSkesk(c, s)
      PROVE  call[c].hits \subseteq call'[c].hits /\ \A t \in Slots : skesk'[t].under = skesk[t].under
  BY <1>0, <1>1, SkeskFields
<1>2. \/ \E s \in Slots : DecryptSkesk(c, s)
      \/ skesk' = skesk /\ call'[c].hits = call[c].hits
  BY <1>0, AttemptFields, DropFields, FoundFields, DataFields, TryFields, DoneFields DEF CallSteps, SameTries
<1> QED BY <1>1, <1>2

\* Who forestalled a call has done so for good.
LEMMA TakersStay ==
  ASSUME TypeInv, CallsRight, NEW c \in Calls, CallSteps(c)
  PROVE  \A d \in Calls : /\ Consumer(d) => Consumer(d)'
                          /\ \A k \in Keys : Dropper(d, k) => Dropper(d, k)'
                          /\ Overwriter(d) => Overwriter(d)'
                          /\ \A e \in Calls : Forestalls(d, e) => Forestalls(d, e)'
<1>0. TypeOK /\ Stages(c) /\ Attempts(c) /\ Kept(c)
  BY StepStages DEF CallsRight, TypeInv
<1>1. /\ call[c].at \in {"await", "returned", "threw"} => call'[c].at \in {"await", "returned", "threw"}
      /\ call'[c].open \subseteq call[c].open
      /\ call[c].candidates \subseteq call'[c].candidates
  <2>1. call[c].candidates \subseteq call'[c].candidates
    BY <1>0, StepPlain
  <2>2. ASSUME NEW s \in Slots, DecryptSkesk(c, s)
        PROVE  call[c].at = "esk" /\ call'[c].open = call[c].open
    BY <1>0, <2>2, SkeskFields DEF Stages
  <2>3. ASSUME NEW k \in Keys, NEW x \in Recipients, Attempt(c, k, x)
        PROVE  call'[c].at \in {call[c].at, "threw"} /\ call'[c].open \subseteq call[c].open
    <3>1. CASE Fits(k, x) /\ Throws(call[c], k, x)
      <4>1. call'[c].at = "threw" /\ call'[c].open = call[c].open \ {k}
        BY <1>0, <2>3, <3>1, AttemptFields, Zenon
      <4> QED BY <4>1
    <3>2. CASE ~(Fits(k, x) /\ Throws(call[c], k, x))
      <4>1. call'[c].at = call[c].at /\ call'[c].open = call[c].open
        BY <1>0, <2>3, <3>2, AttemptFields, Zenon
      <4> QED BY <4>1
    <3> QED BY <3>1, <3>2, Zenon
  <2>4. ASSUME NEW k \in Keys, DropPkesk(c, k)
        PROVE  (call[c].at = "esk" \/ call'[c].at = call[c].at) /\ call'[c].open \subseteq call[c].open
    BY <1>0, <2>4, DropFields
  <2>5. SessionKeysFound(c) => call[c].at = "found" /\ call'[c].open = call[c].open
    BY <1>0, FoundFields DEF SameTries
  <2>6. DecryptData(c) => call[c].at = "data" /\ call'[c].open = call[c].open
    BY <1>0, DataFields DEF SameTries
  <2>7. ASSUME NEW k \in SessionKey, TrySessionKey(c, k)
        PROVE  call'[c].at = call[c].at /\ call'[c].open = call[c].open
    BY <1>0, <2>7, TryFields DEF SameTries
  <2>8. DataDone(c) => call'[c].at \in {"returned", "threw"} /\ call'[c].open = call[c].open
    BY <1>0, DoneFields DEF SameTries
  <2> QED BY <2>1, <2>2, <2>3, <2>4, <2>5, <2>6, <2>7, <2>8 DEF CallSteps
<1>2. /\ call'[c].by = call[c].by /\ call'[c].locked = call[c].locked /\ call'[c].api = call[c].api
      /\ \A d \in Calls : d # c => call'[d] = call[d]
  BY <1>0 DEF Kept
<1>3. ASSUME NEW d \in Calls, NEW k \in Keys PROVE LockedOut(d, k)' <=> LockedOut(d, k)
  BY <1>2 DEF LockedOut, Fits
<1>4. ASSUME NEW d \in Calls, Consumer(d) PROVE Consumer(d)'
  <2>1. CASE d = c
    BY <1>1, <1>2, <1>3, <1>4, <2>1 DEF Consumer
  <2>2. CASE d # c
    BY <1>2, <1>3, <1>4, <2>2 DEF Consumer
  <2> QED BY <2>1, <2>2
<1>5. ASSUME NEW d \in Calls, NEW k \in Keys, Dropper(d, k) PROVE Dropper(d, k)'
  <2>1. CASE d = c
    BY <1>1, <1>2, <1>3, <1>5, <2>1 DEF Dropper
  <2>2. CASE d # c
    BY <1>2, <1>3, <1>5, <2>2 DEF Dropper
  <2> QED BY <2>1, <2>2
<1>6. call[c].hits \subseteq call'[c].hits /\ \A s \in Slots : skesk'[s].under = skesk[s].under
  BY UnderKept
<1>7. ASSUME NEW d \in Calls, Overwriter(d) PROVE Overwriter(d)'
  <2>1. PICK s \in call[d].hits : skesk[s].under # call[d].first
    BY <1>7 DEF Overwriter
  <2>2. s \in Slots
    BY <1>0 DEF TypeOK, CallRec
  <2>3. s \in call'[d].hits /\ call'[d].first = call[d].first /\ call'[d].by = call[d].by
    BY <1>0, <1>6, <2>1 DEF Kept
  <2> QED BY <1>6, <1>7, <2>1, <2>2, <2>3 DEF Overwriter
<1>8. ASSUME NEW d \in Calls, NEW e \in Calls, Forestalls(d, e) PROVE Forestalls(d, e)'
  <2>1. call'[e].by = call[e].by /\ call'[e].keys = call[e].keys
    BY <1>0 DEF Kept
  <2> QED BY <1>4, <1>5, <1>7, <1>8, <2>1 DEF Forestalls, Fits
<1> QED BY <1>4, <1>5, <1>7, <1>8

\* The ciphertext and the PKESKs are used up only by a step that says so.
LEMMA UsedUpStep ==
  ASSUME TypeInv, CallsRight, UsedUp, NEW c \in Calls, CallSteps(c)
  PROVE  UsedUp'
<1>0. TypeOK /\ Stages(c) /\ Attempts(c) /\ Stages(c)' /\ Attempts(c)' /\ Kept(c)
  BY StepStages DEF CallsRight, TypeInv
<1>1. ASSUME NEW d \in Calls, Consumer(d) PROVE Consumer(d)'
  BY <1>1, TakersStay
<1>2. ASSUME NEW d \in Calls, NEW k \in Keys, Dropper(d, k) PROVE Dropper(d, k)'
  BY <1>2, TakersStay
<1>3. CASE DecryptData(c)
  <2>1. pkesk' = pkesk /\ call'[c].at = "await"
    BY <1>0, <1>3, DataFields
  <2>2. Consumer(c)'
    BY <1>0, <2>1 DEF Consumer, Attempts, Stages
  <2> QED BY <1>2, <2>1, <2>2 DEF UsedUp
<1>4. ASSUME NEW k \in Keys, DropPkesk(c, k) PROVE UsedUp'
  <2>1. /\ k \in call[c].open /\ \A x \in Recipients : <<k, x>> \notin call[c].todo
        /\ call'[c].open = call[c].open \ {k} /\ sym' = sym
        /\ \A l \in Keys : pkesk'[l] = (pkesk[l] /\ l # k)
    BY <1>0, <1>4, DropFields
  <2>2. call[c].by = "keys"
    BY <1>0, <2>1 DEF Stages
  <2>3. ~LockedOut(c, k)
    <3>1. call[c].locked \subseteq Recipients
      BY <1>0 DEF TypeOK, CallRec
    <3> QED BY <1>0, <2>1, <2>2, <3>1 DEF Attempts, LockedOut
  <2>4. Dropper(c, k)'
    BY <1>0, <2>1, <2>2, <2>3 DEF Dropper, LockedOut, Fits, Kept
  <2>5. ~sym'.encrypted => \E d \in Calls : Consumer(d)'
    BY <1>1, <2>1 DEF UsedUp
  <2>6. ASSUME NEW l \in Keys, ~pkesk'[l] PROVE \E d \in Calls : Dropper(d, l)'
    <3>1. CASE l = k
      BY <2>4, <3>1
    <3>2. CASE l # k
      BY <1>2, <2>1, <2>6, <3>2 DEF UsedUp
    <3> QED BY <3>1, <3>2
  <2> QED BY <2>5, <2>6 DEF UsedUp
<1>5. CASE pkesk' = pkesk /\ sym'.encrypted = sym.encrypted
  BY <1>1, <1>2, <1>5 DEF UsedUp
<1>6. DecryptData(c) \/ (\E k \in Keys : DropPkesk(c, k)) \/ (pkesk' = pkesk /\ sym'.encrypted = sym.encrypted)
  BY <1>0, SkeskFields, AttemptFields, FoundFields, TryFields, DoneFields DEF CallSteps
<1> QED BY <1>3, <1>4, <1>5, <1>6

\* A call whose decryptions of the data have started took the ciphertext.
LEMMA AtDataConsumes ==
  ASSUME NEW c \in Calls, Stages(c), Attempts(c), call[c].at = "await"
  PROVE  Consumer(c)
BY DEF Consumer, Stages, Attempts

\* What a step of one call does to what the first password of another found: it
\* stays, unless the step overwrites its session key by accident.
LEMMA OthersHitsStep ==
  ASSUME TypeInv, CallsRight, NEW c \in Calls, CallSteps(c), NEW d \in Calls, d # c, HitsRight(d)
  PROVE  HitsRight(d)'
<1>0. TypeOK /\ Stages(c) /\ Kept(c) /\ call'[d] = call[d]
  BY StepStages DEF CallsRight, TypeInv, Kept
<1> SUFFICES ASSUME call[d].at \in {"esk", "found"}, NEW s \in call[d].hits, skesk'[s].under = call[d].first,
                    skesk'[s].sessionKey # "real"
             PROVE  Overlapping /\ \E e \in Calls \ {d} : Overwriter(e)'
  BY <1>0 DEF HitsRight
<1>1. s \in Slots
  BY <1>0 DEF TypeOK, CallRec
<1>2. skesk[s].under = call[d].first
  BY <1>1, UnderKept
<1>3. CASE skesk[s].sessionKey = "real"
  <2>1. skesk'[s] # skesk[s]
    BY <1>3
  <2>2. PICK t \in Slots : DecryptSkesk(c, t)
    BY <1>0, <2>1, AttemptFields, DropFields, FoundFields, DataFields, TryFields, DoneFields DEF CallSteps
  <2>3. t = s /\ s \in call'[c].hits /\ skesk[s].under # call[c].first /\ s \in call[c].skesks
    BY <1>0, <1>1, <2>1, <2>2, SkeskFields
  <2>4. call[c].by = "passwords" /\ call[c].at = "esk"
    BY <1>0, <2>3 DEF Stages
  <2>5. Overlapping
    BY <2>4 DEF CallsRight, OneBusy, Busy
  <2>6. Overwriter(c)'
    BY <1>0, <1>1, <2>3, <2>4, UnderKept DEF Overwriter, Kept
  <2> QED BY <2>5, <2>6
<1>4. CASE skesk[s].sessionKey # "real"
  BY <1>2, <1>4, TakersStay DEF HitsRight
<1> QED BY <1>3, <1>4

\* What the first password of a call has found stays.
LEMMA HitsStep ==
  ASSUME TypeInv, CallsRight, NEW c \in Calls, CallSteps(c), HitsRight(c)
  PROVE  HitsRight(c)'
<1>0. TypeOK /\ Stages(c) /\ Kept(c)
  BY StepStages DEF CallsRight, TypeInv
<1>1. (\E d \in Calls \ {c} : Overwriter(d)) => \E d \in Calls \ {c} : Overwriter(d)'
  BY TakersStay
<1>2. ASSUME NEW s \in Slots, DecryptSkesk(c, s) PROVE HitsRight(c)'
  <2>1. call[c].at = "esk" /\ call'[c].first = call[c].first
    BY <1>0, <1>2, SkeskFields DEF Stages, Kept
  <2>2. ASSUME NEW t \in call'[c].hits, skesk'[t].under = call'[c].first
        PROVE  skesk'[t].sessionKey = "real" \/ (Overlapping /\ \E d \in Calls \ {c} : Overwriter(d)')
    <3>0. t \in Slots
      <4>1. call[c].hits \subseteq Slots
        BY <1>0 DEF TypeOK, CallRec
      <4> QED BY <1>0, <1>2, <4>1, SkeskFields
    <3>1. skesk[t].under = call[c].first
      BY <1>0, <1>2, <2>1, <2>2, <3>0, SkeskFields
    <3>2. CASE t = s
      BY <1>0, <1>2, <3>1, <3>2, SkeskFields
    <3>3. CASE t # s
      <4>1. skesk'[t] = skesk[t] /\ t \in call[c].hits
        BY <1>0, <1>2, <2>2, <3>0, <3>3, SkeskFields
      <4> QED BY <1>1, <2>1, <3>1, <4>1 DEF HitsRight
    <3> QED BY <3>2, <3>3
  <2> QED BY <2>2 DEF HitsRight
<1>3. ASSUME skesk' = skesk, call'[c].hits = call[c].hits,
             call'[c].at \in {"esk", "found"} => call[c].at \in {"esk", "found"}
      PROVE  HitsRight(c)'
  BY <1>0, <1>1, <1>3 DEF HitsRight, Kept
<1>4. ASSUME NEW k \in Keys, NEW x \in Recipients, Attempt(c, k, x) PROVE HitsRight(c)'
  BY <1>0, <1>3, <1>4, AttemptFields
<1>5. ASSUME NEW k \in Keys, DropPkesk(c, k) PROVE HitsRight(c)'
  BY <1>0, <1>3, <1>5, DropFields
<1>6. SessionKeysFound(c) => HitsRight(c)'
  BY <1>0, <1>3, FoundFields DEF SameTries
<1>7. DecryptData(c) => HitsRight(c)'
  BY <1>0, DataFields DEF HitsRight
<1>8. ASSUME NEW k \in SessionKey, TrySessionKey(c, k) PROVE HitsRight(c)'
  BY <1>0, <1>3, <1>8, TryFields DEF SameTries
<1>9. DataDone(c) => HitsRight(c)'
  BY <1>0, DoneFields DEF HitsRight
<1> QED BY <1>2, <1>4, <1>5, <1>6, <1>7, <1>8, <1>9 DEF CallSteps

\* To a call that was not forestalled, every PKESK that it has not finished
\* with and that fits one of its keys still has its data.
LEMMA PkeskThere ==
  ASSUME UsedUp, NEW c \in Calls, ~Forestalled(c), call[c].by = "keys",
         NEW k \in call[c].open, NEW x \in call[c].keys, k \in Keys, Fits(k, x)
  PROVE  pkesk[k]
<1> SUFFICES ASSUME ~pkesk[k] PROVE FALSE
  OBVIOUS
<1>1. PICK d \in Calls : Dropper(d, k)
  BY DEF UsedUp
<1>2. d # c
  BY <1>1 DEF Dropper
<1> QED BY <1>1, <1>2 DEF Forestalled, Forestalls

\* To such a call that has found session keys, the ciphertext is there.
LEMMA CiphertextThere ==
  ASSUME UsedUp, NEW c \in Calls, ~Forestalled(c), call[c].at = "data"
  PROVE  sym.encrypted
BY DEF UsedUp, Consumer, Forestalled, Forestalls

\* What is left of a right secret was one before the step.
LEMMA SecretBefore ==
  ASSUME TypeOK, CallsRight, NEW c \in Calls, CallSteps(c), RightSecret(call'[c])
  PROVE  RightSecret(call[c]) /\ call'[c].by = call[c].by /\ call[c].at # "unused"
<1>0. Stages(c) /\ Kept(c)
  BY StepStages DEF CallsRight
<1>1. call[c].at # "unused"
  BY <1>0, SkeskFields, AttemptFields, DropFields, FoundFields, DataFields, TryFields, DoneFields, ZenonT(40)
     DEF CallSteps, Stages, NoCall
<1>2. ASSUME call[c].by = "sessionKeys" PROVE call'[c].candidates = call[c].candidates
  <2>1. \A s \in Slots : ~DecryptSkesk(c, s)
    BY <1>0, <1>2, SkeskFields DEF Stages
  <2>2. \A k \in Keys, x \in Recipients : ~Attempt(c, k, x)
    BY <1>0, <1>2, AttemptFields DEF Stages
  <2>3. ~SessionKeysFound(c)
    BY <1>0, <1>2, FoundFields DEF Stages
  <2> QED BY <2>1, <2>2, <2>3, DropFields, DataFields, TryFields, DoneFields DEF CallSteps
<1> QED BY <1>0, <1>1, <1>2 DEF RightSecret, Kept

\* How far a call with the right secret is, after each of its steps.
LEMMA SkeskProgress ==
  ASSUME TypeOK, CallsRight, NEW c \in Calls, NEW s \in Slots, DecryptSkesk(c, s), InHand(c)
  PROVE  InHand(c)'
<1>1. /\ call[c].at = "esk" /\ call[c].by = "passwords" /\ call'[c].by = "passwords"
      /\ call'[c].at \in {"esk", "found"} /\ call'[c].first = call[c].first
      /\ call'[c].candidates = call[c].candidates
  BY SkeskFields DEF CallsRight, Stages, Kept
<1>2. CASE "real" \in call[c].candidates
  BY <1>1, <1>2 DEF InHand
<1>3. CASE "real" \notin call[c].candidates
  <2>1. PICK t \in Slots : skesk[t].under = call[c].first /\ t \in call[c].skesks \cup call[c].hits
    BY <1>1, <1>3 DEF InHand
  <2>2. skesk'[t].under = call'[c].first /\ t \in call'[c].skesks \cup call'[c].hits
    BY <1>1, <2>1, SkeskFields
  <2> QED BY <1>1, <2>2 DEF InHand
<1> QED BY <1>2, <1>3

LEMMA AttemptProgress ==
  ASSUME TypeOK, CallsRight, UsedUp, NEW c \in Calls, NEW k \in Keys, NEW x \in Recipients,
         Attempt(c, k, x), InHand(c), ~Forestalled(c), RightSecret(call[c])
  PROVE  InHand(c)'
<1>0. /\ <<k, x>> \in call[c].todo /\ call'[c].todo = call[c].todo \ {<<k, x>>}
      /\ call'[c].keys = call[c].keys /\ call'[c].by = call[c].by
  BY AttemptFields DEF Kept
<1>1. call[c].by = "keys" /\ call[c].at = "esk"
  BY <1>0 DEF CallsRight, Stages, InHand
<1>2. k \in call[c].open /\ x \in call[c].keys /\ call[c].locked = {} /\ AlgoAccepted
  BY <1>0, <1>1 DEF CallsRight, Attempts, RightSecret
<1>3. Fits(k, x) => pkesk[k]
  BY <1>1, <1>2, PkeskThere
<1>4. ~(Fits(k, x) /\ Throws(call[c], k, x))
  BY <1>2, <1>3 DEF Throws
<1>5. /\ call'[c].at = "esk"
      /\ call'[c].candidates = IF Fits(k, x) THEN call[c].candidates \cup FromPkesk(k, x) ELSE call[c].candidates
  BY <1>1, <1>4, AttemptFields
<1>6. ASSUME NEW l \in Keys \cap call'[c].keys
      PROVE  <<l, l>> \in call'[c].todo \/ "real" \in call'[c].candidates
  <2>1. <<l, l>> \in call[c].todo \/ "real" \in call[c].candidates
    BY <1>0, <1>1, <1>6 DEF InHand
  <2>2. CASE l = k /\ l = x
    <3>1. Fits(k, x)
      BY <2>2 DEF Fits
    <3>2. "real" \in FromPkesk(k, x)
      BY <1>2, <1>3, <2>2, <3>1 DEF FromPkesk, SessionKey
    <3> QED BY <1>5, <3>1, <3>2
  <2>3. CASE ~(l = k /\ l = x)
    BY <1>0, <1>5, <2>1, <2>3
  <2> QED BY <2>2, <2>3
<1> QED BY <1>0, <1>1, <1>5, <1>6 DEF InHand

LEMMA DropProgress ==
  ASSUME TypeOK, CallsRight, NEW c \in Calls, NEW k \in Keys, DropPkesk(c, k), InHand(c)
  PROVE  InHand(c)'
<1>1. /\ call[c].by = "keys" /\ call[c].at = "esk" /\ call'[c].by = "keys"
      /\ call'[c].at \in {"esk", "found"} /\ call'[c].keys = call[c].keys
      /\ call'[c].todo = call[c].todo /\ call'[c].candidates = call[c].candidates
  BY DropFields DEF CallsRight, Stages, Kept, InHand
<1> QED BY <1>1 DEF InHand

LEMMA FoundProgress ==
  ASSUME TypeOK, CallsRight, NEW c \in Calls, SessionKeysFound(c), HitsRight(c), InHand(c),
         ~Forestalled(c), RightSecret(call[c])
  PROVE  InHand(c)'
<1>1. call[c].at = "found" /\ call[c].skesks = {} /\ call[c].todo = {} /\ call[c].by \in {"passwords", "keys"}
  BY FoundFields DEF CallsRight, Stages
<1>2. "real" \in Found(c)
  <2>1. CASE call[c].by = "passwords" /\ "real" \notin call[c].candidates
    <3>1. PICK s \in Slots : skesk[s].under = call[c].first /\ s \in call[c].hits
      BY <1>1, <2>1 DEF InHand
    <3>2. skesk[s].sessionKey = "real"
      BY <1>1, <2>1, <3>1 DEF HitsRight, Forestalled, Forestalls
    <3> QED BY <3>1, <3>2 DEF Found
  <2>2. CASE call[c].by = "keys"
    BY <1>1, <2>2 DEF InHand, RightSecret, Found
  <2>3. CASE "real" \in call[c].candidates
    BY <2>3 DEF Found
  <2> QED BY <1>1, <2>1, <2>2, <2>3
<1>3. call'[c].at \in {"data", "returned"} /\ call'[c].candidates = Found(c)
  BY <1>2, FoundFields
<1> QED BY <1>2, <1>3 DEF InHand

LEMMA DataProgress ==
  ASSUME TypeOK, CallsRight, UsedUp, NEW c \in Calls, InHand(c), ~Forestalled(c),
         DecryptData(c) \/ (\E k \in SessionKey : TrySessionKey(c, k)) \/ DataDone(c)
  PROVE  InHand(c)'
<1>1. CASE DecryptData(c)
  <2>1. call[c].at = "data" /\ call'[c].at = "await" /\ "real" \in call[c].candidates
    BY <1>1, DataFields DEF InHand
  <2>2. sym.encrypted
    BY <2>1, CiphertextThere
  <2> QED BY <1>1, <2>1, <2>2, DataFields DEF InHand
<1>2. ASSUME NEW k \in SessionKey, TrySessionKey(c, k) PROVE InHand(c)'
  <2>1. /\ call[c].at = "await" /\ call'[c].at = "await"
        /\ call'[c].candidates = call[c].candidates /\ call'[c].trying = call[c].trying \ {k}
        /\ sym'.packets = IF k = "real" THEN "plain" ELSE sym.packets
    BY <1>2, TryFields DEF CallsRight, Stages
  <2> QED BY <2>1 DEF InHand
<1>3. CASE DataDone(c)
  <2>1. /\ call[c].at = "await" /\ call[c].trying = {}
        /\ call'[c].at = IF sym.packets = "plain" THEN "returned" ELSE "threw"
    BY <1>3, DoneFields
  <2> QED BY <2>1 DEF InHand
<1> QED BY <1>1, <1>2, <1>3

\* A new call with the right secret has it before it.
LEMMA StartProgress ==
  ASSUME TypeOK, EncRight, NEW c \in Calls, CallStarts(c), RightSecret(call'[c])
  PROVE  InHand(c)'
<1>1. \A s \in Slots : skesk'[s] = skesk[s] /\ skesk[s].under = Password[s]
  BY StartFields DEF Sent, EncRight
<1>2. CASE StartsWithPasswords(c)
  <2>1. /\ call'[c].by = "passwords" /\ call'[c].skesks = Slots /\ call'[c].at = IF Slots = {} THEN "threw" ELSE "esk"
        /\ call'[c].candidates = FromPasswords(call'[c].passwords \ {call'[c].first})
    BY <1>2 DEF StartsWithPasswords
  <2>2. PICK s \in Slots : Password[s] \in call'[c].passwords
    BY <2>1 DEF RightSecret, Passwords
  <2>3. CASE Password[s] = call'[c].first
    BY <1>1, <2>1, <2>2, <2>3 DEF InHand
  <2>4. CASE Password[s] # call'[c].first
    <3>1. "real" \in call'[c].candidates
      BY <1>1, <2>1, <2>2, <2>4 DEF FromPasswords, SessionKey
    <3> QED BY <2>1, <2>2, <3>1 DEF InHand
  <2> QED BY <2>3, <2>4
<1>3. CASE StartsWithKeys(c)
  BY <1>3 DEF StartsWithKeys, InHand
<1>4. CASE StartsWithSessionKeys(c)
  BY <1>4 DEF StartsWithSessionKeys, InHand, RightSecret
<1> QED BY <1>2, <1>3, <1>4, StartFields

\* A call that is made takes nothing from the others before its first step.
LEMMA StartTakes ==
  ASSUME TypeOK, CallsRight, NEW c \in Calls, CallStarts(c)
  PROVE  \A d \in Calls : /\ Consumer(d) => Consumer(d)'
                          /\ \A k \in Keys : Dropper(d, k) => Dropper(d, k)'
                          /\ Overwriter(d) => Overwriter(d)'
                          /\ \A e \in Calls \ {c} : Forestalls(d, e) => Forestalls(d, e)'
<1>1. call[c] = NoCall /\ skesk' = skesk /\ \A d \in Calls : d # c => call'[d] = call[d]
  BY StartFields DEF CallsRight, Stages
<1> SUFFICES ASSUME NEW d \in Calls
             PROVE  /\ Consumer(d) => Consumer(d)'
                    /\ \A k \in Keys : Dropper(d, k) => Dropper(d, k)'
                    /\ Overwriter(d) => Overwriter(d)'
                    /\ \A e \in Calls \ {c} : Forestalls(d, e) => Forestalls(d, e)'
  OBVIOUS
<1>2. CASE d = c
  BY <1>1, <1>2 DEF Consumer, Dropper, Overwriter, Forestalls, NoCall
<1>3. CASE d # c
  <2>1. /\ Consumer(d) => Consumer(d)'
        /\ \A k \in Keys : Dropper(d, k) => Dropper(d, k)'
        /\ Overwriter(d) => Overwriter(d)'
    BY <1>1, <1>3 DEF Consumer, Dropper, Overwriter, LockedOut, Fits
  <2> QED BY <1>1, <2>1 DEF Forestalls, Fits
<1> QED BY <1>2, <1>3

\* Every step keeps SecretsRight.
LEMMA SecretsRightStep ==
  ASSUME TypeInv, EncRight, CallsRight, SecretsRight, [Next]_vars
  PROVE  SecretsRight'
<1>0. TypeOK /\ UsedUp
  BY DEF TypeInv, SecretsRight
<1>1. CASE UNCHANGED vars
  <2>1. UNCHANGED <<skesk, pkesk, sym, call>>
    BY <1>1 DEF vars
  <2>2. UsedUp'
    BY <1>0, <2>1 DEF UsedUp, Consumer, Dropper, LockedOut, Fits
  <2>3. ASSUME NEW d \in Calls PROVE HitsRight(d)' /\ Progress(d)'
    <3>1. \A e \in Calls : (Overwriter(e)' <=> Overwriter(e)) /\ (Forestalls(e, d)' <=> Forestalls(e, d))
      BY <2>1 DEF Forestalls, Consumer, Dropper, Overwriter, LockedOut, Fits
    <3>2. Forestalled(d)' <=> Forestalled(d)
      BY <3>1 DEF Forestalled
    <3> QED BY <2>1, <3>1, <3>2 DEF SecretsRight, HitsRight, Progress, InHand
  <2> QED BY <2>2, <2>3 DEF SecretsRight
<1>2. CASE Encryption
  <2>1. \A c \in Calls : call[c] = NoCall
    BY <1>2, EncryptionType DEF TypeInv, HitsHold
  <2>2. UNCHANGED <<pkesk, sym, call>>
    BY <1>2, EncryptionType
  <2>3. \A c \in Calls : call'[c].at = "unused"
    BY <2>1, <2>2 DEF NoCall
  <2>4. UsedUp'
    BY <1>0, <2>2, <2>3 DEF UsedUp, Consumer, Dropper, LockedOut, Fits
  <2> QED BY <2>3, <2>4 DEF SecretsRight, HitsRight, Progress
<1>3. ASSUME NEW c \in Calls, CallStarts(c) PROVE SecretsRight'
  <2>1. /\ UNCHANGED <<skesk, pkesk, sym>> /\ call'[c].hits = {}
        /\ \A d \in Calls : d # c => call'[d] = call[d]
    BY <1>0, <1>3, StartFields
  <2>2. UsedUp'
    BY <1>0, <1>3, <2>1, StartTakes DEF UsedUp
  <2>3. HitsRight(c)' /\ Progress(c)'
    BY <1>0, <1>3, <2>1, StartProgress DEF HitsRight, Progress
  <2>4. ASSUME NEW d \in Calls, d # c PROVE HitsRight(d)' /\ Progress(d)'
    <3>1. call'[d] = call[d] /\ HitsRight(d) /\ Progress(d)
      BY <2>1, <2>4 DEF SecretsRight
    <3>2. \A e \in Calls : (Overwriter(e) => Overwriter(e)') /\ (Forestalls(e, d) => Forestalls(e, d)')
      BY <1>0, <1>3, <2>4, StartTakes
    <3>3. HitsRight(d)'
      BY <2>1, <3>1, <3>2 DEF HitsRight
    <3>4. ~Forestalled(d)' => ~Forestalled(d)
      BY <3>2 DEF Forestalled
    <3> QED BY <2>1, <3>1, <3>3, <3>4 DEF Progress, InHand
  <2> QED BY <2>2, <2>3, <2>4 DEF SecretsRight
<1>4. ASSUME NEW c \in Calls, CallSteps(c) PROVE SecretsRight'
  <2>0. Stages(c) /\ Attempts(c)
    BY DEF CallsRight
  <2>1. UsedUp'
    BY <1>0, <1>4, UsedUpStep
  <2>2. ASSUME NEW d \in Calls PROVE HitsRight(d)'
    <3>1. CASE d = c
      BY <1>4, <3>1, HitsStep DEF SecretsRight
    <3>2. CASE d # c
      BY <1>4, <3>2, OthersHitsStep DEF SecretsRight
    <3> QED BY <3>1, <3>2
  <2>3. ASSUME NEW d \in Calls PROVE ~Forestalled(d)' => ~Forestalled(d)
    BY <1>4, TakersStay DEF Forestalled
  <2>4. Progress(c)'
    <3> SUFFICES ASSUME RightSecret(call'[c]), ~Forestalled(c)' PROVE InHand(c)'
      BY DEF Progress
    <3>1. RightSecret(call[c]) /\ HitsRight(c) /\ ~Forestalled(c) /\ InHand(c)
      BY <1>0, <1>4, <2>3, SecretBefore DEF SecretsRight, Progress
    <3> QED
      BY <1>0, <1>4, <3>1, SkeskProgress, AttemptProgress, DropProgress, FoundProgress, DataProgress
         DEF CallSteps
  <2>5. ASSUME NEW d \in Calls, d # c PROVE Progress(d)'
    <3>1. call'[d] = call[d]
      BY <1>0, <1>4, <2>0, <2>5, StepStages DEF Kept
    <3> SUFFICES ASSUME call[d].at # "unused", RightSecret(call[d]), ~Forestalled(d)' PROVE InHand(d)'
      BY <3>1 DEF Progress
    <3>2. ~Forestalled(d) /\ InHand(d)
      BY <2>3 DEF SecretsRight, Progress
    <3>3. \A s \in Slots : skesk'[s].under = skesk[s].under
      BY <1>4, UnderKept
    <3>4. call[c].at # "await"  \* or the ciphertext would be gone
      BY <2>0, <2>5, <3>2, AtDataConsumes DEF Forestalled, Forestalls
    <3>5. sym.packets = "plain" => sym'.packets = "plain"
      BY <1>0, <1>4, <2>0, <3>4, StepPlain
    <3> QED BY <3>1, <3>2, <3>3, <3>5 DEF InHand
  <2> QED BY <2>1, <2>2, <2>4, <2>5 DEF SecretsRight
<1> QED BY <1>1, <1>2, <1>3, <1>4 DEF Next

LEMMA InitSecretsRight == Init => SecretsRight
BY DEF Init, NoCall, SecretsRight, UsedUp, HitsRight, Progress

\* A call with a right password, key or session key gets what it asks for, for
\* any passwords, keys and number of calls, in whatever order they run and however
\* they overlap, unless another call has taken from the message what it needs:
\* bogus session keys of version 4 SKESKs, wildcard PKESKs tried with every key,
\* and calls that met a locked key or found nothing never spoil it
\* (decryptSessionKeys, Message.decrypt).  Not so when the collision test dropped
\* the password.
THEOREM RightSecretSuffices ==
  ~CollisionCheck \/ AeadProtect => (Spec => []RightSecretDecrypts)
<1> SUFFICES ASSUME ~CollisionCheck \/ AeadProtect PROVE Spec => []RightSecretDecrypts
  OBVIOUS
<1> DEFINE Inv == TypeInv /\ EncRight /\ CallsRight /\ SecretsRight
<1>1. Init => Inv
  BY InitType, InitCallsRight, InitSecretsRight DEF Init, EncRight
<1>2. Inv /\ [Next]_vars => Inv'
  <2> SUFFICES ASSUME Inv, [Next]_vars PROVE Inv'
    OBVIOUS
  <2>1. EncRight'
    <3>1. CASE UNCHANGED vars
      BY <3>1 DEF vars, EncRight
    <3> QED BY <3>1, EncRightStep, EncRightKept DEF Next
  <2> QED BY <2>1, NextType, CallsRightStep, SecretsRightStep
<1>3. Inv => RightSecretDecrypts
  BY DEF SecretsRight, Progress, InHand, RightSecretDecrypts, Settled
<1> QED
  <2> HIDE DEF Inv
  <2> QED BY <1>1, <1>2, <1>3, PTL DEF Spec
=============================================================================
