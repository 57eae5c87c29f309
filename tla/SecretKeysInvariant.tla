------------------------- MODULE SecretKeysInvariant -------------------------
(***************************************************************************)
(* The inductive invariant behind the safety properties of SecretKeys.     *)
(* LockedKeyOpens, SecretsKept and InputUntouched say what a key holds     *)
(* when a call ends; they stay true only because of what holds at every    *)
(* turn before: which calls may still write to a slot, what a task in      *)
(* flight has already stored, and which salts can occur where.             *)
(***************************************************************************)
EXTENDS SecretKeys

Wrapping   == {"generateKey", "reformatKey"}
Encrypting == {"encryptKey"} \cup Wrapping
Protected  == {"sha1", "aead"}

Op(c)          == call[c].op
Stage(c, i, p) == task[c][i][p].at
Pk(c, i)       == packets[owner[c]][i]

\* A call that may still assign to the packets of its slot.
AtWork      == {"kdf", "hash", "cipher"}
InFlight(c) == \E i \in Pos, p \in Pass : Stage(c, i, p) \in AtWork
Writes(c)   == Op(c) \in Encrypting /\ (Running(c) \/ InFlight(c))
-----------------------------------------------------------------------------
(* Calls and their tasks *)

\* The phases that each kind of call goes through, and its arguments.
PhaseRight(c) ==
  /\ status[c] = "unused" => Op(c) = "none" /\ owner[c] = Null /\ \A h \in Handles : owner[h] # c
  /\ status[c] = "packets" => Op(c) \in {"encryptKey", "decryptKey"}
  /\ Running(c) /\ status[c] # "packets" => Op(c) \in Wrapping
  /\ Op(c) \notin Encrypting => \A i \in Pos : call[c].pass[i] = NoPass
  /\ call[c].overlaps => Op(c) = "reformatKey"

\* The tasks of an encrypting call: one per packet, with the passphrase it
\* was given and a salt of the call's own.
EncryptTasks(c) ==
  Op(c) \in Encrypting => \A i \in Pos, p \in Args :
    /\ Stage(c, i, p) \in AtWork \cup {"none", "encrypted", "done", "failed"}
    /\ Stage(c, i, p) # "none" => p = call[c].pass[i] /\ task[c][i][p].salt = c /\ owner[c] # Null
    /\ Stage(c, i, p) \in AtWork \cup {"encrypted"} => p # NoPass
    /\ Op(c) = "encryptKey" /\ status[c] = "returned" => Stage(c, i, p) \in {"none", "done"}

\* The packets that wrapKeyObject has started on, in each of its phases.
WrapTasks(c) ==
  Op(c) \in Wrapping => \A i \in Pos, p \in Args :
    /\ p = NoPass => Stage(c, i, p) = "none"
    /\ status[c] = "checked" => Stage(c, i, p) = "none"
    /\ status[c] = "primary" /\ i # Primary => Stage(c, i, p) = "none"
    /\ status[c] \in {"signing", "signed", "returned"} =>
         Stage(c, i, p) = IF p # NoPass /\ p = call[c].pass[i] THEN "encrypted" ELSE "none"

\* The tasks of decryptKey derive a key from a salt that was drawn before
\* the call was made.  Other calls have none.
OtherTasks(c) ==
  /\ Op(c) = "decryptKey" => \A i \in Pos, p \in Args :
       /\ Stage(c, i, p) \in {"none", "kdf", "matched", "wrong", "done", "failed"}
       /\ Stage(c, i, p) # "none" => p # NoPass
       /\ Stage(c, i, p) = "kdf" => owner[task[c][i][p].salt] \notin {Null, c}
  /\ Op(c) \in {"none", "revokeKey"} => \A i \in Pos, p \in Args : Stage(c, i, p) = "none"

\* A slot allocated by a call is its own until the call returns.
Private(c) ==
  Op(c) \in {"encryptKey", "decryptKey", "generateKey"} =>
    /\ owner[c] = c
    /\ status[c] # "returned" => \A h \in Handles : owner[h] = c => h = c

\* No two calls write to the same slot, unless reformatKey calls overlapped on it.
OneWriter == \A c, d \in Calls :
  Writes(c) /\ Writes(d) /\ owner[c] = owner[d] => c = d \/ Overlapped(owner[c])

CallsRight == /\ \A c \in Calls : /\ PhaseRight(c) /\ EncryptTasks(c) /\ WrapTasks(c)
                                  /\ OtherTasks(c) /\ Private(c)
              /\ OneWriter
-----------------------------------------------------------------------------
(* Packets *)

\* Only a packet of the usual kind is ever decrypted.
NormalWhenDecrypted == \A h \in Handles, i \in Pos : isDecrypted(packets[h][i]) => packets[h][i].kind = "normal"

\* The salts of packets in use were drawn by calls that were made.
SaltsDrawn == \A h \in Handles, i \in Pos : owner[h] # Null =>
  LET pk == packets[owner[h]][i]
  IN  /\ owner[pk.salt] # Null
      /\ \A q \in Pass, s \in Handles, v \in Handles : pk.keyMaterial = Enc(q, s, v) => owner[s] # Null

\* Until a call has encrypted a packet no material carries its salt.
SaltUnused(c) ==
  Op(c) \in Encrypting /\ owner[c] # Null => \A i \in Pos :
    Stage(c, i, call[c].pass[i]) \in AtWork \cup {"none"} =>
      \A q \in Pass, v \in Handles : Pk(c, i).keyMaterial # Enc(q, c, v)

\* What packet.encrypt() leaves in a packet at each of its stages, whatever
\* other calls on the slot store beside it ...
Storing(c) ==
  Op(c) \in Encrypting /\ owner[c] # Null => \A i \in Pos, p \in Pass :
    \/ isDummy(Pk(c, i))
    \/ /\ Stage(c, i, p) \in AtWork \cup {"encrypted", "done"} => Pk(c, i).kind = "normal"
       /\ Stage(c, i, p) \in {"hash", "cipher", "encrypted", "done"} => Pk(c, i).s2kUsage \in Protected
       /\ Stage(c, i, p) \in {"encrypted", "done"} => StoredFor(owner[c], i)

\* ... and what it has stored when no other call writes to the slot.
Salted(pk, c)       == pk.kind = "normal" /\ pk.salt = c
Seeded(pk, c)       == Salted(pk, c) /\ pk.iv = c /\ pk.s2kUsage \in Protected
Sealed(pk, c, p)    == Seeded(pk, c) /\ pk.keyMaterial = Enc(p, c, c)
Locked(pk)          == pk.isEncrypted = "true" /\ pk.privateParams = "null" /\ pk.s2kUsage \in Protected
LockedWith(pk, p)   == Locked(pk) /\ Opens(pk, p)
EncryptProgress(c) ==
  Op(c) \in Encrypting /\ owner[c] # Null /\ ~Overlapped(owner[c]) => \A i \in Pos, p \in Pass :
    \/ isDummy(Pk(c, i))
    \/ /\ Stage(c, i, p) = "kdf" => Salted(Pk(c, i), c)
       /\ Stage(c, i, p) \in {"hash", "cipher"} => Seeded(Pk(c, i), c)
       /\ Stage(c, i, p) = "cipher" => task[c][i][p].iv = c
       /\ Stage(c, i, p) = "encrypted" /\ Running(c) => Sealed(Pk(c, i), c, p)
       /\ Stage(c, i, p) = "done" /\ status[c] = "packets" => LockedWith(Pk(c, i), p)

\* What packet.decrypt() has found and stored, until decryptKey returns ...
DecryptProgress(c) ==
  Op(c) = "decryptKey" /\ status[c] # "returned" => \A i \in Pos, p \in Pass :
    /\ Stage(c, i, p) \in {"kdf", "matched"} => Pk(c, i).kind = "normal"
    /\ Stage(c, i, p) = "matched" => Pk(c, i).keyMaterial = Enc(p, task[c][i][p].salt, Pk(c, i).iv)
    /\ Stage(c, i, p) = "done" =>
         \/ isDummy(Pk(c, i))
         \/ /\ Pk(c, i).keyMaterial = NoMaterial
            /\ status[c] = "packets" => Pk(c, i).privateParams = "live"

\* ... and of the tasks left over then none can match: what they might still
\* find was encrypted later, with the salt of a call on the returned key.
LeftOver(c) ==
  Op(c) = "decryptKey" /\ status[c] = "returned" => \A i \in Pos, p \in Pass :
    /\ Stage(c, i, p) # "matched"
    /\ Stage(c, i, p) = "kdf" =>
         \A q \in Pass, s \in Handles, v \in Handles : Pk(c, i).keyMaterial = Enc(q, s, v) => owner[s] = c

\* A packet that a call has locked stays locked.  Where no two reformatKey calls
\* overlapped it opens, and no task is about to write to it.
LockHolds(c) ==
  status[c] = "returned" => \A i \in Pos :
    call[c].pass[i] # NoPass /\ ~isDummy(Pk(c, i)) =>
      /\ Locked(Pk(c, i)) /\ StoredFor(owner[c], i)
      /\ \/ Overlapped(owner[c])
         \/ /\ Opens(Pk(c, i), call[c].pass[i])
            /\ \A d \in Calls, p \in Pass :
                 Op(d) \in Encrypting /\ owner[d] = owner[c] => Stage(d, i, p) \notin AtWork

PacketsRight == /\ NormalWhenDecrypted /\ SaltsDrawn
                /\ \A c \in Calls : /\ SaltUnused(c) /\ Storing(c) /\ EncryptProgress(c)
                                    /\ DecryptProgress(c) /\ LeftOver(c) /\ LockHolds(c)

IInv == TypeOK /\ FlagsMatch /\ CallsRight /\ PacketsRight
=============================================================================
