--------------------------- MODULE SecretKeysProofs ---------------------------
(***************************************************************************)
(* Theorems about SecretKeys, for any number of key packets, passphrases and *)
(* calls: type correctness, the agreement of every packet's flag with the  *)
(* parameters it holds; and, from the invariant of SecretKeysInvariant, that *)
(* a key is locked under a passphrase given for it and, unless reformatKey *)
(* calls overlapped on it, opens again; that no call but those destroys the *)
(* secret of a held key; and that encryptKey and decryptKey leave their    *)
(* input alone.                                                            *)
(***************************************************************************)
EXTENDS SecretKeysInvariant, TLAPS

\* The forms of key material.
LEMMA MaterialTypes ==
  /\ NoMaterial \in Material /\ Clear \in Material
  /\ \A q \in Pass, s \in Handles, v \in Handles : Enc(q, s, v) \in Material
BY DEF Material

\* The packet operators return packets.
LEMMA PacketTypes ==
  ASSUME NEW pk \in Packet, NEW c \in Handles, NEW p \in Args
  PROVE  /\ Cleared(pk) \in Packet /\ Dummied(pk) \in Packet
         /\ EncryptPrologue(pk, p, c) \in Packet
         /\ Generated(c) \in Packet
         /\ Derived(pk, c) \in Packet /\ Decrypted(pk) \in Packet
         /\ \A m \in Material : Holding(pk, m) \in Packet
<1>1. Cleared(pk) \in Packet
  BY DEF Packet, Cleared
<1>2. Dummied(pk) \in Packet
  BY MaterialTypes DEF Packet, Dummied
<1>3. EncryptPrologue(pk, p, c) \in Packet
  BY DEF Packet, EncryptPrologue
<1>4. Generated(c) \in Packet
  BY MaterialTypes DEF Packet, Generated
<1>5. Derived(pk, c) \in Packet
  BY DEF Packet, Derived
<1>6. Decrypted(pk) \in Packet
  BY MaterialTypes DEF Packet, Decrypted
<1>7. \A m \in Material : Holding(pk, m) \in Packet
  BY DEF Packet, Holding
<1> QED BY <1>1, <1>2, <1>3, <1>4, <1>5, <1>6, <1>7

\* PrivateKey.clearPrivateParams() returns a key.
LEMMA ClearedKeyType ==
  ASSUME NEW key \in [Pos -> Packet]
  PROVE  ClearedKey(key) \in [Pos -> Packet]
BY PrimaryAssumption, ZenonT(40) DEF ClearedKey, Cleared, Packet

\* A packet that was read is a packet.
LEMMA ReadPacketTypes == ASSUME NEW pk \in ReadPackets PROVE pk \in Packet
<1>1. Original \in Handles
  BY DEF Handles
<1>2. CASE pk \in {ReadAs("normal", "true", usage, Enc(p, Original, Original), "null") :
                    usage \in {"sha1", "aead", "weak"}, p \in Pass}
  BY <1>1, <1>2, MaterialTypes DEF ReadAs, Packet
<1>3. CASE pk \in {ReadAs("normal", "false", "none", Clear, "live"),
                   ReadAs("unparseable", "true", "sha1", NoMaterial, "null"),
                   ReadAs("dummy", "null", "sha1", NoMaterial, "null")}
  BY <1>1, <1>3, MaterialTypes DEF ReadAs, Packet
<1> QED BY <1>2, <1>3 DEF ReadPackets

\* The tasks that the calls start.
LEMMA TaskTypes ==
  ASSUME NEW s \in Handles
  PROVE  /\ \A stage \in Stages : At(stage, s) \in Task
         /\ Idle \in Task
<1>1. Original \in Handles
  BY DEF Handles
<1> QED BY <1>1 DEF Task, At, Idle, Stages

\* The task that encrypt starts on a packet is one.
LEMMA EncryptTaskType ==
  ASSUME NEW pk, NEW p, NEW c \in Handles, NEW onDummy \in Stages
  PROVE  EncryptTask(pk, p, c, onDummy) \in Task
BY TaskTypes DEF EncryptTask, Stages
-----------------------------------------------------------------------------
\* The initial state has the right types.
LEMMA InitType == Init => TypeOK
<1> SUFFICES ASSUME Init PROVE TypeOK
  OBVIOUS
<1>1. PICK key \in [Pos -> ReadPackets] :
        packets = [h \in Handles |-> IF h = Original THEN key ELSE [i \in Pos |-> Generated(h)]]
  BY DEF Init
<1>2. key \in [Pos -> Packet]
  BY ReadPacketTypes
<1>3. \A h \in Handles : [i \in Pos |-> Generated(h)] \in [Pos -> Packet]
  BY MaterialTypes DEF Generated, Packet
<1>4. packets \in [Handles -> [Pos -> Packet]]
  BY <1>1, <1>2, <1>3
<1>5. NoTasks \in [Pos -> [Args -> Task]]
  BY TaskTypes DEF NoTasks, Handles
<1>6. NoCall \in CallRec
  BY DEF NoCall, Nothing, Asked, CallRec, Args
<1>7. \A c \in Calls, i \in Pos, p \in Args : task[c][i][p].at = "none"
  BY DEF Init, NoTasks, Idle, At
<1>8. task \in [Calls -> [Pos -> [Args -> Task]]]
  BY <1>5 DEF Init
<1>9. /\ owner \in [Handles -> Handles \cup {Null}]
      /\ call \in [Calls -> CallRec] /\ status \in [Calls -> Phases]
      /\ owner[Original] # Null
      /\ \A c \in Calls : ~Running(c) /\ status[c] # "returned"
  BY <1>6, HandleAssumption DEF Init, Phases, Handles, Running
<1> QED BY <1>4, <1>7, <1>8, <1>9 DEF TypeOK

\* A key that is held, or that a call works on, has a slot.
LEMMA SlotTypes ==
  ASSUME TypeOK
  PROVE  /\ \A h \in Handles : Held(h) => owner[h] \in Handles /\ packets[owner[h]] \in [Pos -> Packet]
         /\ \A c \in Calls : Running(c) \/ status[c] = "returned" =>
              owner[c] \in Handles /\ packets[owner[c]] \in [Pos -> Packet]
<1>1. \A h \in Handles : Held(h) => owner[h] \in Handles
  BY DEF TypeOK, Held, Handles
<1>2. \A c \in Calls : Running(c) \/ status[c] = "returned" => owner[c] \in Handles
  BY DEF TypeOK, Handles
<1> QED BY <1>1, <1>2 DEF TypeOK

\* Assignments to one packet and to one task keep the types.
LEMMA PacketUpdate ==
  ASSUME TypeOK, NEW s, NEW i \in Pos, NEW pk, s \in Handles => pk \in Packet
  PROVE  [packets EXCEPT ![s][i] = pk] \in [Handles -> [Pos -> Packet]]
<1>1. CASE s \in Handles
  <2>1. [packets[s] EXCEPT ![i] = pk] \in [Pos -> Packet]
    BY <1>1 DEF TypeOK
  <2> QED BY <2>1 DEF TypeOK
<1>2. CASE s \notin Handles
  BY <1>2 DEF TypeOK
<1> QED BY <1>1, <1>2

\* Replacing one task, and moving one on, keeps the tasks typed.
LEMMA TaskReplaced ==
  ASSUME TypeOK, NEW c \in Calls, NEW i \in Pos, NEW p \in Args, NEW new \in Task
  PROVE  [task EXCEPT ![c][i][p] = new] \in [Calls -> [Pos -> [Args -> Task]]]
<1>1. task[c][i] \in [Args -> Task] /\ task[c] \in [Pos -> [Args -> Task]]
  BY DEF TypeOK
<1>2. [task[c][i] EXCEPT ![p] = new] \in [Args -> Task]
  BY <1>1
<1>3. [task[c] EXCEPT ![i][p] = new] \in [Pos -> [Args -> Task]]
  BY <1>1, <1>2
<1> QED BY <1>3 DEF TypeOK

LEMMA TaskUpdate ==
  ASSUME TypeOK, NEW c \in Calls, NEW i \in Pos, NEW p \in Args, NEW stage \in Stages
  PROVE  Advance(c, i, p, stage) \in [Calls -> [Pos -> [Args -> Task]]]
<1>1. task[c][i][p] \in Task
  BY DEF TypeOK
<1>2. [task[c][i][p] EXCEPT !.at = stage] \in Task
  BY <1>1 DEF Task
<1>3. Advance(c, i, p, stage) = [task EXCEPT ![c][i][p] = [task[c][i][p] EXCEPT !.at = stage]]
  BY DEF Advance
<1> QED BY <1>2, <1>3, TaskReplaced

\* Calls and passphrases are handles and arguments.
LEMMA Inclusions ==
  /\ Calls \subseteq Handles /\ Pass \subseteq Args /\ NoPass \in Args /\ Original \in Handles
  /\ Null \notin Handles /\ Original \notin Calls /\ NoPass \notin Pass
  /\ \A p \in Args : p # NoPass => p \in Pass
BY HandleAssumption, PassAssumption DEF Handles, Args

\* No step takes a slot from a call; one that has tasks keeps or gets one.
TasksPlaced == \A c \in Calls, i \in Pos, p \in Args : task[c][i][p].at # "none" => owner[c] # Null
LEMMA TasksStayPlaced ==
  ASSUME TypeOK, NEW c \in Calls, \A d \in Calls : d # c => task'[d] = task[d] /\ owner'[d] = owner[d],
         owner'[c] # Null \/ (task'[c] = task[c] /\ owner'[c] = owner[c])
  PROVE  TasksPlaced'
<1>1. TasksPlaced
  BY DEF TypeOK, TasksPlaced
<1> QED BY <1>1 DEF TasksPlaced

\* The step of a task.
LEMMA TaskMoves ==
  ASSUME TypeOK, NEW c \in Calls, NEW i \in Pos, NEW p \in Args, NEW stage,
         task[c][i][p].at # "none", task' = Advance(c, i, p, stage), owner' = owner
  PROVE  TasksPlaced'
<1>1. \A d \in Calls : d # c => task'[d] = task[d]
  BY DEF TypeOK, Advance
<1>2. owner'[c] # Null
  BY DEF TypeOK
<1> QED BY <1>1, <1>2, TasksStayPlaced

\* The steps of encryptKey.
LEMMA EncryptKeyType ==
  ASSUME TypeOK, NEW c \in Calls, EncryptKeyStep(c)
  PROVE  TypeOK'
<1>0. c \in Handles /\ Pass \subseteq Args /\ NoPass \in Args
  BY DEF Handles, Args
<1>1. ASSUME NEW h \in Handles, NEW pass \in PassArgs, EncryptKey(c, h, pass)
      PROVE  TypeOK'
  <2> DEFINE key == packets[owner[h]]
  <2>1. key \in [Pos -> Packet]
    BY <1>1, SlotTypes DEF EncryptKey
  <2>2. [i \in Pos |-> EncryptPrologue(key[i], pass[i], c)] \in [Pos -> Packet]
    BY <2>1, <1>0, PacketTypes DEF PassArgs
  <2>3. packets' \in [Handles -> [Pos -> Packet]]
    BY <2>2, <1>1 DEF EncryptKey, TypeOK
  <2>4. \A i \in Pos, p \in Args : EncryptTask(key[i], p, c, "done") \in Task /\ Idle \in Task
    BY <1>0, EncryptTaskType, TaskTypes DEF Stages
  <2>5. task' \in [Calls -> [Pos -> [Args -> Task]]]
    BY <2>4, <1>1 DEF EncryptKey, TypeOK
  <2>6. call' \in [Calls -> CallRec]
    BY <1>0, <1>1 DEF EncryptKey, Asked, TypeOK, CallRec, PassArgs
  <2>7. /\ owner' \in [Handles -> Handles \cup {Null}]
        /\ status' \in [Calls -> Phases]
        /\ owner'[Original] # Null
        /\ \A d \in Calls : (Running(d) \/ status[d] = "returned")' => owner'[d] # Null
    BY <1>0, <1>1, HandleAssumption DEF EncryptKey, CloneDeep, TypeOK, Phases, Running, Handles
  <2>8. TasksPlaced'
    BY <1>0, <1>1, Inclusions, TasksStayPlaced DEF EncryptKey, CloneDeep, TypeOK
  <2> QED BY <2>3, <2>5, <2>6, <2>7, <2>8 DEF TypeOK, TasksPlaced
<1>2. ASSUME EncryptKeyThrows(c) PROVE TypeOK'
  <2>1. ClearedKey(packets[owner[c]]) \in [Pos -> Packet]
    BY <1>2, SlotTypes, ClearedKeyType DEF EncryptKeyThrows, Running
  <2> QED BY <1>2, <2>1 DEF EncryptKeyThrows, TypeOK, Phases, Running
<1>3. ASSUME EncryptKeyReturns(c) PROVE TypeOK'
  BY <1>3 DEF EncryptKeyReturns, TypeOK, Phases, Running
<1>4. ASSUME NEW i \in Pos, NEW p \in Pass, EncryptKeyClears(c, i, p)
      PROVE  TypeOK'
  <2>1. CASE packets[owner[c]][i].privateParams = "live"
    <3>1. owner[c] \in Handles => Cleared(packets[owner[c]][i]) \in Packet
      BY <1>0, PacketTypes DEF TypeOK
    <3>2. packets' = [packets EXCEPT ![owner[c]][i] = Cleared(packets[owner[c]][i])]
      BY <1>4, <2>1 DEF EncryptKeyClears
    <3>3. packets' \in [Handles -> [Pos -> Packet]]
      BY <3>1, <3>2, PacketUpdate
    <3>4. task' \in [Calls -> [Pos -> [Args -> Task]]]
      BY <1>4, <1>0, <2>1, TaskUpdate, SMTT(30) DEF EncryptKeyClears, Stages
    <3>5. TasksPlaced'
      BY <1>4, <1>0, <2>1, TaskMoves DEF EncryptKeyClears
    <3> QED BY <1>4, <3>3, <3>4, <3>5 DEF EncryptKeyClears, TypeOK, TasksPlaced, Running
  <2>2. CASE packets[owner[c]][i].privateParams # "live"
    <3>1. task' \in [Calls -> [Pos -> [Args -> Task]]]
      BY <1>4, <1>0, <2>2, TaskUpdate, SMTT(30) DEF EncryptKeyClears, Stages
    <3>2. TasksPlaced'
      BY <1>4, <1>0, <2>2, TaskMoves DEF EncryptKeyClears
    <3> QED BY <1>4, <2>2, <3>1, <3>2 DEF EncryptKeyClears, TypeOK, TasksPlaced, Running
  <2> QED BY <2>1, <2>2
<1> QED BY <1>1, <1>2, <1>3, <1>4 DEF EncryptKeyStep

\* The packet.encrypt() steps shared by encryptKey and wrapKeyObject.
LEMMA PacketStepType ==
  ASSUME TypeOK, NEW c \in Calls, PacketStep(c)
  PROVE  TypeOK'
<1>0. c \in Handles /\ Pass \subseteq Args
  BY DEF Handles, Args
<1>1. ASSUME NEW i \in Pos, NEW p \in Pass, EncryptDerived(c, i, p)
      PROVE  TypeOK'
  <2>1. packets' = [packets EXCEPT ![owner[c]][i] = Derived(packets[owner[c]][i], c)]
    BY <1>1 DEF EncryptDerived
  <2>2. owner[c] \in Handles => Derived(packets[owner[c]][i], c) \in Packet
    <3>1. owner[c] \in Handles => packets[owner[c]][i] \in Packet
      BY DEF TypeOK
    <3> QED BY <1>0, <3>1, PacketTypes
  <2>3. packets' \in [Handles -> [Pos -> Packet]]
    BY <2>1, <2>2, PacketUpdate
  <2>4. task' \in [Calls -> [Pos -> [Args -> Task]]]
    BY <1>1, <1>0, TaskUpdate DEF EncryptDerived, Stages
  <2>5. TasksPlaced'
    BY <1>0, <1>1, TaskMoves DEF EncryptDerived
  <2> QED BY <1>1, <2>3, <2>4, <2>5 DEF EncryptDerived, TypeOK, TasksPlaced, Running
<1>2. ASSUME NEW i \in Pos, NEW p \in Pass, EncryptCiphered(c, i, p)
      PROVE  TypeOK'
  <2> DEFINE material == Enc(p, task[c][i][p].salt, task[c][i][p].iv)
  <2>1. packets' = [packets EXCEPT ![owner[c]][i] = Holding(packets[owner[c]][i], material)]
    BY <1>2 DEF EncryptCiphered
  <2>2. task[c][i][p].salt \in Handles /\ task[c][i][p].iv \in Handles
    BY <1>0 DEF TypeOK, Task
  <2>3. material \in Material
    BY <1>0, <2>2, MaterialTypes
  <2> HIDE DEF material
  <2>4. owner[c] \in Handles => Holding(packets[owner[c]][i], material) \in Packet
    <3>1. owner[c] \in Handles => packets[owner[c]][i] \in Packet
      BY DEF TypeOK
    <3> QED BY <1>0, <2>3, <3>1, PacketTypes
  <2>5. packets' \in [Handles -> [Pos -> Packet]]
    BY <2>1, <2>4, PacketUpdate
  <2>6. task' \in [Calls -> [Pos -> [Args -> Task]]]
    BY <1>2, <1>0, TaskUpdate DEF EncryptCiphered, Stages
  <2>7. TasksPlaced'
    BY <1>0, <1>2, TaskMoves DEF EncryptCiphered
  <2> QED BY <1>2, <2>5, <2>6, <2>7 DEF EncryptCiphered, TypeOK, TasksPlaced, Running
<1>3. ASSUME NEW i \in Pos, NEW p \in Pass, EncryptHashed(c, i, p)
      PROVE  TypeOK'
  <2> DEFINE new == [task[c][i][p] EXCEPT !.at = "cipher", !.iv = packets[owner[c]][i].iv]
  <2>1. task[c][i][p] \in Task /\ task[c][i][p].at = "hash"
    BY <1>0, <1>3 DEF TypeOK, EncryptHashed
  <2>2. owner[c] \in Handles
    BY <2>1, <1>0 DEF TypeOK
  <2>3. new \in Task
    <3>1. packets[owner[c]][i].iv \in Handles
      BY <2>2 DEF TypeOK, Packet
    <3> QED BY <2>1, <3>1 DEF Task, Stages
  <2>4. task' = [task EXCEPT ![c][i][p] = new]
    BY <1>3 DEF EncryptHashed
  <2>5. task' \in [Calls -> [Pos -> [Args -> Task]]]
    BY <1>0, <2>3, <2>4, TaskReplaced
  <2>6. TasksPlaced'
    <3>1. owner' = owner /\ \A d \in Calls : d # c => task'[d] = task[d]
      BY <1>3, <2>4 DEF EncryptHashed, TypeOK
    <3> QED BY <2>2, <3>1, Inclusions, TasksStayPlaced
  <2> QED BY <1>3, <2>5, <2>6 DEF EncryptHashed, TypeOK, TasksPlaced, Running
<1> QED BY <1>1, <1>2, <1>3 DEF PacketStep

\* The steps of decryptKey.
LEMMA DecryptKeyType ==
  ASSUME TypeOK, NEW c \in Calls, DecryptKeyStep(c)
  PROVE  TypeOK'
<1>0. c \in Handles /\ Pass \subseteq Args /\ NoPass \in Args /\ Original \in Handles
  BY DEF Handles, Args
<1>1. ASSUME NEW h \in Handles, NEW passes \in SUBSET Pass, DecryptKey(c, h, passes)
      PROVE  TypeOK'
  <2> DEFINE key == packets[owner[h]]
             start(i, p) == IF p \notin passes THEN Idle
                            ELSE IF isDummy(key[i]) THEN At("done", Original)
                            ELSE IF DecryptRefuses(key[i]) THEN At("failed", Original)
                            ELSE At("kdf", key[i].salt)
  <2>1. key \in [Pos -> Packet]
    BY <1>1, SlotTypes DEF DecryptKey
  <2>2. packets' \in [Handles -> [Pos -> Packet]]
    BY <2>1, <1>1 DEF DecryptKey, TypeOK
  <2>3. \A i \in Pos : key[i].salt \in Handles
    BY <2>1 DEF Packet
  <2>4. \A i \in Pos, p \in Args : start(i, p) \in Task
    BY <1>0, <2>3, TaskTypes DEF Stages
  <2>5. task' = [task EXCEPT ![c] = [i \in Pos |-> [p \in Args |-> start(i, p)]]]
    BY <1>1 DEF DecryptKey
  <2> HIDE DEF start
  <2>6. task' \in [Calls -> [Pos -> [Args -> Task]]]
    BY <2>4, <2>5 DEF TypeOK
  <2>7. call' \in [Calls -> CallRec]
    BY <1>0, <1>1 DEF DecryptKey, Asked, TypeOK, CallRec
  <2>8. /\ owner' \in [Handles -> Handles \cup {Null}]
        /\ status' \in [Calls -> Phases]
        /\ owner'[Original] # Null
        /\ \A d \in Calls : (Running(d) \/ status[d] = "returned")' => owner'[d] # Null
    BY <1>0, <1>1, HandleAssumption DEF DecryptKey, CloneDeep, TypeOK, Phases, Running, Handles
  <2>9. TasksPlaced'
    BY <1>0, <1>1, Inclusions, TasksStayPlaced DEF DecryptKey, CloneDeep, TypeOK
  <2> QED BY <2>2, <2>6, <2>7, <2>8, <2>9 DEF TypeOK, TasksPlaced
<1>2. ASSUME DecryptKeyThrows(c) PROVE TypeOK'
  <2>1. ClearedKey(packets[owner[c]]) \in [Pos -> Packet]
    BY <1>2, SlotTypes, ClearedKeyType DEF DecryptKeyThrows, Running
  <2> QED BY <1>2, <2>1 DEF DecryptKeyThrows, TypeOK, Phases, Running
<1>3. ASSUME DecryptKeyReturns(c) PROVE TypeOK'
  BY <1>3 DEF DecryptKeyReturns, TypeOK, Phases, Running
<1>4. ASSUME NEW i \in Pos, NEW p \in Pass, DecryptDerived(c, i, p)
      PROVE  TypeOK'
  <2>1. task' = Advance(c, i, p, "matched") \/ task' = Advance(c, i, p, "wrong")
    BY <1>4 DEF DecryptDerived
  <2>2. "matched" \in Stages /\ "wrong" \in Stages /\ p \in Args
    BY <1>0 DEF Stages
  <2>3. task' \in [Calls -> [Pos -> [Args -> Task]]]
    BY <2>1, <2>2, TaskUpdate
  <2>4. TasksPlaced'
    BY <1>4, <2>1, <2>2, TaskMoves DEF DecryptDerived
  <2> QED BY <1>4, <2>3, <2>4 DEF DecryptDerived, TypeOK, TasksPlaced, Running
<1>5. ASSUME NEW i \in Pos, NEW p \in Pass, DecryptCiphered(c, i, p)
      PROVE  TypeOK'
  <2>1. CASE task[c][i][p].at = "matched"
    <3>1. packets' = [packets EXCEPT ![owner[c]][i] = Decrypted(packets[owner[c]][i])]
      BY <1>5, <2>1 DEF DecryptCiphered
    <3>2. owner[c] \in Handles => Decrypted(packets[owner[c]][i]) \in Packet
      BY <1>0, PacketTypes DEF TypeOK
    <3>3. packets' \in [Handles -> [Pos -> Packet]]
      BY <3>1, <3>2, PacketUpdate
    <3>4. task' \in [Calls -> [Pos -> [Args -> Task]]]
      BY <1>5, <1>0, <2>1, TaskUpdate, SMTT(30) DEF DecryptCiphered, Stages
    <3>5. TasksPlaced'
      BY <1>5, <1>0, <2>1, TaskMoves DEF DecryptCiphered
    <3> QED BY <1>5, <3>3, <3>4, <3>5 DEF DecryptCiphered, TypeOK, TasksPlaced, Running
  <2>2. CASE task[c][i][p].at # "matched"
    <3>1. task' \in [Calls -> [Pos -> [Args -> Task]]]
      BY <1>5, <1>0, <2>2, TaskUpdate, SMTT(30) DEF DecryptCiphered, Stages
    <3>2. TasksPlaced'
      BY <1>5, <1>0, <2>2, TaskMoves DEF DecryptCiphered
    <3> QED BY <1>5, <2>2, <3>1, <3>2 DEF DecryptCiphered, TypeOK, TasksPlaced, Running
  <2> QED BY <2>1, <2>2
<1> QED BY <1>1, <1>2, <1>3, <1>4, <1>5 DEF DecryptKeyStep

\* Starting encrypt() on some packets, in wrapKeyObject.
LEMMA WrapEncryptsType ==
  ASSUME TypeOK, NEW c \in Calls, NEW S \in SUBSET Pos, NEW next \in Phases,
         Running(c), WrapEncrypts(c, S, next)
  PROVE  TypeOK'
<1> DEFINE key == packets[owner[c]]
           pass == call[c].pass
           T == {i \in S : pass[i] # NoPass}
           new(i) == IF i \in T THEN EncryptPrologue(key[i], pass[i], c) ELSE key[i]
           start(i, p) == IF i \in T /\ p = pass[i] THEN EncryptTask(key[i], p, c, "encrypted")
                          ELSE task[c][i][p]
<1>0. c \in Handles /\ Pass \subseteq Args /\ NoPass \in Args
  BY DEF Handles, Args
<1>1. key \in [Pos -> Packet] /\ owner[c] # Null
  BY SlotTypes DEF TypeOK
<1>2. pass \in [Pos -> Args]
  BY DEF TypeOK, CallRec
<1>3. \A i \in Pos : new(i) \in Packet
  BY <1>0, <1>1, <1>2, PacketTypes
<1>4. packets' = [packets EXCEPT ![owner[c]] = [i \in Pos |-> new(i)]]
  BY DEF WrapEncrypts
<1>5. \A i \in Pos, p \in Args : start(i, p) \in Task
  BY <1>0, EncryptTaskType DEF TypeOK, Stages
<1>6. task' = [task EXCEPT ![c] = [i \in Pos |-> [p \in Args |-> start(i, p)]]]
  BY DEF WrapEncrypts
<1>7. /\ status' \in [Calls -> Phases]
      /\ \A d \in Calls : (Running(d) \/ status[d] = "returned")' => owner'[d] # Null
  BY <1>1 DEF WrapEncrypts, TypeOK, Phases, Running
<1> HIDE DEF new, start
<1>8. packets' \in [Handles -> [Pos -> Packet]]
  BY <1>3, <1>4 DEF TypeOK
<1>9. task' \in [Calls -> [Pos -> [Args -> Task]]]
  BY <1>5, <1>6 DEF TypeOK
<1>10. TasksPlaced'
  BY <1>1, <1>6, TasksStayPlaced DEF WrapEncrypts, TypeOK
<1> QED BY <1>7, <1>8, <1>9, <1>10 DEF WrapEncrypts, TypeOK, TasksPlaced

\* The steps of generateKey and reformatKey.
LEMMA WrapType ==
  ASSUME TypeOK, NEW c \in Calls, WrapStep(c)
  PROVE  TypeOK'
<1>0. c \in Handles /\ Pass \subseteq Args /\ NoPass \in Args /\ Original \in Handles
  BY DEF Handles, Args
<1>1. ASSUME NEW pass \in PassArgs, GenerateKey(c, pass) PROVE TypeOK'
  <2>1. [i \in Pos |-> Generated(c)] \in [Pos -> Packet]
    BY <1>0, MaterialTypes DEF Generated, Packet
  <2>2. packets' \in [Handles -> [Pos -> Packet]]
    BY <1>1, <2>1 DEF GenerateKey, TypeOK
  <2>3. call' \in [Calls -> CallRec]
    BY <1>1 DEF GenerateKey, Asked, TypeOK, CallRec, PassArgs
  <2>4. /\ owner' \in [Handles -> Handles \cup {Null}]
        /\ status' \in [Calls -> Phases]
        /\ owner'[Original] # Null
        /\ \A d \in Calls : (Running(d) \/ status[d] = "returned")' => owner'[d] # Null
    BY <1>0, <1>1, HandleAssumption DEF GenerateKey, TypeOK, Phases, Running, Handles
  <2>5. TasksPlaced'
    BY <1>0, <1>1, Inclusions, TasksStayPlaced DEF GenerateKey, TypeOK
  <2> QED BY <1>1, <2>2, <2>3, <2>4, <2>5 DEF GenerateKey, TypeOK, TasksPlaced
<1>2. ASSUME NEW h \in Handles, NEW pass \in PassArgs, ReformatKey(c, h, pass) PROVE TypeOK'
  <2>1. owner[h] \in Handles /\ owner[h] # Null
    BY <1>2, SlotTypes, HandleAssumption DEF ReformatKey, Handles
  <2>2. call' \in [Calls -> CallRec]
    <3>1. Reformatting(owner[h]) \in BOOLEAN
      BY DEF Reformatting
    <3>2. pass \in [Pos -> Args] /\ {} \in SUBSET Pass
      BY DEF PassArgs
    <3>3. Asked("reformatKey", pass, {}, Reformatting(owner[h])) \in CallRec
      BY <3>1, <3>2 DEF Asked, CallRec
    <3> QED BY <1>2, <3>3 DEF ReformatKey, TypeOK
  <2>3. /\ owner' \in [Handles -> Handles \cup {Null}]
        /\ status' \in [Calls -> Phases]
        /\ owner'[Original] # Null
        /\ \A d \in Calls : (Running(d) \/ status[d] = "returned")' => owner'[d] # Null
    <3>1. CASE \A i \in Pos : isDecrypted(packets[owner[h]][i])
      <4>1. owner' = [owner EXCEPT ![c] = owner[h]] /\ status' = [status EXCEPT ![c] = "checked"]
        BY <1>2, <3>1 DEF ReformatKey
      <4>2. owner'[c] # Null /\ \A d \in Calls \ {c} : owner'[d] = owner[d] /\ status'[d] = status[d]
        BY <4>1, <2>1, <1>0 DEF TypeOK, Handles
      <4> QED BY <1>0, <2>1, <4>1, <4>2, HandleAssumption DEF TypeOK, Phases, Running
    <3>2. CASE ~ \A i \in Pos : isDecrypted(packets[owner[h]][i])
      BY <1>0, <1>2, <2>1, <3>2, HandleAssumption DEF ReformatKey, TypeOK, Phases, Running
    <3> QED BY <3>1, <3>2
  <2>4. TasksPlaced'
    <3>1. CASE \A i \in Pos : isDecrypted(packets[owner[h]][i])
      BY <1>0, <1>2, <2>1, <3>1, TasksStayPlaced, Inclusions DEF ReformatKey, TypeOK
    <3>2. CASE ~ \A i \in Pos : isDecrypted(packets[owner[h]][i])
      BY <1>2, <3>2, TasksStayPlaced DEF ReformatKey
    <3> QED BY <3>1, <3>2
  <2> QED BY <1>2, <2>2, <2>3, <2>4 DEF ReformatKey, TypeOK, TasksPlaced
<1>3. ASSUME WrapPrimary(c) PROVE TypeOK'
  BY <1>3, WrapEncryptsType, PrimaryAssumption DEF WrapPrimary, Running, Phases
<1>4. ASSUME WrapSubkeys(c) PROVE TypeOK'
  BY <1>4, WrapEncryptsType DEF WrapSubkeys, Running, Phases
<1>5. ASSUME WrapSign(c) PROVE TypeOK'
  BY <1>5 DEF WrapSign, TypeOK, Phases, Running
<1>6. ASSUME WrapSigned(c) PROVE TypeOK'
  BY <1>6 DEF WrapSigned, TypeOK, Phases, Running
<1>7. ASSUME WrapThrows(c) PROVE TypeOK'
  BY <1>7 DEF WrapThrows, TypeOK, Phases, Running
<1>8. ASSUME WrapReturns(c) PROVE TypeOK'
  <2> DEFINE key == packets[owner[c]]
             locks(i) == call[c].pass[i] # NoPass /\ ~isMissingSecretKeyMaterial(key[i])
             stuck(i) == locks(i) /\ key[i].privateParams = "null"
             new(i) == IF locks(i) /\ ~stuck(i) /\ ~stuck(Primary) THEN Cleared(key[i]) ELSE key[i]
  <2>1. key \in [Pos -> Packet] /\ owner[c] # Null
    BY <1>8, SlotTypes DEF WrapReturns, Running, TypeOK
  <2>2. \A i \in Pos : new(i) \in Packet
    BY <1>0, <2>1, PacketTypes
  <2>3. packets' = [packets EXCEPT ![owner[c]] = [i \in Pos |-> new(i)]]
    BY <1>8 DEF WrapReturns
  <2>4. /\ status' \in [Calls -> Phases]
        /\ \A d \in Calls : (Running(d) \/ status[d] = "returned")' => owner'[d] # Null
    BY <1>8, <2>1 DEF WrapReturns, TypeOK, Phases, Running
  <2> HIDE DEF new
  <2>5. packets' \in [Handles -> [Pos -> Packet]]
    BY <2>2, <2>3 DEF TypeOK
  <2> QED BY <1>8, <2>4, <2>5 DEF WrapReturns, TypeOK
<1> QED BY <1>1, <1>2, <1>3, <1>4, <1>5, <1>6, <1>7, <1>8 DEF WrapStep

\* No passphrase is an argument, and the first key object a handle.
LEMMA ArgAndHandle == NoPass \in Args /\ Original \in Handles
BY DEF Args, Handles

\* What the application does itself.
LEMMA UserType ==
  ASSUME TypeOK, UserStep
  PROVE  TypeOK'
<1>1. ASSUME NEW h \in Handles, ClearPrivateParams(h) PROVE TypeOK'
  <2>1. ClearedKey(packets[owner[h]]) \in [Pos -> Packet]
    BY <1>1, SlotTypes, ClearedKeyType DEF ClearPrivateParams
  <2> QED BY <1>1, <2>1 DEF ClearPrivateParams, TypeOK, Running
<1>2. ASSUME NEW h \in Handles, NEW i \in Pos, MakeDummy(h, i) PROVE TypeOK'
  <2>1. owner[h] \in Handles => Dummied(packets[owner[h]][i]) \in Packet
    BY PacketTypes, ArgAndHandle DEF TypeOK
  <2>2. packets' \in [Handles -> [Pos -> Packet]]
    BY <1>2, <2>1, PacketUpdate DEF MakeDummy
  <2> QED BY <1>2, <2>2 DEF MakeDummy, TypeOK, Running
<1>3. ASSUME NEW h \in Handles, NEW i \in Pos, Write(h, i) PROVE TypeOK'
  <2>1. owner[h] \in Handles => Holding(packets[owner[h]][i], Clear) \in Packet
    <3>1. owner[h] \in Handles => packets[owner[h]][i] \in Packet
      BY DEF TypeOK
    <3>2. Clear \in Material
      BY MaterialTypes
    <3> QED BY <3>1, <3>2, PacketTypes, ArgAndHandle
  <2>2. packets' = [packets EXCEPT ![owner[h]][i] = Holding(packets[owner[h]][i], Clear)]
    BY <1>3 DEF Write
  <2>3. packets' \in [Handles -> [Pos -> Packet]]
    BY <2>1, <2>2, PacketUpdate
  <2> QED BY <1>3, <2>3 DEF Write, TypeOK, Running
<1>4. ASSUME NEW c \in Calls, NEW h \in Handles, RevokeKey(c, h) PROVE TypeOK'
  <2>1. owner[h] \in Handles /\ owner[h] # Null
    BY <1>4, SlotTypes, HandleAssumption DEF RevokeKey, Handles
  <2>2. call' \in [Calls -> CallRec]
    BY <1>4 DEF RevokeKey, TypeOK, CallRec, Nothing, Asked, Args
  <2>3. /\ owner' \in [Handles -> Handles \cup {Null}]
        /\ status' \in [Calls -> Phases]
        /\ owner'[Original] # Null
        /\ \A d \in Calls : (Running(d) \/ status[d] = "returned")' => owner'[d] # Null
    BY <1>4, <2>1, HandleAssumption DEF RevokeKey, TypeOK, Phases, Running, Handles
  <2>4. TasksPlaced'
    BY <1>4, <2>1, Inclusions, TasksStayPlaced DEF RevokeKey, TypeOK
  <2> QED BY <1>4, <2>2, <2>3, <2>4 DEF RevokeKey, TypeOK, TasksPlaced
<1> QED BY <1>1, <1>2, <1>3, <1>4 DEF UserStep, Destroy

\* Every step keeps the types.
LEMMA TypeStep == ASSUME TypeOK, [Next]_vars PROVE TypeOK'
<1>1. ASSUME NEW c \in Calls, EncryptKeyStep(c) \/ DecryptKeyStep(c) \/ PacketStep(c) \/ WrapStep(c)
      PROVE  TypeOK'
  BY <1>1, EncryptKeyType, DecryptKeyType, PacketStepType, WrapType
<1>2. CASE UserStep
  BY <1>2, UserType
<1>3. CASE UNCHANGED vars
  BY <1>3 DEF vars, TypeOK, Running
<1> QED BY <1>1, <1>2, <1>3 DEF Next

\* The packets, handles, calls and tasks keep their types whatever calls are
\* made and however their turns interleave; every key object that is held,
\* or that a call works on, has packets.
THEOREM TypeCorrect == Spec => []TypeOK
<1>1. TypeOK /\ [Next]_vars => TypeOK'
  BY TypeStep
<1> QED BY InitType, <1>1, PTL DEF Spec
-----------------------------------------------------------------------------
\* Every operator on packets keeps the flag in step with the params; encrypt()
\* and Write touch neither.
LEMMA FlagsKept ==
  ASSUME NEW pk \in Packet, NEW c \in Handles, NEW p \in Args
  PROVE  /\ FlagMatches(Cleared(pk)) /\ FlagMatches(Decrypted(pk)) /\ FlagMatches(Generated(c))
         /\ FlagMatches(pk) => /\ FlagMatches(Dummied(pk)) /\ FlagMatches(EncryptPrologue(pk, p, c))
                               /\ FlagMatches(Derived(pk, c))
                               /\ \A m \in Material : FlagMatches(Holding(pk, m))
<1> USE DEF Packet, FlagMatches, isDecrypted
<1>1. FlagMatches(Cleared(pk)) /\ FlagMatches(Decrypted(pk)) /\ FlagMatches(Generated(c))
  BY DEF Cleared, Decrypted, Generated
<1>2. FlagMatches(pk) => FlagMatches(Dummied(pk))
  BY DEF Dummied
<1>3. FlagMatches(pk) => FlagMatches(EncryptPrologue(pk, p, c)) /\ FlagMatches(Derived(pk, c))
  BY DEF EncryptPrologue, Derived
<1>4. FlagMatches(pk) => \A m \in Material : FlagMatches(Holding(pk, m))
  BY DEF Holding
<1> QED BY <1>1, <1>2, <1>3, <1>4

\* The flag of a packet read agrees with its parameters.
LEMMA ReadFlags == \A pk \in ReadPackets : FlagMatches(pk)
BY DEF ReadPackets, ReadAs, FlagMatches, isDecrypted

\* Clearing all packets of a key keeps flags and parameters in agreement.
LEMMA ClearedKeyFlags ==
  ASSUME NEW key \in [Pos -> Packet], \A i \in Pos : FlagMatches(key[i])
  PROVE  \A i \in Pos : FlagMatches(ClearedKey(key)[i])
BY FlagsKept, ArgAndHandle DEF ClearedKey

\* Assigning one packet, or a whole key.
LEMMA FlagUpdate ==
  ASSUME TypeOK, FlagsMatch, NEW s, NEW i \in Pos, NEW pk,
         s \in Handles => FlagMatches(pk), packets' = [packets EXCEPT ![s][i] = pk]
  PROVE  FlagsMatch'
<1> SUFFICES ASSUME NEW h \in Handles, NEW j \in Pos PROVE FlagMatches(packets'[h][j])
  BY DEF FlagsMatch, FlagMatches, isDecrypted
<1>1. CASE h = s /\ j = i
  <2>1. packets'[h][j] = pk
    BY <1>1 DEF TypeOK
  <2> QED BY <2>1, <1>1
<1>2. CASE ~(h = s /\ j = i)
  <2>1. packets'[h][j] = packets[h][j]
    BY <1>2 DEF TypeOK
  <2> QED BY <2>1 DEF FlagsMatch
<1> QED BY <1>1, <1>2

\* Replacing one key object by one whose packets agree keeps the agreement.
LEMMA KeyFlagUpdate ==
  ASSUME TypeOK, FlagsMatch, NEW s, NEW key,
         \A i \in Pos : FlagMatches(key[i]), packets' = [packets EXCEPT ![s] = key]
  PROVE  FlagsMatch'
<1> SUFFICES ASSUME NEW h \in Handles, NEW j \in Pos PROVE FlagMatches(packets'[h][j])
  BY DEF FlagsMatch, FlagMatches, isDecrypted
<1>1. packets'[h] = IF h = s THEN key ELSE packets[h]
  BY DEF TypeOK
<1> QED BY <1>1 DEF FlagsMatch

\* A packet of a held key, or of a key that a call works on.
LEMMA SlotFlags ==
  ASSUME TypeOK, FlagsMatch
  PROVE  /\ \A h \in Handles : Held(h) => \A i \in Pos : FlagMatches(packets[owner[h]][i])
         /\ \A c \in Calls : Running(c) => \A i \in Pos : FlagMatches(packets[owner[c]][i])
BY SlotTypes DEF FlagsMatch

\* The steps of encryptKey keep flags and parameters in agreement.
LEMMA EncryptFlags ==
  ASSUME TypeOK, FlagsMatch, NEW c \in Calls, EncryptKeyStep(c) \/ PacketStep(c)
  PROVE  FlagsMatch'
<1>0. c \in Handles /\ Pass \subseteq Args /\ NoPass \in Args
  BY DEF Handles, Args
<1>1. ASSUME NEW h \in Handles, NEW pass \in PassArgs, EncryptKey(c, h, pass)
      PROVE  FlagsMatch'
  <2> DEFINE key == packets[owner[h]]
             new == [i \in Pos |-> EncryptPrologue(key[i], pass[i], c)]
  <2>1. key \in [Pos -> Packet] /\ \A i \in Pos : FlagMatches(key[i])
    BY <1>1, SlotTypes, SlotFlags DEF EncryptKey
  <2>2. \A i \in Pos : FlagMatches(new[i])
    BY <2>1, <1>0, FlagsKept DEF PassArgs
  <2>3. packets' = [packets EXCEPT ![CloneDeep(c, h)] = new]
    BY <1>1 DEF EncryptKey
  <2> QED BY <2>2, <2>3, KeyFlagUpdate
<1>2. ASSUME EncryptKeyThrows(c) PROVE FlagsMatch'
  <2>1. \A i \in Pos : FlagMatches(ClearedKey(packets[owner[c]])[i])
    BY <1>2, SlotTypes, SlotFlags, ClearedKeyFlags DEF EncryptKeyThrows, Running
  <2> QED BY <1>2, <2>1, KeyFlagUpdate DEF EncryptKeyThrows
<1>3. ASSUME EncryptKeyReturns(c) PROVE FlagsMatch'
  BY <1>3 DEF EncryptKeyReturns, FlagsMatch
<1>4. ASSUME NEW i \in Pos, NEW p \in Pass, EncryptKeyClears(c, i, p)
      PROVE  FlagsMatch'
  <2> DEFINE pk == packets[owner[c]][i]
  <2>1. owner[c] \in Handles => FlagMatches(Cleared(pk))
    BY <1>0, FlagsKept DEF TypeOK
  <2>2. packets' = [packets EXCEPT ![owner[c]][i] = Cleared(pk)] \/ packets' = packets
    BY <1>4 DEF EncryptKeyClears
  <2> HIDE DEF pk
  <2> QED BY <2>1, <2>2, FlagUpdate DEF FlagsMatch
<1>5. ASSUME NEW i \in Pos, NEW p \in Pass, EncryptDerived(c, i, p)
      PROVE  FlagsMatch'
  <2> DEFINE pk == Derived(packets[owner[c]][i], c)
  <2>1. owner[c] \in Handles => FlagMatches(pk)
    BY <1>0, FlagsKept DEF TypeOK, FlagsMatch
  <2>2. packets' = [packets EXCEPT ![owner[c]][i] = pk]
    BY <1>5 DEF EncryptDerived
  <2> HIDE DEF pk
  <2> QED BY <2>1, <2>2, FlagUpdate
<1>6. ASSUME NEW i \in Pos, NEW p \in Pass, EncryptCiphered(c, i, p)
      PROVE  FlagsMatch'
  <2> DEFINE material == Enc(p, task[c][i][p].salt, task[c][i][p].iv)
             pk == Holding(packets[owner[c]][i], material)
  <2>1. task[c][i][p].salt \in Handles /\ task[c][i][p].iv \in Handles
    BY <1>0 DEF TypeOK, Task
  <2>2. material \in Material
    BY <1>0, <2>1, MaterialTypes
  <2> HIDE DEF material
  <2>3. owner[c] \in Handles => FlagMatches(pk)
    BY <1>0, <2>2, FlagsKept DEF TypeOK, FlagsMatch
  <2>4. packets' = [packets EXCEPT ![owner[c]][i] = pk]
    BY <1>6 DEF EncryptCiphered, material
  <2> HIDE DEF pk
  <2> QED BY <2>3, <2>4, FlagUpdate
<1>7. ASSUME NEW i \in Pos, NEW p \in Pass, EncryptHashed(c, i, p)
      PROVE  FlagsMatch'
  BY <1>7 DEF EncryptHashed, FlagsMatch
<1> QED BY <1>1, <1>2, <1>3, <1>4, <1>5, <1>6, <1>7 DEF EncryptKeyStep, PacketStep

\* The steps of decryptKey keep flags and parameters in agreement.
LEMMA DecryptFlags ==
  ASSUME TypeOK, FlagsMatch, NEW c \in Calls, DecryptKeyStep(c)
  PROVE  FlagsMatch'
<1>1. ASSUME NEW h \in Handles, NEW passes \in SUBSET Pass, DecryptKey(c, h, passes)
      PROVE  FlagsMatch'
  <2>1. \A i \in Pos : FlagMatches(packets[owner[h]][i])
    BY <1>1, SlotFlags DEF DecryptKey
  <2> QED BY <1>1, <2>1, KeyFlagUpdate DEF DecryptKey
<1>2. ASSUME DecryptKeyThrows(c) PROVE FlagsMatch'
  <2>1. \A i \in Pos : FlagMatches(ClearedKey(packets[owner[c]])[i])
    BY <1>2, SlotTypes, SlotFlags, ClearedKeyFlags DEF DecryptKeyThrows, Running
  <2> QED BY <1>2, <2>1, KeyFlagUpdate DEF DecryptKeyThrows
<1>3. ASSUME DecryptKeyReturns(c) PROVE FlagsMatch'
  BY <1>3 DEF DecryptKeyReturns, FlagsMatch
<1>4. ASSUME NEW i \in Pos, NEW p \in Pass, DecryptDerived(c, i, p)
      PROVE  FlagsMatch'
  BY <1>4 DEF DecryptDerived, FlagsMatch
<1>5. ASSUME NEW i \in Pos, NEW p \in Pass, DecryptCiphered(c, i, p)
      PROVE  FlagsMatch'
  <2> DEFINE pk == Decrypted(packets[owner[c]][i])
  <2>1. owner[c] \in Handles => FlagMatches(pk)
    BY FlagsKept, ArgAndHandle DEF TypeOK
  <2>2. packets' = [packets EXCEPT ![owner[c]][i] = pk] \/ packets' = packets
    BY <1>5 DEF DecryptCiphered
  <2> HIDE DEF pk
  <2> QED BY <2>1, <2>2, FlagUpdate DEF FlagsMatch
<1> QED BY <1>1, <1>2, <1>3, <1>4, <1>5 DEF DecryptKeyStep

\* The steps of generateKey and reformatKey keep flags and parameters in agreement.
LEMMA WrapFlags ==
  ASSUME TypeOK, FlagsMatch, NEW c \in Calls, WrapStep(c)
  PROVE  FlagsMatch'
<1>0. c \in Handles /\ Pass \subseteq Args /\ NoPass \in Args
  BY DEF Handles, Args
<1>1. ASSUME NEW pass \in PassArgs, GenerateKey(c, pass) PROVE FlagsMatch'
  <2> DEFINE new == [i \in Pos |-> Generated(c)]
  <2>1. \A i \in Pos : FlagMatches(new[i])
    BY DEF Generated, FlagMatches, isDecrypted
  <2>2. packets' = [packets EXCEPT ![c] = new]
    BY <1>1 DEF GenerateKey
  <2> QED BY <2>1, <2>2, KeyFlagUpdate
<1>2. ASSUME NEW h \in Handles, NEW pass \in PassArgs, ReformatKey(c, h, pass) PROVE FlagsMatch'
  BY <1>2 DEF ReformatKey, FlagsMatch
<1>3. ASSUME NEW S \in SUBSET Pos, NEW next, Running(c), WrapEncrypts(c, S, next)
      PROVE  FlagsMatch'
  <2> DEFINE key == packets[owner[c]]
             pass == call[c].pass
             T == {i \in S : pass[i] # NoPass}
             new == [i \in Pos |-> IF i \in T THEN EncryptPrologue(key[i], pass[i], c) ELSE key[i]]
  <2>1. key \in [Pos -> Packet] /\ \A i \in Pos : FlagMatches(key[i])
    BY <1>3, SlotTypes, SlotFlags
  <2>2. pass \in [Pos -> Args]
    BY DEF TypeOK, CallRec
  <2>3. \A i \in Pos : FlagMatches(new[i])
    BY <2>1, <2>2, <1>0, FlagsKept
  <2>4. packets' = [packets EXCEPT ![owner[c]] = new]
    BY <1>3 DEF WrapEncrypts
  <2> QED BY <2>3, <2>4, KeyFlagUpdate
<1>4. ASSUME WrapPrimary(c) \/ WrapSubkeys(c) PROVE FlagsMatch'
  <2>1. CASE WrapPrimary(c)
    BY <2>1, <1>3, PrimaryAssumption DEF WrapPrimary, Running
  <2>2. CASE WrapSubkeys(c)
    BY <2>2, <1>3 DEF WrapSubkeys, Running
  <2> QED BY <1>4, <2>1, <2>2
<1>5. ASSUME WrapSign(c) \/ WrapSigned(c) \/ WrapThrows(c) PROVE FlagsMatch'
  BY <1>5 DEF WrapSign, WrapSigned, WrapThrows, FlagsMatch
<1>6. ASSUME WrapReturns(c) PROVE FlagsMatch'
  <2> DEFINE key == packets[owner[c]]
             locks(i) == call[c].pass[i] # NoPass /\ ~isMissingSecretKeyMaterial(key[i])
             stuck(i) == locks(i) /\ key[i].privateParams = "null"
             new == [i \in Pos |-> IF locks(i) /\ ~stuck(i) /\ ~stuck(Primary)
                                   THEN Cleared(key[i]) ELSE key[i]]
  <2>1. key \in [Pos -> Packet] /\ \A i \in Pos : FlagMatches(key[i])
    BY <1>6, SlotTypes, SlotFlags DEF WrapReturns, Running
  <2>2. \A i \in Pos : FlagMatches(new[i])
    <3>1. \A i \in Pos : FlagMatches(key[i]) /\ FlagMatches(Cleared(key[i]))
      BY <1>0, <2>1, FlagsKept
    <3> HIDE DEF key, locks, stuck
    <3> QED BY <3>1
  <2>3. packets' = [packets EXCEPT ![owner[c]] = new]
    BY <1>6 DEF WrapReturns
  <2> QED BY <2>2, <2>3, KeyFlagUpdate
<1> QED BY <1>1, <1>2, <1>4, <1>5, <1>6 DEF WrapStep

\* The synchronous operations keep flags and parameters in agreement.
LEMMA UserFlags ==
  ASSUME TypeOK, FlagsMatch, UserStep
  PROVE  FlagsMatch'
<1>1. ASSUME NEW h \in Handles, ClearPrivateParams(h) PROVE FlagsMatch'
  <2>1. \A i \in Pos : FlagMatches(ClearedKey(packets[owner[h]])[i])
    BY <1>1, SlotTypes, SlotFlags, ClearedKeyFlags DEF ClearPrivateParams
  <2> QED BY <1>1, <2>1, KeyFlagUpdate DEF ClearPrivateParams
<1>2. ASSUME NEW h \in Handles, NEW i \in Pos, MakeDummy(h, i) PROVE FlagsMatch'
  <2> DEFINE pk == Dummied(packets[owner[h]][i])
  <2>1. owner[h] \in Handles => FlagMatches(pk)
    BY FlagsKept, ArgAndHandle DEF TypeOK, FlagsMatch
  <2>2. packets' = [packets EXCEPT ![owner[h]][i] = pk]
    BY <1>2 DEF MakeDummy
  <2> HIDE DEF pk
  <2> QED BY <2>1, <2>2, FlagUpdate
<1>3. ASSUME NEW h \in Handles, NEW i \in Pos, Write(h, i) PROVE FlagsMatch'
  <2> DEFINE pk == Holding(packets[owner[h]][i], Clear)
  <2>1. owner[h] \in Handles => FlagMatches(pk)
    BY FlagsKept, ArgAndHandle, MaterialTypes DEF TypeOK, FlagsMatch
  <2>2. packets' = [packets EXCEPT ![owner[h]][i] = pk]
    BY <1>3 DEF Write
  <2> HIDE DEF pk
  <2> QED BY <2>1, <2>2, FlagUpdate
<1>4. ASSUME NEW c \in Calls, NEW h \in Handles, RevokeKey(c, h) PROVE FlagsMatch'
  BY <1>4 DEF RevokeKey, FlagsMatch
<1> QED BY <1>1, <1>2, <1>3, <1>4 DEF UserStep, Destroy

\* The flags agree with the params in the initial state.
LEMMA InitFlags == Init => FlagsMatch
<1> SUFFICES ASSUME Init, NEW h \in Handles, NEW i \in Pos PROVE FlagMatches(packets[h][i])
  BY DEF FlagsMatch
<1>1. PICK key \in [Pos -> ReadPackets] :
        packets = [g \in Handles |-> IF g = Original THEN key ELSE [j \in Pos |-> Generated(g)]]
  BY DEF Init
<1>2. FlagMatches(Generated(h))
  BY DEF Generated, FlagMatches, isDecrypted
<1> QED BY <1>1, <1>2, ReadFlags

\* Every step keeps them in agreement.
LEMMA FlagStep == ASSUME TypeOK, FlagsMatch, [Next]_vars PROVE FlagsMatch'
<1>1. ASSUME NEW c \in Calls, EncryptKeyStep(c) \/ DecryptKeyStep(c) \/ PacketStep(c) \/ WrapStep(c)
      PROVE  FlagsMatch'
  BY <1>1, EncryptFlags, DecryptFlags, WrapFlags
<1>2. CASE UserStep
  BY <1>2, UserFlags
<1>3. CASE UNCHANGED vars
  BY <1>3 DEF vars, FlagsMatch
<1> QED BY <1>1, <1>2, <1>3 DEF Next

\* isDecrypted() never lies: in every packet of every key, at every turn of
\* every call, the flag says "decrypted" exactly when the params are there.
THEOREM FlagCorrect == Spec => []ParamsMatchFlag
<1>1. TypeOK /\ FlagsMatch /\ [Next]_vars => FlagsMatch'
  BY FlagStep
<1>2. TypeOK /\ FlagsMatch => ParamsMatchFlag
  BY DEF ParamsMatchFlag
<1> QED BY InitFlags, <1>1, <1>2, TypeCorrect, PTL DEF Spec

\* One task of one call moves on; the other tasks stay what they are.
Moves(c, i, p, stage) ==
  /\ \A d \in Calls : d # c => task'[d] = task[d]
  /\ \A j \in Pos, q \in Args :
       /\ Stage(c, j, q)' = IF j = i /\ q = p THEN stage ELSE Stage(c, j, q)
       /\ task'[c][j][q].salt = task[c][j][q].salt
       /\ ~(j = i /\ q = p) => task'[c][j][q] = task[c][j][q]

LEMMA TaskMoved ==
  ASSUME TypeOK, NEW c \in Calls, NEW i \in Pos, NEW p \in Args, NEW new, NEW stage,
         task' = [task EXCEPT ![c][i][p] = new], new.at = stage, new.salt = task[c][i][p].salt
  PROVE  Moves(c, i, p, stage) /\ task'[c][i][p] = new
<1>1. /\ task \in [Calls -> [Pos -> [Args -> Task]]]
      /\ task' = [task EXCEPT ![c] = [task[c] EXCEPT ![i] = [task[c][i] EXCEPT ![p] = new]]]
  BY DEF TypeOK
<1>2. \A d \in Calls : d # c => task'[d] = task[d]
  BY <1>1
<1>3. ASSUME NEW j \in Pos, NEW q \in Args
      PROVE  task'[c][j][q] = IF j = i /\ q = p THEN new ELSE task[c][j][q]
  <2>1. task'[c] = [task[c] EXCEPT ![i] = [task[c][i] EXCEPT ![p] = new]]
    BY <1>1
  <2>2. task[c] \in [Pos -> [Args -> Task]] /\ task[c][i] \in [Args -> Task]
    BY <1>1
  <2>3. task'[c][j] = IF j = i THEN [task[c][i] EXCEPT ![p] = new] ELSE task[c][j]
    BY <2>1, <2>2
  <2> QED BY <2>2, <2>3
<1> QED BY <1>2, <1>3 DEF Moves, Stage

LEMMA Advanced ==
  ASSUME TypeOK, NEW c \in Calls, NEW i \in Pos, NEW p \in Args, NEW stage,
         task' = Advance(c, i, p, stage)
  PROVE  Moves(c, i, p, stage)
<1> DEFINE new == [task[c][i][p] EXCEPT !.at = stage]
<1>1. task[c][i][p] \in [at : Stages, salt : Handles, iv : Handles]
  BY DEF TypeOK, Task
<1>2. new.at = stage /\ new.salt = task[c][i][p].salt
  BY <1>1
<1>3. task' = [task EXCEPT ![c][i][p] = new]
  BY DEF Advance
<1> HIDE DEF new
<1> QED BY <1>2, <1>3, TaskMoved

\* A task that starts the cipher keeps the iv that it found.
LEMMA Hashed ==
  ASSUME TypeOK, NEW c \in Calls, NEW i \in Pos, NEW p \in Args, EncryptHashed(c, i, p)
  PROVE  Moves(c, i, p, "cipher") /\ task'[c][i][p].iv = Pk(c, i).iv
<1> DEFINE new == [task[c][i][p] EXCEPT !.at = "cipher", !.iv = packets[owner[c]][i].iv]
<1>1. task[c][i][p] \in [at : Stages, salt : Handles, iv : Handles]
  BY DEF TypeOK, Task
<1>2. new.at = "cipher" /\ new.salt = task[c][i][p].salt /\ new.iv = packets[owner[c]][i].iv
  BY <1>1
<1>3. task' = [task EXCEPT ![c][i][p] = new]
  BY DEF EncryptHashed
<1> HIDE DEF new
<1>4. Moves(c, i, p, new.at)
  BY <1>2, <1>3, TaskMoved
<1>5. task'[c][i][p] = new
  BY <1>3 DEF TypeOK
<1> QED BY <1>2, <1>4, <1>5 DEF Pk

-----------------------------------------------------------------------------
(* Calls and their tasks *)

\* A call goes on: what the other calls and their slots are is unchanged.
LEMMA CallGoesOn ==
  ASSUME TypeOK, CallsRight, NEW c \in Calls, UNCHANGED <<owner, call>>,
         \A d \in Calls : d # c => status'[d] = status[d] /\ task'[d] = task[d],
         status'[c] # "returned" => status[c] # "returned",
         PhaseRight(c)', EncryptTasks(c)', WrapTasks(c)', OtherTasks(c)', Writes(c)' => Writes(c)
  PROVE  CallsRight'
<1>1. ASSUME NEW d \in Calls, d # c
      PROVE  /\ PhaseRight(d)' /\ EncryptTasks(d)' /\ WrapTasks(d)' /\ OtherTasks(d)'
             /\ Writes(d)' => Writes(d)
  <2>1. PhaseRight(d) /\ EncryptTasks(d) /\ WrapTasks(d) /\ OtherTasks(d)
    BY DEF CallsRight
  <2>2. status'[d] = status[d] /\ task'[d] = task[d] /\ call'[d] = call[d] /\ owner' = owner
    BY <1>1
  <2>3. PhaseRight(d)'
    BY <2>1, <2>2 DEF PhaseRight, Op, Running
  <2>4. EncryptTasks(d)' /\ WrapTasks(d)' /\ OtherTasks(d)'
    BY <2>1, <2>2 DEF EncryptTasks, WrapTasks, OtherTasks, Op, Stage
  <2>5. Writes(d)' => Writes(d)
    BY <2>2 DEF Writes, InFlight, Op, Running, Stage
  <2> QED BY <2>3, <2>4, <2>5
<1>2. \A d \in Calls : Private(d)'
  BY DEF CallsRight, Private, Op
<1>3. OneWriter'
  <2>1. \A s : Overlapped(s) => Overlapped(s)'
    BY DEF Overlapped
  <2> QED BY <1>1, <2>1 DEF CallsRight, OneWriter
<1> QED BY <1>1, <1>2, <1>3 DEF CallsRight

\* A call starts, on a slot of its own or on that of a held key.
LEMMA CallStarts ==
  ASSUME TypeOK, CallsRight, NEW c \in Calls, status[c] = "unused",
         \A d \in Calls : d # c => status'[d] = status[d] /\ task'[d] = task[d] /\ call'[d] = call[d],
         \A h \in Handles : h # c => owner'[h] = owner[h],
         \/ owner'[c] = c
         \/ owner'[c] = Null /\ Op(c)' \notin {"encryptKey", "decryptKey", "generateKey"}
         \/ /\ \E h \in Handles : Held(h) /\ owner'[c] = owner[h]
            /\ Op(c)' \notin {"encryptKey", "decryptKey", "generateKey"},
         status'[c] # "unused",
         PhaseRight(c)', EncryptTasks(c)', WrapTasks(c)', OtherTasks(c)',
         Writes(c)' => \A d \in Calls : d # c /\ Writes(d) => owner'[c] # owner[d] \/ call'[c].overlaps
  PROVE  CallsRight'
<1>0. PhaseRight(c)
  BY DEF CallsRight
<1>1. owner[c] = Null /\ \A h \in Handles : owner[h] # c
  BY <1>0 DEF PhaseRight
<1>2. ASSUME NEW d \in Calls, d # c
      PROVE  /\ PhaseRight(d)' /\ EncryptTasks(d)' /\ WrapTasks(d)' /\ OtherTasks(d)' /\ Private(d)'
             /\ Writes(d)' => Writes(d)
  <2>1. PhaseRight(d) /\ EncryptTasks(d) /\ WrapTasks(d) /\ OtherTasks(d) /\ Private(d)
    BY DEF CallsRight
  <2>2. status'[d] = status[d] /\ task'[d] = task[d] /\ call'[d] = call[d] /\ owner'[d] = owner[d]
    BY <1>2, Inclusions
  <2>3. owner'[c] = d => status[d] = "returned" \/ Op(d) \notin {"encryptKey", "decryptKey", "generateKey"}
    BY <1>2, <2>1, Inclusions DEF Private, Held
  <2>4. owner'[c] = d => status[d] # "unused"
    BY <1>2, <2>1, Inclusions DEF PhaseRight, Held
  <2>5. PhaseRight(d)'
    BY <2>1, <2>2, <2>4 DEF PhaseRight, Op, Running
  <2>6. EncryptTasks(d)' /\ WrapTasks(d)'
    BY <2>1, <2>2 DEF EncryptTasks, WrapTasks, Op, Stage
  <2>7. OtherTasks(d)'
    <3>1. \A i \in Pos, p \in Args : task[d][i][p].salt \in Handles
      BY DEF TypeOK, Task
    <3>2. \A s \in Handles : owner[s] \notin {Null, d} => owner'[s] \notin {Null, d}
      BY <1>1
    <3> QED BY <2>1, <2>2, <3>1, <3>2 DEF OtherTasks, Op, Stage
  <2>8. Private(d)'
    BY <2>1, <2>2, <2>3 DEF Private, Op
  <2>9. Writes(d)' => Writes(d)
    BY <2>2 DEF Writes, InFlight, Op, Running, Stage
  <2> QED BY <2>5, <2>6, <2>7, <2>8, <2>9
<1>3. Private(c)'
  BY <1>1 DEF Private
<1>4. OneWriter'
  <2> SUFFICES ASSUME NEW a \in Calls, NEW b \in Calls, Writes(a)', Writes(b)', owner'[a] = owner'[b], a # b
               PROVE  Overlapped(owner[a])'
    BY DEF OneWriter
  <2>1. CASE a # c /\ b # c
    <3>1. Overlapped(owner[a])
      BY <2>1, <1>2, Inclusions DEF CallsRight, OneWriter
    <3>2. PICK d \in Calls : owner[d] = owner[a] /\ call[d].overlaps
      BY <3>1 DEF Overlapped
    <3>3. d # c
      BY <1>0, <3>2 DEF PhaseRight
    <3> QED BY <2>1, <3>2, <3>3, Inclusions DEF Overlapped
  <2>2. CASE a = c \/ b = c
    <3>1. call'[c].overlaps /\ owner'[a] = owner'[c]
      BY <2>2, <1>2, Inclusions
    <3> QED BY <3>1 DEF Overlapped
  <2> QED BY <2>1, <2>2
<1> QED BY <1>2, <1>3, <1>4 DEF CallsRight

\* A running call comes to another phase, by a step that leaves the tasks alone.
LEMMA PhaseStep ==
  ASSUME TypeOK, CallsRight, NEW c \in Calls, NEW phase \in {"signing", "signed", "returned", "threw"},
         Running(c), status' = [status EXCEPT ![c] = phase], UNCHANGED <<owner, call, task>>,
         phase \in {"signing", "signed"} => Op(c) \in Wrapping,
         EncryptTasks(c)', WrapTasks(c)'
  PROVE  CallsRight'
<1>1. /\ \A d \in Calls : d # c => status'[d] = status[d] /\ task'[d] = task[d]
      /\ status'[c] = phase
  BY DEF TypeOK
<1>2. PhaseRight(c) /\ OtherTasks(c)
  BY DEF CallsRight
<1>3. PhaseRight(c)'
  BY <1>1, <1>2 DEF PhaseRight, Op, Running
<1>4. OtherTasks(c)'
  BY <1>2 DEF OtherTasks, Op, Stage
<1>5. Writes(c)' => Writes(c)
  BY DEF Writes, Op
<1> QED BY <1>1, <1>3, <1>4, <1>5, CallGoesOn DEF Running

\* One task moves on, and the phases stay.
LEMMA TaskStep ==
  ASSUME TypeOK, CallsRight, NEW c \in Calls, NEW i \in Pos, NEW p \in Args, NEW stage,
         Moves(c, i, p, stage), UNCHANGED <<owner, call, status>>,
         Stage(c, i, p) # "none",
         \/ /\ Op(c) \in Encrypting /\ stage \in AtWork \cup {"encrypted", "done", "failed"}
            /\ Op(c) = "encryptKey" /\ status[c] = "returned" => stage \in {"none", "done"}
            /\ Op(c) \in Wrapping => status[c] \in {"primary", "subkeys", "threw"}
            /\ stage \in AtWork \cup {"encrypted"} => p # NoPass /\ InFlight(c)
         \/ Op(c) = "decryptKey" /\ stage \in {"matched", "wrong", "done", "failed"}
  PROVE  CallsRight'
<1>1. /\ \A d \in Calls : d # c => status'[d] = status[d] /\ task'[d] = task[d]
      /\ \A j \in Pos, q \in Args :
              /\ Stage(c, j, q)' = IF j = i /\ q = p THEN stage ELSE Stage(c, j, q)
              /\ task'[c][j][q].salt = task[c][j][q].salt
  BY DEF Moves
<1>2. PhaseRight(c) /\ OtherTasks(c) /\ EncryptTasks(c) /\ WrapTasks(c)
  BY DEF CallsRight
<1>3. PhaseRight(c)'
  BY <1>1, <1>2 DEF PhaseRight, Op, Running
<1>4. OtherTasks(c)'
  BY <1>1, <1>2 DEF OtherTasks, Op, Encrypting, Wrapping, AtWork
<1>5. EncryptTasks(c)'
  BY <1>1, <1>2 DEF EncryptTasks, Op, Encrypting, Wrapping, AtWork
<1>6. WrapTasks(c)'
  BY <1>1, <1>2 DEF WrapTasks, Op, Encrypting, Wrapping, AtWork
<1>7. Writes(c)' => Writes(c)
  <2>1. CASE Op(c) \in Encrypting /\ stage \in AtWork \cup {"encrypted"}
    BY <2>1 DEF Writes, Op, AtWork, Encrypting, Wrapping
  <2>2. CASE Op(c) \in Encrypting /\ stage \notin AtWork \cup {"encrypted"}
    <3>1. InFlight(c)' => InFlight(c)
      BY <1>1, <2>2, Inclusions DEF InFlight, AtWork
    <3> QED BY <3>1 DEF Writes, Op, Running
  <2>3. CASE Op(c) \notin Encrypting
    BY <2>3 DEF Writes, Op
  <2> QED BY <2>1, <2>2, <2>3
<1> QED BY <1>1, <1>3, <1>4, <1>5, <1>6, <1>7, CallGoesOn

\* The steps of encryptKey.
LEMMA EncryptKeyCalls ==
  ASSUME TypeOK, CallsRight, NEW c \in Calls, EncryptKeyStep(c)
  PROVE  CallsRight'
<1>0. EncryptTasks(c) /\ WrapTasks(c) /\ PhaseRight(c) /\ OtherTasks(c)
  BY DEF CallsRight
<1>1. ASSUME NEW h \in Handles, NEW pass \in PassArgs, EncryptKey(c, h, pass)
      PROVE  CallsRight'
  <2>1. /\ \A d \in Calls : d # c => status'[d] = status[d] /\ task'[d] = task[d] /\ call'[d] = call[d]
        /\ \A g \in Handles : g # c => owner'[g] = owner[g]
        /\ owner'[c] = c /\ status'[c] = "packets" /\ Op(c)' = "encryptKey" /\ call'[c].pass = pass
        /\ call'[c].overlaps = FALSE
    BY <1>1, Inclusions DEF EncryptKey, Asked, CloneDeep, TypeOK, Op
  <2>2. \A i \in Pos, p \in Args : task'[c][i][p] =
          IF p = pass[i] THEN EncryptTask(packets[owner[h]][i], p, c, "done") ELSE Idle
    BY <1>1 DEF EncryptKey, TypeOK
  <2>3. PhaseRight(c)'
    BY <2>1 DEF PhaseRight, Running, Encrypting
  <2>4. EncryptTasks(c)'
    <3> SUFFICES ASSUME NEW i \in Pos, NEW p \in Args
                 PROVE  /\ Stage(c, i, p)' \in {"none", "kdf", "done", "failed"}
                        /\ Stage(c, i, p)' # "none" => p = pass[i] /\ task'[c][i][p].salt = c
                        /\ Stage(c, i, p)' = "kdf" => p # NoPass
      BY <2>1, Inclusions DEF EncryptTasks, AtWork
    <3>1. CASE p = pass[i]
      BY <2>2, <3>1 DEF EncryptTask, EncryptRefuses, At, Stage
    <3>2. CASE p # pass[i]
      BY <2>2, <3>2 DEF Idle, At, Stage
    <3> QED BY <3>1, <3>2
  <2>5. WrapTasks(c)' /\ OtherTasks(c)'
    BY <2>1 DEF WrapTasks, OtherTasks, Wrapping
  <2>6. \A d \in Calls : d # c /\ Writes(d) => owner'[c] # owner[d]
    BY <2>1, <1>0, <1>1, Inclusions DEF EncryptKey, PhaseRight
  <2> QED BY <1>1, <2>1, <2>3, <2>4, <2>5, <2>6, CallStarts DEF EncryptKey
<1>2. ASSUME EncryptKeyThrows(c) \/ EncryptKeyReturns(c) PROVE CallsRight'
  <2>1. CASE EncryptKeyThrows(c)
    <3>1. EncryptTasks(c)' /\ WrapTasks(c)'
      BY <1>0, <2>1 DEF EncryptKeyThrows, EncryptTasks, WrapTasks, Op, Stage, Wrapping, TypeOK
    <3> QED BY <2>1, <3>1, PhaseStep DEF EncryptKeyThrows, Running
  <2>2. CASE EncryptKeyReturns(c)
    <3>1. EncryptTasks(c)' /\ WrapTasks(c)'
      BY <1>0, <2>2 DEF EncryptKeyReturns, EncryptTasks, WrapTasks, Op, Stage, Wrapping, TypeOK
    <3> QED BY <2>2, <3>1, PhaseStep DEF EncryptKeyReturns, Running
  <2> QED BY <1>2, <2>1, <2>2
<1>3. ASSUME NEW i \in Pos, NEW p \in Pass, EncryptKeyClears(c, i, p) PROVE CallsRight'
  <2>1. Op(c) = "encryptKey" /\ Stage(c, i, p) = "encrypted" /\ UNCHANGED <<owner, call, status>>
    BY <1>3 DEF EncryptKeyClears, Op, Stage
  <2>2. status[c] # "returned"
    BY <1>0, <2>1, Inclusions DEF EncryptTasks, Encrypting
  <2>3. PICK stage \in {"done", "failed"} : task' = Advance(c, i, p, stage)
    BY <1>3 DEF EncryptKeyClears
  <2>4. Moves(c, i, p, stage)
    BY <2>3, Advanced, Inclusions
  <2> QED BY <2>1, <2>2, <2>4, TaskStep, Inclusions DEF Encrypting, Wrapping, AtWork
<1> QED BY <1>1, <1>2, <1>3 DEF EncryptKeyStep

\* The three turns of packet.encrypt(): which task moves, and how far.
LEMMA PacketStepMoves ==
  ASSUME TypeOK, NEW c \in Calls, PacketStep(c)
  PROVE  \E i \in Pos, p \in Pass, stage \in {"hash", "cipher", "encrypted"} :
           /\ Op(c) # "decryptKey" /\ Stage(c, i, p) \in AtWork
           /\ Moves(c, i, p, stage) /\ UNCHANGED <<owner, call, status>>
<1>1. PICK i \in Pos, p \in Pass : EncryptDerived(c, i, p) \/ EncryptHashed(c, i, p) \/ EncryptCiphered(c, i, p)
  BY DEF PacketStep
<1>2. CASE EncryptDerived(c, i, p)
  <2>1. /\ Op(c) # "decryptKey" /\ Stage(c, i, p) = "kdf" /\ task' = Advance(c, i, p, "hash")
        /\ UNCHANGED <<owner, call, status>>
    BY <1>2 DEF EncryptDerived, Op, Stage
  <2> QED BY <2>1, Advanced, Inclusions DEF AtWork
<1>3. CASE EncryptHashed(c, i, p)
  <2>1. Op(c) # "decryptKey" /\ Stage(c, i, p) = "hash" /\ UNCHANGED <<owner, call, status>>
    BY <1>3 DEF EncryptHashed, Op, Stage
  <2> QED BY <1>3, <2>1, Hashed, Inclusions DEF AtWork
<1>4. CASE EncryptCiphered(c, i, p)
  <2>1. /\ Op(c) # "decryptKey" /\ Stage(c, i, p) = "cipher" /\ task' = Advance(c, i, p, "encrypted")
        /\ UNCHANGED <<owner, call, status>>
    BY <1>4 DEF EncryptCiphered, Op, Stage
  <2> QED BY <2>1, Advanced, Inclusions DEF AtWork
<1> QED BY <1>1, <1>2, <1>3, <1>4

\* The steps of packet.encrypt().
LEMMA PacketStepCalls ==
  ASSUME TypeOK, CallsRight, NEW c \in Calls, PacketStep(c)
  PROVE  CallsRight'
<1>0. EncryptTasks(c) /\ WrapTasks(c) /\ PhaseRight(c) /\ OtherTasks(c)
  BY DEF CallsRight
<1>1. PICK i \in Pos, p \in Pass, stage \in {"hash", "cipher", "encrypted"} :
        /\ Op(c) # "decryptKey" /\ Stage(c, i, p) \in AtWork
        /\ Moves(c, i, p, stage) /\ UNCHANGED <<owner, call, status>>
  BY PacketStepMoves
<1>2. Op(c) \in Encrypting
  BY <1>0, <1>1, Inclusions DEF OtherTasks, AtWork, Encrypting, Wrapping, TypeOK, CallRec, Op
<1>3. Op(c) = "encryptKey" => status[c] # "returned"
  BY <1>0, <1>1, <1>2, Inclusions DEF EncryptTasks, AtWork
<1>4. Op(c) \in Wrapping => status[c] \in {"primary", "subkeys", "threw"}
  BY <1>0, <1>1, <1>2, Inclusions DEF WrapTasks, AtWork, PhaseRight, TypeOK, Phases, Wrapping
<1>5. InFlight(c) /\ p # NoPass
  BY <1>1, Inclusions DEF InFlight
<1> QED BY <1>1, <1>2, <1>3, <1>4, <1>5, TaskStep, Inclusions DEF AtWork

\* The steps of decryptKey.
LEMMA DecryptKeyCalls ==
  ASSUME TypeOK, CallsRight, SaltsDrawn, NEW c \in Calls, DecryptKeyStep(c)
  PROVE  CallsRight'
<1>0. EncryptTasks(c) /\ WrapTasks(c) /\ PhaseRight(c) /\ OtherTasks(c)
  BY DEF CallsRight
<1>1. ASSUME NEW h \in Handles, NEW passes \in SUBSET Pass, DecryptKey(c, h, passes)
      PROVE  CallsRight'
  <2> DEFINE key == packets[owner[h]]
  <2>1. /\ \A d \in Calls : d # c => status'[d] = status[d] /\ task'[d] = task[d] /\ call'[d] = call[d]
        /\ \A g \in Handles : g # c => owner'[g] = owner[g]
        /\ owner'[c] = c /\ status'[c] = "packets" /\ Op(c)' = "decryptKey"
        /\ \A i \in Pos : call'[c].pass[i] = NoPass
        /\ call'[c].overlaps = FALSE
    BY <1>1, Inclusions DEF DecryptKey, Asked, CloneDeep, TypeOK, Op
  <2>2. \A i \in Pos, p \in Args : task'[c][i][p] =
                       IF p \notin passes THEN Idle
                       ELSE IF isDummy(key[i]) THEN At("done", Original)
                       ELSE IF DecryptRefuses(key[i]) THEN At("failed", Original)
                       ELSE At("kdf", key[i].salt)
    BY <1>1 DEF DecryptKey, TypeOK
  <2>3. PhaseRight(c)'
    BY <2>1 DEF PhaseRight, Running, Encrypting, Wrapping
  <2>4. \A i \in Pos : owner'[key[i].salt] \notin {Null, c}
    <3>1. owner[h] # Null /\ key \in [Pos -> Packet]
      BY <1>1, SlotTypes, Inclusions DEF DecryptKey
    <3>2. \A i \in Pos : key[i].salt \in Handles /\ owner[key[i].salt] # Null
      BY <3>1 DEF SaltsDrawn, Packet
    <3>3. owner[c] = Null /\ \A g \in Handles : owner[g] # c
      BY <1>0, <1>1 DEF PhaseRight, DecryptKey
    <3> QED BY <2>1, <3>2, <3>3
  <2>5. OtherTasks(c)'
    <3> SUFFICES ASSUME NEW i \in Pos, NEW p \in Args
                 PROVE  /\ Stage(c, i, p)' \in {"none", "kdf", "done", "failed"}
                        /\ Stage(c, i, p)' # "none" => p # NoPass
                        /\ Stage(c, i, p)' = "kdf" => owner'[task'[c][i][p].salt] \notin {Null, c}
      BY <2>1 DEF OtherTasks
    <3>1. CASE p \notin passes
      <4>1. task'[c][i][p] = Idle
        BY <2>2, <3>1
      <4> QED BY <4>1 DEF Idle, At, Stage
    <3>2. CASE p \in passes
      <4>1. p # NoPass
        BY <3>2, Inclusions
      <4>2. task'[c][i][p] \in {At("done", Original), At("failed", Original), At("kdf", key[i].salt)}
        BY <2>2, <3>2
      <4>3. /\ Stage(c, i, p)' \in {"kdf", "done", "failed"}
            /\ Stage(c, i, p)' = "kdf" => task'[c][i][p].salt = key[i].salt
        BY <4>2 DEF At, Stage
      <4> HIDE DEF key
      <4> QED BY <2>4, <4>1, <4>3
    <3> QED BY <3>1, <3>2
  <2>6. WrapTasks(c)' /\ EncryptTasks(c)' /\ ~Writes(c)'
    BY <2>1 DEF WrapTasks, EncryptTasks, Writes, Wrapping, Encrypting
  <2> QED BY <1>1, <2>1, <2>3, <2>5, <2>6, CallStarts DEF DecryptKey
<1>2. ASSUME DecryptKeyThrows(c) \/ DecryptKeyReturns(c) PROVE CallsRight'
  <2>1. PICK phase \in {"returned", "threw"} :
          /\ Op(c) = "decryptKey" /\ status[c] = "packets"
          /\ status' = [status EXCEPT ![c] = phase] /\ UNCHANGED <<owner, call, task>>
    BY <1>2 DEF DecryptKeyThrows, DecryptKeyReturns, Op
  <2>2. EncryptTasks(c)' /\ WrapTasks(c)'
    BY <2>1 DEF EncryptTasks, WrapTasks, Op, Wrapping, Encrypting
  <2> QED BY <2>1, <2>2, PhaseStep DEF Running
<1>3. ASSUME NEW i \in Pos, NEW p \in Pass, DecryptDerived(c, i, p) \/ DecryptCiphered(c, i, p)
      PROVE  CallsRight'
  <2>1. /\ Stage(c, i, p) \in {"matched", "wrong"} \/ (Op(c) = "decryptKey" /\ Stage(c, i, p) = "kdf")
        /\ UNCHANGED <<owner, call, status>>
    <3>1. CASE DecryptDerived(c, i, p)
      BY <3>1 DEF DecryptDerived, Op, Stage
    <3>2. CASE DecryptCiphered(c, i, p)
      <4>1. task[c][i][p].at \in {"matched", "wrong"} /\ UNCHANGED <<owner, call, status>>
        BY <3>2 DEF DecryptCiphered
      <4> QED BY <4>1 DEF Stage
    <3> QED BY <1>3, <3>1, <3>2
  <2>2. PICK stage \in {"matched", "wrong", "done", "failed"} : task' = Advance(c, i, p, stage)
    <3>1. CASE DecryptDerived(c, i, p)
      BY <3>1 DEF DecryptDerived
    <3>2. CASE DecryptCiphered(c, i, p)
      BY <3>2 DEF DecryptCiphered
    <3> QED BY <1>3, <3>1, <3>2
  <2>3. Op(c) = "decryptKey"
    BY <1>0, <2>1, Inclusions, ZenonT(40) DEF EncryptTasks, AtWork, OtherTasks, Encrypting, Wrapping, TypeOK, CallRec, Op
  <2>4. Moves(c, i, p, stage)
    BY <2>2, Advanced, Inclusions
  <2> QED BY <2>1, <2>3, <2>4, TaskStep, Inclusions
<1> QED BY <1>1, <1>2, <1>3 DEF DecryptKeyStep

\* wrapKeyObject starts packet.encrypt() on some packets.
LEMMA WrapEncryptsCalls ==
  ASSUME TypeOK, CallsRight, NEW c \in Calls, NEW S \in SUBSET Pos, NEW next \in {"primary", "subkeys"},
         WrapEncrypts(c, S, next),
         \/ status[c] = "checked" /\ S = {Primary} /\ next = "primary"
         \/ status[c] = "primary" /\ S = Pos \ {Primary} /\ next = "subkeys"
  PROVE  CallsRight'
<1> DEFINE pass == call[c].pass
           T == {i \in S : pass[i] # NoPass}
           key == packets[owner[c]]
<1>0. EncryptTasks(c) /\ WrapTasks(c) /\ PhaseRight(c) /\ OtherTasks(c) /\ Private(c)
  BY DEF CallsRight
<1>1. /\ \A d \in Calls : d # c => status'[d] = status[d] /\ task'[d] = task[d]
      /\ status'[c] \in {next, "threw"} /\ UNCHANGED <<owner, call>>
  BY DEF WrapEncrypts, TypeOK
<1>2. Op(c) \in Wrapping /\ Running(c) /\ owner[c] # Null
  BY <1>0 DEF PhaseRight, Running, TypeOK
<1>3. \A i \in Pos, p \in Args : task'[c][i][p] =
         IF i \in T /\ p = pass[i] THEN EncryptTask(key[i], p, c, "encrypted") ELSE task[c][i][p]
  BY DEF WrapEncrypts, TypeOK
<1>4. \A i \in Pos, p \in Args : i \in T /\ p = pass[i] =>
        /\ Stage(c, i, p)' \in {"encrypted", "failed", "kdf"} /\ task'[c][i][p].salt = c
        /\ p # NoPass
  BY <1>3 DEF EncryptTask, At, Stage
<1>5. \A i \in Pos, p \in Args : ~(i \in T /\ p = pass[i]) =>
        Stage(c, i, p)' = Stage(c, i, p) /\ task'[c][i][p].salt = task[c][i][p].salt
  BY <1>3 DEF Stage
<1> HIDE DEF T
<1>6. PhaseRight(c)'
  BY <1>0, <1>1, <1>2 DEF PhaseRight, Op, Running, Encrypting
<1>7. EncryptTasks(c)'
  <2> SUFFICES ASSUME NEW i \in Pos, NEW p \in Args
               PROVE  /\ Stage(c, i, p)' \in AtWork \cup {"none", "encrypted", "done", "failed"}
                      /\ Stage(c, i, p)' # "none" => p = pass[i] /\ task'[c][i][p].salt = c
                      /\ Stage(c, i, p)' \in AtWork \cup {"encrypted"} => p # NoPass
    BY <1>1, <1>2 DEF EncryptTasks, Op, Wrapping
  <2>1. CASE i \in T /\ p = pass[i]
    BY <1>4, <2>1 DEF AtWork
  <2>2. CASE ~(i \in T /\ p = pass[i])
    BY <1>0, <1>2, <1>5, <2>2 DEF EncryptTasks, Encrypting
  <2> QED BY <2>1, <2>2
<1>8. WrapTasks(c)'
  <2> SUFFICES ASSUME NEW i \in Pos, NEW p \in Args
               PROVE  /\ p = NoPass => Stage(c, i, p)' = "none"
                      /\ status'[c] = "primary" /\ i # Primary => Stage(c, i, p)' = "none"
    BY <1>1 DEF WrapTasks
  <2>1. status'[c] = "primary" /\ i # Primary => status[c] = "checked" /\ i \notin T
    BY <1>1 DEF T
  <2>2. p = NoPass => ~(i \in T /\ p = pass[i])
    BY DEF T
  <2> QED BY <1>0, <1>2, <1>5, <2>1, <2>2 DEF WrapTasks
<1>9. OtherTasks(c)' /\ (Writes(c)' => Writes(c))
  BY <1>1, <1>2 DEF OtherTasks, Writes, Op, Encrypting, Wrapping
<1> QED BY <1>1, <1>2, <1>6, <1>7, <1>8, <1>9, CallGoesOn DEF Running

\* The steps of generateKey and reformatKey.
LEMMA WrapCalls ==
  ASSUME TypeOK, CallsRight, NEW c \in Calls, WrapStep(c)
  PROVE  CallsRight'
<1>0. EncryptTasks(c) /\ WrapTasks(c) /\ PhaseRight(c) /\ OtherTasks(c)
  BY DEF CallsRight
<1>1. ASSUME NEW pass \in PassArgs, GenerateKey(c, pass) PROVE CallsRight'
  <2>1. /\ \A d \in Calls : d # c => status'[d] = status[d] /\ task'[d] = task[d] /\ call'[d] = call[d]
        /\ \A g \in Handles : g # c => owner'[g] = owner[g]
        /\ owner'[c] = c /\ status'[c] = "checked" /\ Op(c)' = "generateKey" /\ task' = task
        /\ call'[c].overlaps = FALSE
    BY <1>1, Inclusions DEF GenerateKey, Asked, TypeOK, Op
  <2>2. \A i \in Pos, p \in Args : Stage(c, i, p)' = "none"
    BY <1>0, <1>1, <2>1 DEF PhaseRight, OtherTasks, GenerateKey, Stage
  <2>3. PhaseRight(c)' /\ EncryptTasks(c)' /\ WrapTasks(c)' /\ OtherTasks(c)'
    BY <2>1, <2>2 DEF PhaseRight, EncryptTasks, WrapTasks, OtherTasks, Running, AtWork, Encrypting, Wrapping
  <2>4. \A d \in Calls : d # c /\ Writes(d) => owner'[c] # owner[d]
    BY <2>1, <1>0, <1>1, Inclusions DEF GenerateKey, PhaseRight
  <2> QED BY <1>1, <2>1, <2>3, <2>4, CallStarts DEF GenerateKey
<1>2. ASSUME NEW h \in Handles, NEW pass \in PassArgs, ReformatKey(c, h, pass) PROVE CallsRight'
  <2>1. /\ \A d \in Calls : d # c => status'[d] = status[d] /\ task'[d] = task[d] /\ call'[d] = call[d]
        /\ \A g \in Handles : g # c => owner'[g] = owner[g]
        /\ Op(c)' = "reformatKey" /\ task' = task /\ call'[c].overlaps = Reformatting(owner[h])
        /\ \/ owner'[c] = owner[h] /\ status'[c] = "checked"
           \/ owner' = owner /\ status'[c] = "threw"
    BY <1>2, Inclusions DEF ReformatKey, Asked, TypeOK, Op
  <2>2. \A i \in Pos, p \in Args : Stage(c, i, p)' = "none"
    BY <1>0, <1>2, <2>1 DEF PhaseRight, OtherTasks, ReformatKey, Stage
  <2>3. PhaseRight(c)' /\ EncryptTasks(c)' /\ WrapTasks(c)' /\ OtherTasks(c)'
    BY <2>1, <2>2 DEF PhaseRight, EncryptTasks, WrapTasks, OtherTasks, Running, AtWork, Encrypting, Wrapping
  <2>4. ASSUME NEW d \in Calls, Writes(c)', Writes(d), d # c, owner'[c] = owner[d]
        PROVE  call'[c].overlaps
    <3>1. ~InFlight(c)'
      BY <2>2, Inclusions DEF InFlight, AtWork
    <3>2. status'[c] = "checked" /\ owner'[c] = owner[h]
      BY <2>1, <2>4, <3>1 DEF Writes, Running
    <3> SUFFICES ASSUME Op(d) # "reformatKey" PROVE FALSE
      BY <2>1, <2>4, <3>2, ZenonT(40) DEF Reformatting, Writes, InFlight, AtWork, Op, Stage
    <3>4. owner[h] = d /\ Op(d) \in {"encryptKey", "generateKey"}
      BY <2>4, <3>2 DEF CallsRight, Private, Writes, Encrypting, Wrapping
    <3>5. status[d] = "returned"
      BY <1>2, <3>4, Inclusions DEF CallsRight, Private, ReformatKey, Held
    <3>6. ~InFlight(d)
      <4>1. EncryptTasks(d) /\ WrapTasks(d)
        BY DEF CallsRight
      <4> QED BY <3>4, <3>5, <4>1, Inclusions DEF EncryptTasks, WrapTasks, InFlight, AtWork, Encrypting, Wrapping
    <3> QED BY <2>4, <3>5, <3>6 DEF Writes, Running
  <2>5. owner[c] = Null
    BY <1>0, <1>2 DEF PhaseRight, ReformatKey
  <2> QED BY <1>2, <2>1, <2>3, <2>4, <2>5, CallStarts, Inclusions DEF ReformatKey
<1>3. ASSUME WrapPrimary(c) \/ WrapSubkeys(c) PROVE CallsRight'
  BY <1>3, WrapEncryptsCalls, PrimaryAssumption DEF WrapPrimary, WrapSubkeys
<1>4. ASSUME WrapSign(c) \/ WrapSigned(c) \/ WrapThrows(c) \/ WrapReturns(c) PROVE CallsRight'
  <2>1. /\ UNCHANGED <<owner, call, task>> /\ Running(c) /\ status[c] # "packets"
        /\ \/ status[c] = "subkeys" /\ WrapEncrypted(c, Pos) /\ status' = [status EXCEPT ![c] = "signing"]
           \/ status[c] = "signing" /\ status' = [status EXCEPT ![c] = "signed"]
           \/ status[c] \in {"signing", "signed"} /\ status' = [status EXCEPT ![c] = "threw"]
           \/ status[c] = "signed" /\ status' = [status EXCEPT ![c] = "returned"]
    BY <1>4 DEF WrapSign, WrapSigned, WrapThrows, WrapReturns, Running
  <2>2. Op(c) \in Wrapping
    BY <1>0, <2>1 DEF PhaseRight
  <2>3. status'[c] \in {"signing", "signed", "returned", "threw"} /\ status' = [status EXCEPT ![c] = status'[c]]
    BY <2>1 DEF TypeOK
  <2>4. EncryptTasks(c)'
    BY <1>0, <2>1, <2>2 DEF EncryptTasks, Op, Stage, Wrapping
  <2>5. WrapTasks(c)'
    <3>0. \A i \in Pos, p \in Args : p = NoPass => Stage(c, i, p) = "none"
      BY <1>0, <2>2 DEF WrapTasks
    <3> SUFFICES ASSUME NEW i \in Pos, NEW p \in Args, status'[c] # "threw"
                 PROVE  Stage(c, i, p) = IF p # NoPass /\ p = call[c].pass[i] THEN "encrypted" ELSE "none"
      <4>1. /\ call'[c] = call[c] /\ status'[c] \notin {"checked", "primary"}
            /\ \A i \in Pos, p \in Args : Stage(c, i, p)' = Stage(c, i, p)
        BY <2>1, <2>3 DEF Stage
      <4> QED BY <4>1, <2>3, <3>0 DEF WrapTasks
    <3>1. CASE status[c] \in {"signing", "signed"}
      BY <1>0, <2>2, <3>1 DEF WrapTasks
    <3>2. CASE WrapEncrypted(c, Pos)
      <4>1. Stage(c, i, p) # "none" => p = call[c].pass[i]
        BY <1>0, <2>2 DEF EncryptTasks, Encrypting
      <4>2. p # NoPass /\ p = call[c].pass[i] => Stage(c, i, p) = "encrypted"
        BY <3>2 DEF WrapEncrypted, Stage
      <4>3. p = NoPass => Stage(c, i, p) = "none"
        BY <1>0, <2>2 DEF WrapTasks
      <4> QED BY <4>1, <4>2, <4>3
    <3> QED BY <2>1, <3>1, <3>2, <2>3
  <2> QED BY <2>1, <2>2, <2>3, <2>4, <2>5, PhaseStep
<1> QED BY <1>1, <1>2, <1>3, <1>4 DEF WrapStep

\* A call made on a held key shares its packets.
LEMMA RevokeCalls ==
  ASSUME TypeOK, CallsRight, NEW c \in Calls, NEW h \in Handles, RevokeKey(c, h)
  PROVE  CallsRight'
<1>1. PhaseRight(c) /\ OtherTasks(c)
  BY DEF CallsRight
<1>2. /\ \A d \in Calls : d # c => status'[d] = status[d] /\ task'[d] = task[d] /\ call'[d] = call[d]
      /\ \A g \in Handles : g # c => owner'[g] = owner[g]
      /\ owner'[c] = owner[h] /\ status'[c] = "returned" /\ Op(c)' = "revokeKey" /\ task' = task
      /\ call'[c].overlaps = FALSE /\ \A i \in Pos : call'[c].pass[i] = NoPass
  BY Inclusions DEF RevokeKey, TypeOK, Op, Nothing, Asked
<1>3. \A i \in Pos, p \in Args : Stage(c, i, p)' = "none"
  BY <1>1, <1>2 DEF PhaseRight, OtherTasks, RevokeKey, Stage
<1>4. /\ PhaseRight(c)' /\ EncryptTasks(c)' /\ WrapTasks(c)' /\ OtherTasks(c)'
      /\ ~Writes(c)'
  BY <1>2, <1>3 DEF PhaseRight, EncryptTasks, WrapTasks, OtherTasks, Writes, Running, Encrypting, Wrapping
<1> QED BY <1>2, <1>4, CallStarts DEF RevokeKey

\* Every step keeps the calls and their tasks in order.
LEMMA CallsKept ==
  ASSUME TypeOK, CallsRight, SaltsDrawn, [Next]_vars
  PROVE  CallsRight'
<1>1. ASSUME NEW c \in Calls, EncryptKeyStep(c) \/ DecryptKeyStep(c) \/ PacketStep(c) \/ WrapStep(c)
      PROVE  CallsRight'
  BY <1>1, EncryptKeyCalls, DecryptKeyCalls, PacketStepCalls, WrapCalls
<1>2. CASE UserStep
  <2>1. ASSUME UNCHANGED <<owner, call, status, task>> PROVE CallsRight'
    BY <2>1 DEF CallsRight, PhaseRight, EncryptTasks, WrapTasks, OtherTasks, Private, OneWriter, Overlapped,
                Writes, InFlight, Op, Stage, Running
  <2>2. (\E c \in Calls, h \in Handles : RevokeKey(c, h)) \/ UNCHANGED <<owner, call, status, task>>
    BY <1>2 DEF UserStep, Destroy, ClearPrivateParams, MakeDummy, Write
  <2> QED BY <2>1, <2>2, RevokeCalls
<1>3. CASE UNCHANGED vars
  BY <1>3 DEF vars, CallsRight, PhaseRight, EncryptTasks, WrapTasks, OtherTasks, Private, OneWriter, Overlapped,
              Writes, InFlight, Op, Stage, Running
<1> QED BY <1>1, <1>2, <1>3 DEF Next
-----------------------------------------------------------------------------
(* What a step does to the packets *)

\* A call that has not started makes its slot now, or joins that of a held key.
Begins(c) == \/ \E h \in Handles, pass \in PassArgs : EncryptKey(c, h, pass) \/ ReformatKey(c, h, pass)
             \/ \E h \in Handles, passes \in SUBSET Pass : DecryptKey(c, h, passes)
             \/ \E pass \in PassArgs : GenerateKey(c, pass)
             \/ \E h \in Handles : RevokeKey(c, h)

\* What a step of the calls D may do to the packet at position i of slot s.
Salting(d, i, pk, new)      == /\ Writes(d) /\ Stage(d, i, call[d].pass[i]) = "none"
                               /\ isDecrypted(pk) /\ new = [pk EXCEPT !.salt = d]
Deriving(d, i, p, pk, new)  == Writes(d) /\ Stage(d, i, p) = "kdf" /\ new = Derived(pk, d)
Ciphering(d, i, p, pk, new) == /\ Writes(d) /\ Stage(d, i, p) = "cipher" /\ p = call[d].pass[i]
                               /\ Stage(d, i, p)' = "encrypted"
                               /\ new = Holding(pk, Enc(p, d, task[d][i][p].iv))
Opening(d, i, p, pk, new)   == /\ Op(d) = "decryptKey" /\ status[d] # "returned"
                               /\ Stage(d, i, p) = "matched" /\ new = Decrypted(pk)
Effect(D, s, i) ==
  LET pk  == packets[s][i]
      new == packets'[s][i]
  IN  \/ new = pk
      \/ isDecrypted(pk) /\ new = Cleared(pk)
      \/ new = Dummied(pk)
      \/ pk.kind = "normal" /\ pk.s2kUsage = "none" /\ pk.privateParams = "live" /\ new = Holding(pk, Clear)
      \/ \E d \in D, p \in Pass : /\ owner[d] = s
                                  /\ \/ Salting(d, i, pk, new) \/ Deriving(d, i, p, pk, new)
                                     \/ Ciphering(d, i, p, pk, new) \/ Opening(d, i, p, pk, new)

\* Assigning one packet of the heap.
Assigns(s, i, pk) == packets' = [packets EXCEPT ![s][i] = pk]
LEMMA PacketAssigned ==
  ASSUME TypeOK, NEW s \in Handles, NEW i \in Pos, NEW pk, Assigns(s, i, pk)
  PROVE  /\ \A h \in Handles, j \in Pos : packets'[h][j] = IF h = s /\ j = i THEN pk ELSE packets[h][j]
         /\ \A h \in Handles : h # s => packets'[h] = packets[h]
<1>1. packets' = [packets EXCEPT ![s] = [packets[s] EXCEPT ![i] = pk]]
  BY DEF TypeOK, Assigns
<1>2. \A h \in Handles : h # s => packets'[h] = packets[h]
  BY <1>1 DEF TypeOK
<1> SUFFICES ASSUME NEW h \in Handles, NEW j \in Pos
             PROVE  packets'[h][j] = IF h = s /\ j = i THEN pk ELSE packets[h][j]
  BY <1>2
<1>3. packets[h] \in [Pos -> Packet] /\ packets[s] \in [Pos -> Packet]
  BY DEF TypeOK
<1>4. packets'[h] = IF h = s THEN [packets[s] EXCEPT ![i] = pk] ELSE packets[h]
  BY <1>1 DEF TypeOK
<1> QED BY <1>3, <1>4

\* A held key has a slot, and so has a call with a task.
LEMMA SlotsInUse ==
  ASSUME TypeOK, CallsRight
  PROVE  /\ \A h \in Handles : Held(h) => owner[h] \in Handles
         /\ \A c \in Calls : Running(c) => owner[c] \in Handles
         /\ \A c \in Calls, i \in Pos, p \in Args : Stage(c, i, p) # "none" => owner[c] \in Handles
<1>1. ASSUME NEW c \in Calls, NEW i \in Pos, NEW p \in Args, Stage(c, i, p) # "none"
      PROVE  owner[c] # Null
  <2>1. EncryptTasks(c) /\ OtherTasks(c) /\ Private(c)
    BY DEF CallsRight
  <2>2. Op(c) \in Encrypting \/ Op(c) = "decryptKey"
    BY <1>1, <2>1 DEF OtherTasks, TypeOK, CallRec, Op, Encrypting, Wrapping
  <2> QED BY <1>1, <2>1, <2>2, Inclusions DEF EncryptTasks, Private
<1> QED BY <1>1, SlotTypes, Inclusions DEF TypeOK

\* Clearing a whole key.
LEMMA ClearingEffect ==
  ASSUME TypeOK, NEW s \in Handles, packets' = [packets EXCEPT ![s] = ClearedKey(packets[s])], NEW D
  PROVE  \A h \in Handles, i \in Pos : Effect(D, h, i) /\ (h # s => packets'[h] = packets[h])
<1> SUFFICES ASSUME NEW h \in Handles, NEW i \in Pos
             PROVE  Effect(D, h, i) /\ (h # s => packets'[h] = packets[h])
  OBVIOUS
<1>1. packets'[h] = IF h = s THEN ClearedKey(packets[s]) ELSE packets[h]
  BY DEF TypeOK
<1>2. h = s => packets'[h][i] = IF isDecrypted(packets[h][i]) THEN Cleared(packets[h][i]) ELSE packets[h][i]
  BY <1>1 DEF ClearedKey
<1> QED BY <1>1, <1>2 DEF Effect

\* A step of encryptKey after the first.
LEMMA EncryptKeyEffect ==
  ASSUME TypeOK, FlagsMatch, CallsRight, NEW c \in Calls, EncryptKeyStep(c), ~Begins(c)
  PROVE  \A s \in Handles, i \in Pos : Effect({c}, s, i) /\ (s # owner[c] => packets'[s] = packets[s])
<1>1. ~\E h \in Handles, pass \in PassArgs : EncryptKey(c, h, pass)
  BY DEF Begins
<1>2. CASE EncryptKeyThrows(c)
  BY <1>2, SlotsInUse, ClearingEffect DEF EncryptKeyThrows, Running
<1>3. CASE EncryptKeyReturns(c)
  BY <1>3 DEF EncryptKeyReturns, Effect
<1>4. ASSUME NEW i \in Pos, NEW p \in Pass, EncryptKeyClears(c, i, p)
      PROVE  \A s \in Handles, j \in Pos : Effect({c}, s, j) /\ (s # owner[c] => packets'[s] = packets[s])
  <2> DEFINE pk == packets[owner[c]][i]
  <2>1. owner[c] \in Handles
    BY <1>4, SlotsInUse, Inclusions DEF EncryptKeyClears, Stage
  <2>2. CASE pk.privateParams = "live"
    <3>1. isDecrypted(pk)
      BY <2>1, <2>2 DEF FlagsMatch, FlagMatches
    <3>2. Assigns(owner[c], i, Cleared(pk))
      BY <1>4, <2>2 DEF EncryptKeyClears, Assigns
    <3> QED BY <2>1, <3>1, <3>2, PacketAssigned DEF Effect
  <2>3. CASE pk.privateParams # "live"
    BY <1>4, <2>3 DEF EncryptKeyClears, Effect
  <2> QED BY <2>2, <2>3
<1> QED BY <1>1, <1>2, <1>3, <1>4 DEF EncryptKeyStep

\* A step of packet.encrypt().
LEMMA PacketStepEffect ==
  ASSUME TypeOK, CallsRight, NEW c \in Calls, PacketStep(c)
  PROVE  \A s \in Handles, i \in Pos : Effect({c}, s, i) /\ (s # owner[c] => packets'[s] = packets[s])
<1>0. EncryptTasks(c) /\ OtherTasks(c)
  BY DEF CallsRight
<1>1. PICK i \in Pos, p \in Pass : EncryptDerived(c, i, p) \/ EncryptHashed(c, i, p) \/ EncryptCiphered(c, i, p)
  BY DEF PacketStep
<1> DEFINE pk == packets[owner[c]][i]
<1>2. Stage(c, i, p) \in AtWork /\ Op(c) # "decryptKey"
  BY <1>1 DEF EncryptDerived, EncryptHashed, EncryptCiphered, Stage, Op, AtWork
<1>3. Op(c) \in Encrypting /\ owner[c] \in Handles /\ Writes(c)
  BY <1>0, <1>2, SlotsInUse, Inclusions
     DEF OtherTasks, TypeOK, CallRec, Op, Encrypting, Wrapping, Writes, InFlight, AtWork
<1>4. task[c][i][p].salt = c /\ p = call[c].pass[i]
  BY <1>0, <1>2, <1>3, Inclusions DEF EncryptTasks, AtWork
<1>5. ASSUME NEW new, Assigns(owner[c], i, new),
             Deriving(c, i, p, pk, new) \/ Ciphering(c, i, p, pk, new)
      PROVE  \A s \in Handles, j \in Pos : Effect({c}, s, j) /\ (s # owner[c] => packets'[s] = packets[s])
  BY <1>3, <1>5, PacketAssigned DEF Effect
<1>6. CASE EncryptDerived(c, i, p)
  <2>1. Assigns(owner[c], i, Derived(pk, c)) /\ Stage(c, i, p) = "kdf"
    BY <1>6 DEF EncryptDerived, Stage, Assigns
  <2> QED BY <1>3, <1>5, <2>1 DEF Deriving
<1>7. CASE EncryptCiphered(c, i, p)
  <2>1. /\ Assigns(owner[c], i, Holding(pk, Enc(p, c, task[c][i][p].iv)))
        /\ Stage(c, i, p) = "cipher" /\ task' = Advance(c, i, p, "encrypted")
    BY <1>4, <1>7 DEF EncryptCiphered, Stage, Assigns
  <2>2. Stage(c, i, p)' = "encrypted"
    BY <2>1, Advanced, Inclusions DEF Moves
  <2> QED BY <1>3, <1>4, <1>5, <2>1, <2>2 DEF Ciphering
<1>8. CASE EncryptHashed(c, i, p)
  BY <1>8 DEF EncryptHashed, Effect
<1> QED BY <1>1, <1>6, <1>7, <1>8

\* A step of decryptKey after the first.
LEMMA DecryptKeyEffect ==
  ASSUME TypeOK, CallsRight, NEW c \in Calls, LeftOver(c), DecryptKeyStep(c), ~Begins(c)
  PROVE  \A s \in Handles, i \in Pos : Effect({c}, s, i) /\ (s # owner[c] => packets'[s] = packets[s])
<1>1. ~\E h \in Handles, passes \in SUBSET Pass : DecryptKey(c, h, passes)
  BY DEF Begins
<1>2. CASE DecryptKeyThrows(c)
  BY <1>2, SlotsInUse, ClearingEffect DEF DecryptKeyThrows, Running
<1>3. CASE DecryptKeyReturns(c)
  BY <1>3 DEF DecryptKeyReturns, Effect
<1>4. ASSUME NEW i \in Pos, NEW p \in Pass, DecryptDerived(c, i, p)
      PROVE  packets' = packets
  BY <1>4 DEF DecryptDerived
<1>5. ASSUME NEW i \in Pos, NEW p \in Pass, DecryptCiphered(c, i, p), task[c][i][p].at = "matched"
      PROVE  \A s \in Handles, j \in Pos : Effect({c}, s, j) /\ (s # owner[c] => packets'[s] = packets[s])
  <2> DEFINE pk == packets[owner[c]][i]
  <2>1. Assigns(owner[c], i, Decrypted(pk)) /\ Stage(c, i, p) = "matched"
    BY <1>5 DEF DecryptCiphered, Assigns, Stage
  <2>2. owner[c] \in Handles
    BY <2>1, SlotsInUse, Inclusions
  <2>3. Op(c) = "decryptKey"
    <3>1. EncryptTasks(c) /\ OtherTasks(c)
      BY DEF CallsRight
    <3> QED BY <2>1, <3>1, Inclusions, ZenonT(40)
           DEF EncryptTasks, OtherTasks, TypeOK, CallRec, Op, Encrypting, Wrapping, AtWork
  <2>4. Opening(c, i, p, pk, Decrypted(pk))
    BY <2>1, <2>3 DEF Opening, LeftOver
  <2> QED BY <2>1, <2>2, <2>4, PacketAssigned DEF Effect
<1>6. ASSUME NEW i \in Pos, NEW p \in Pass, DecryptCiphered(c, i, p), task[c][i][p].at # "matched"
      PROVE  packets' = packets
  BY <1>6 DEF DecryptCiphered
<1>7. packets' = packets => \A s \in Handles, i \in Pos : Effect({c}, s, i)
  BY DEF Effect
<1> QED BY <1>1, <1>2, <1>3, <1>4, <1>5, <1>6, <1>7 DEF DecryptKeyStep

\* A step of wrapKeyObject.
LEMMA WrapEffect ==
  ASSUME TypeOK, FlagsMatch, CallsRight, NEW c \in Calls, WrapStep(c), ~Begins(c)
  PROVE  \A s \in Handles, i \in Pos : Effect({c}, s, i) /\ (s # owner[c] => packets'[s] = packets[s])
<1> DEFINE Goal == \A s \in Handles, i \in Pos : Effect({c}, s, i) /\ (s # owner[c] => packets'[s] = packets[s])
<1>0. PhaseRight(c) /\ EncryptTasks(c) /\ WrapTasks(c)
  BY DEF CallsRight
<1>1. /\ ~\E h \in Handles, pass \in PassArgs : ReformatKey(c, h, pass)
      /\ ~\E pass \in PassArgs : GenerateKey(c, pass)
  BY DEF Begins
<1>2. ASSUME NEW S \in SUBSET Pos, NEW next, WrapEncrypts(c, S, next),
             \/ status[c] = "checked"
             \/ status[c] = "primary" /\ S = Pos \ {Primary}
      PROVE  Goal
  <2> DEFINE key == packets[owner[c]]
             pass == call[c].pass
             T == {i \in S : pass[i] # NoPass}
             new == [i \in Pos |-> IF i \in T THEN EncryptPrologue(key[i], pass[i], c) ELSE key[i]]
  <2>1. Running(c) /\ owner[c] \in Handles /\ Op(c) \in Wrapping /\ Writes(c)
    BY <1>0, <1>2, SlotsInUse DEF Running, PhaseRight, Writes, Encrypting
  <2>2. packets' = [packets EXCEPT ![owner[c]] = new]
    BY <1>2 DEF WrapEncrypts
  <2>3. /\ \A s \in Handles : s # owner[c] => packets'[s] = packets[s]
        /\ packets'[owner[c]] = new
    BY <2>1, <2>2 DEF TypeOK
  <2>4. ASSUME NEW i \in Pos, i \in T, EncryptStarts(key[i], pass[i])
        PROVE  pass[i] \in Pass /\ Salting(c, i, key[i], [key[i] EXCEPT !.salt = c])
    <3>1. pass[i] \in Pass
      BY <2>4, Inclusions DEF TypeOK, CallRec
    <3>2. Stage(c, i, pass[i]) = "none"
      BY <1>0, <1>2, <2>1, <2>4, <3>1, Inclusions DEF WrapTasks
    <3> QED BY <2>1, <2>4, <3>1, <3>2 DEF Salting, EncryptStarts
  <2>5. \A i \in Pos : \/ new[i] = key[i]
                       \/ \E p \in Pass : Salting(c, i, key[i], new[i])
    BY <2>4 DEF EncryptPrologue
  <2> HIDE DEF new
  <2> QED BY <2>3, <2>5 DEF Effect
<1>3. CASE WrapPrimary(c)
  BY <1>2, <1>3, PrimaryAssumption DEF WrapPrimary
<1>4. CASE WrapSubkeys(c)
  BY <1>2, <1>4 DEF WrapSubkeys
<1>5. CASE WrapSign(c) \/ WrapSigned(c) \/ WrapThrows(c)
  BY <1>5 DEF WrapSign, WrapSigned, WrapThrows, Effect
<1>6. CASE WrapReturns(c)
  <2> DEFINE key == packets[owner[c]]
             locks(i) == call[c].pass[i] # NoPass /\ ~isMissingSecretKeyMaterial(key[i])
             stuck(i) == locks(i) /\ key[i].privateParams = "null"
             new == [i \in Pos |-> IF locks(i) /\ ~stuck(i) /\ ~stuck(Primary)
                                   THEN Cleared(key[i]) ELSE key[i]]
  <2>1. owner[c] \in Handles
    BY <1>6, SlotsInUse DEF WrapReturns, Running
  <2>2. packets' = [packets EXCEPT ![owner[c]] = new]
    BY <1>6 DEF WrapReturns
  <2>3. /\ \A s \in Handles : s # owner[c] => packets'[s] = packets[s]
        /\ packets'[owner[c]] = new
    BY <2>1, <2>2 DEF TypeOK
  <2>4. \A i \in Pos : new[i] = key[i] \/ (isDecrypted(key[i]) /\ new[i] = Cleared(key[i]))
    <3> SUFFICES ASSUME NEW i \in Pos, locks(i), ~stuck(i) PROVE isDecrypted(key[i])
      OBVIOUS
    <3>1. key[i].privateParams \in {"null", "live"}
      BY <2>1 DEF TypeOK, Packet
    <3> QED BY <2>1, <3>1 DEF FlagsMatch, FlagMatches
  <2> HIDE DEF new
  <2> QED BY <2>3, <2>4 DEF Effect
<1> QED BY <1>1, <1>3, <1>4, <1>5, <1>6 DEF WrapStep

\* What the application does to a key it holds.
LEMMA UserEffect ==
  ASSUME TypeOK, UserStep, ~\E c \in Calls : Begins(c)
  PROVE  /\ \A s \in Handles, i \in Pos : Effect({}, s, i)
         /\ \A s \in Handles : (\A h \in Handles : Held(h) => owner[h] # s) => packets'[s] = packets[s]
         /\ UNCHANGED <<owner, call, status, task>>
<1>1. ~\E c \in Calls, h \in Handles : RevokeKey(c, h)
  BY DEF Begins
<1>2. \A h \in Handles : Held(h) => owner[h] \in Handles
  BY SlotTypes
<1>3. ASSUME NEW h \in Handles, ClearPrivateParams(h)
      PROVE  /\ \A s \in Handles, i \in Pos : Effect({}, s, i)
             /\ \A s \in Handles : s # owner[h] => packets'[s] = packets[s]
             /\ Held(h) /\ UNCHANGED <<owner, call, status, task>>
  <2>1. /\ packets' = [packets EXCEPT ![owner[h]] = ClearedKey(packets[owner[h]])]
        /\ Held(h) /\ UNCHANGED <<owner, call, status, task>>
    BY <1>3 DEF ClearPrivateParams
  <2>2. \A D : \A s \in Handles, i \in Pos : Effect(D, s, i) /\ (s # owner[h] => packets'[s] = packets[s])
    BY <1>2, <2>1, ClearingEffect
  <2> QED BY <2>1, <2>2
<1>4. ASSUME NEW h \in Handles, NEW i \in Pos, MakeDummy(h, i) \/ Write(h, i)
      PROVE  /\ \A s \in Handles, j \in Pos : Effect({}, s, j)
             /\ \A s \in Handles : s # owner[h] => packets'[s] = packets[s]
             /\ Held(h) /\ UNCHANGED <<owner, call, status, task>>
  <2> DEFINE pk == packets[owner[h]][i]
  <2>1. Held(h) /\ UNCHANGED <<owner, call, status, task>>
    BY <1>4 DEF MakeDummy, Write
  <2>2. CASE MakeDummy(h, i)
    <3>1. Assigns(owner[h], i, Dummied(pk))
      BY <2>2 DEF MakeDummy, Assigns
    <3> QED BY <1>2, <2>1, <3>1, PacketAssigned DEF Effect
  <2>3. CASE Write(h, i)
    <3>1. /\ Assigns(owner[h], i, Holding(pk, Clear))
          /\ pk.kind = "normal" /\ pk.s2kUsage = "none" /\ pk.privateParams = "live"
      BY <2>3 DEF Write, Assigns
    <3> QED BY <1>2, <2>1, <3>1, PacketAssigned DEF Effect
  <2> QED BY <1>4, <2>2, <2>3
<1> QED BY <1>1, <1>3, <1>4 DEF UserStep, Destroy

\* A step of one call, after the first: what it may do to the packets.
LEMMA TurnEffect ==
  ASSUME TypeOK, FlagsMatch, CallsRight, PacketsRight, NEW c \in Calls, ~Begins(c),
         EncryptKeyStep(c) \/ DecryptKeyStep(c) \/ PacketStep(c) \/ WrapStep(c)
  PROVE  \A s \in Handles, i \in Pos : Effect({c}, s, i) /\ (s # owner[c] => packets'[s] = packets[s])
BY EncryptKeyEffect, DecryptKeyEffect, PacketStepEffect, WrapEffect DEF PacketsRight

\* ... and what it leaves alone.
LEMMA TurnFrame ==
  ASSUME TypeOK, CallsRight, NEW c \in Calls, ~Begins(c),
         EncryptKeyStep(c) \/ DecryptKeyStep(c) \/ PacketStep(c) \/ WrapStep(c)
  PROVE  /\ UNCHANGED <<owner, call>>
         /\ \A d \in Calls : d # c => status'[d] = status[d] /\ task'[d] = task[d]
<1>1. CASE EncryptKeyStep(c)
  <2>1. \/ EncryptKeyThrows(c) \/ EncryptKeyReturns(c)
        \/ \E i \in Pos, p \in Pass : EncryptKeyClears(c, i, p)
    BY <1>1 DEF EncryptKeyStep, Begins
  <2> QED BY <2>1 DEF EncryptKeyThrows, EncryptKeyReturns, EncryptKeyClears, Advance, TypeOK
<1>2. CASE DecryptKeyStep(c)
  <2>1. \/ DecryptKeyThrows(c) \/ DecryptKeyReturns(c)
        \/ \E i \in Pos, p \in Pass : DecryptDerived(c, i, p) \/ DecryptCiphered(c, i, p)
    BY <1>2 DEF DecryptKeyStep, Begins
  <2> QED BY <2>1, ZenonT(40) DEF DecryptKeyThrows, DecryptKeyReturns, DecryptDerived, DecryptCiphered, Advance, TypeOK
<1>3. CASE PacketStep(c)
  BY <1>3 DEF PacketStep, EncryptDerived, EncryptHashed, EncryptCiphered, Advance, TypeOK
<1>4. CASE WrapStep(c)
  <2>1. \/ WrapPrimary(c) \/ WrapSubkeys(c) \/ WrapSign(c) \/ WrapSigned(c)
        \/ WrapThrows(c) \/ WrapReturns(c)
    BY <1>4 DEF WrapStep, Begins
  <2> QED BY <2>1 DEF WrapPrimary, WrapSubkeys, WrapEncrypts, WrapSign, WrapSigned, WrapThrows, WrapReturns, TypeOK
<1> QED BY <1>1, <1>2, <1>3, <1>4

\* How far the tasks get in one turn of a call.
Early == AtWork \cup {"none"}
Forward(d) ==
  Op(d) \in Encrypting => \A i \in Pos :
    /\ \A p \in Args : p = call[d].pass[i] /\ Stage(d, i, p)' \in Early => Stage(d, i, p) \in Early
    /\ \A p \in Pass : Stage(d, i, p)' \in AtWork => Stage(d, i, p) \in AtWork \/ isDecrypted(Pk(d, i))

\* A turn of one call moves its tasks forward, and starts one only on a decrypted packet.
LEMMA TurnForward ==
  ASSUME TypeOK, CallsRight, NEW c \in Calls, ~Begins(c),
         EncryptKeyStep(c) \/ DecryptKeyStep(c) \/ PacketStep(c) \/ WrapStep(c)
  PROVE  \A d \in Calls : Forward(d)
<1>0. EncryptTasks(c) /\ WrapTasks(c) /\ PhaseRight(c) /\ OtherTasks(c)
  BY DEF CallsRight
<1>1. \A d \in Calls : d # c => Forward(d)
  BY TurnFrame DEF Forward, Stage
<1>2. ASSUME task'[c] = task[c] PROVE Forward(c)
  BY <1>2 DEF Forward, Stage
<1>3. ASSUME NEW i \in Pos, NEW p \in Pass, NEW stage, Moves(c, i, p, stage),
             stage \in AtWork => Stage(c, i, p) \in AtWork, stage # "none"
      PROVE  Forward(c)
  <2>1. \A j \in Pos, q \in Args : Stage(c, j, q)' = IF j = i /\ q = p THEN stage ELSE Stage(c, j, q)
    BY <1>3 DEF Moves
  <2>2. \A j \in Pos : call[c].pass[j] \in Args
    BY DEF TypeOK, CallRec
  <2> QED BY <1>3, <2>1, <2>2, Inclusions DEF Forward, Early
<1>4. CASE EncryptKeyStep(c)
  <2>1. \/ EncryptKeyThrows(c) \/ EncryptKeyReturns(c)
        \/ \E i \in Pos, p \in Pass : EncryptKeyClears(c, i, p)
    BY <1>4 DEF EncryptKeyStep, Begins
  <2>2. ASSUME NEW i \in Pos, NEW p \in Pass, EncryptKeyClears(c, i, p) PROVE Forward(c)
    <3>1. PICK stage \in {"done", "failed"} : task' = Advance(c, i, p, stage)
      BY <2>2 DEF EncryptKeyClears
    <3>2. Moves(c, i, p, stage)
      BY <3>1, Advanced, Inclusions
    <3> QED BY <1>3, <3>1, <3>2 DEF AtWork
  <2> QED BY <1>1, <1>2, <2>1, <2>2 DEF EncryptKeyThrows, EncryptKeyReturns
<1>5. CASE DecryptKeyStep(c)
  <2>1. \/ DecryptKeyThrows(c) \/ DecryptKeyReturns(c)
        \/ \E i \in Pos, p \in Pass : DecryptDerived(c, i, p) \/ DecryptCiphered(c, i, p)
    BY <1>5 DEF DecryptKeyStep, Begins
  <2>2. ASSUME NEW i \in Pos, NEW p \in Pass, DecryptDerived(c, i, p) PROVE Forward(c)
    BY <2>2 DEF DecryptDerived, Forward, Op, Encrypting, Wrapping
  <2>3. ASSUME NEW i \in Pos, NEW p \in Pass, DecryptCiphered(c, i, p) PROVE Forward(c)
    <3>1. PICK stage \in {"done", "failed"} : task' = Advance(c, i, p, stage)
      BY <2>3 DEF DecryptCiphered
    <3>2. Moves(c, i, p, stage)
      BY <3>1, Advanced, Inclusions
    <3> QED BY <1>3, <3>1, <3>2 DEF AtWork
  <2> QED BY <1>1, <1>2, <2>1, <2>2, <2>3 DEF DecryptKeyThrows, DecryptKeyReturns
<1>6. CASE PacketStep(c)
  <2>1. PICK i \in Pos, p \in Pass, stage \in {"hash", "cipher", "encrypted"} :
          Stage(c, i, p) \in AtWork /\ Moves(c, i, p, stage)
    BY <1>6, PacketStepMoves
  <2> QED BY <1>1, <1>3, <2>1
<1>7. CASE WrapStep(c)
  <2>1. ASSUME NEW S \in SUBSET Pos, NEW next, WrapEncrypts(c, S, next),
               \/ status[c] = "checked"
               \/ status[c] = "primary" /\ S = Pos \ {Primary}
        PROVE  Forward(c)
    <3> DEFINE pass == call[c].pass
               key == packets[owner[c]]
               T == {i \in S : pass[i] # NoPass}
    <3>1. Op(c) \in Wrapping
      BY <1>0, <2>1 DEF PhaseRight, Running
    <3>2. \A i \in Pos, p \in Args : task'[c][i][p] =
            IF i \in T /\ p = pass[i] THEN EncryptTask(key[i], p, c, "encrypted") ELSE task[c][i][p]
      BY <2>1 DEF WrapEncrypts, TypeOK
    <3>3. \A i \in Pos, p \in Args : i \in T /\ p = pass[i] =>
            Stage(c, i, p) = "none" /\ (Stage(c, i, p)' \in AtWork => isDecrypted(key[i]))
      <4> SUFFICES ASSUME NEW i \in Pos, NEW p \in Args, i \in T, p = pass[i]
                   PROVE  Stage(c, i, p) = "none" /\ (Stage(c, i, p)' \in AtWork => isDecrypted(key[i]))
        OBVIOUS
      <4>1. Stage(c, i, p) = "none"
        BY <1>0, <2>1, <3>1 DEF WrapTasks
      <4>2. task'[c][i][p] = EncryptTask(key[i], p, c, "encrypted")
        BY <3>2
      <4>3. Stage(c, i, p)' \in AtWork => isDecrypted(key[i])
        BY <4>2 DEF EncryptTask, EncryptRefuses, At, Stage, AtWork
      <4> QED BY <4>1, <4>3
    <3>4. \A i \in Pos, p \in Args : ~(i \in T /\ p = pass[i]) => Stage(c, i, p)' = Stage(c, i, p)
      BY <3>2 DEF Stage
    <3>5. \A j \in Pos : pass[j] \in Args
      BY DEF TypeOK, CallRec
    <3> HIDE DEF T, pass
    <3> QED BY <3>3, <3>4, <3>5, Inclusions DEF Forward, Early, Pk, pass
  <2>2. CASE WrapPrimary(c) \/ WrapSubkeys(c)
    BY <1>1, <2>1, <2>2, PrimaryAssumption DEF WrapPrimary, WrapSubkeys
  <2>3. CASE WrapSign(c) \/ WrapSigned(c) \/ WrapThrows(c) \/ WrapReturns(c)
    BY <1>1, <1>2, <2>3 DEF WrapSign, WrapSigned, WrapThrows, WrapReturns
  <2> QED BY <1>7, <2>2, <2>3 DEF WrapStep, Begins
<1> QED BY <1>4, <1>5, <1>6, <1>7

-----------------------------------------------------------------------------
(* Packets, in a step that makes no new slot *)

\* Key material is of one form only, and names what it was made with.
LEMMA MaterialForms ==
  /\ NoMaterial # Clear
  /\ \A q, s, v : Enc(q, s, v) # NoMaterial /\ Enc(q, s, v) # Clear
  /\ \A q, s, v, r, t, w : Enc(q, s, v) = Enc(r, t, w) => q = r /\ s = t /\ v = w
<1>1. \A q, s, v : /\ Enc(q, s, v).form = "enc" /\ Enc(q, s, v).pass = q
                   /\ Enc(q, s, v).salt = s /\ Enc(q, s, v).iv = v
  BY DEF Enc
<1>2. NoMaterial.form = "null" /\ Clear.form = "clear"
  BY DEF NoMaterial, Clear
<1> HIDE DEF Enc, NoMaterial, Clear
<1> QED BY <1>1, <1>2

\* The fields that each assignment changes.
LEMMA PacketFields ==
  ASSUME NEW pk \in Packet
  PROVE  /\ \A d : LET new == [pk EXCEPT !.salt = d]
                   IN  /\ new.salt = d /\ new.kind = pk.kind /\ new.isEncrypted = pk.isEncrypted
                       /\ new.s2kUsage = pk.s2kUsage /\ new.keyMaterial = pk.keyMaterial
                       /\ new.privateParams = pk.privateParams /\ new.iv = pk.iv
         /\ \A d : /\ Derived(pk, d).salt = pk.salt /\ Derived(pk, d).kind = pk.kind
                   /\ Derived(pk, d).isEncrypted = pk.isEncrypted /\ Derived(pk, d).s2kUsage \in Protected
                   /\ Derived(pk, d).keyMaterial = pk.keyMaterial
                   /\ Derived(pk, d).privateParams = pk.privateParams /\ Derived(pk, d).iv = d
         /\ \A m : /\ Holding(pk, m).salt = pk.salt /\ Holding(pk, m).kind = pk.kind
                   /\ Holding(pk, m).isEncrypted = pk.isEncrypted /\ Holding(pk, m).s2kUsage = pk.s2kUsage
                   /\ Holding(pk, m).keyMaterial = m
                   /\ Holding(pk, m).privateParams = pk.privateParams /\ Holding(pk, m).iv = pk.iv
         /\ /\ Cleared(pk).salt = pk.salt /\ Cleared(pk).kind = pk.kind
            /\ Cleared(pk).isEncrypted = "true" /\ Cleared(pk).s2kUsage = pk.s2kUsage
            /\ Cleared(pk).keyMaterial = pk.keyMaterial
            /\ Cleared(pk).privateParams = "null" /\ Cleared(pk).iv = pk.iv
         /\ /\ Decrypted(pk).salt = pk.salt /\ Decrypted(pk).kind = pk.kind
            /\ Decrypted(pk).isEncrypted = "false" /\ Decrypted(pk).s2kUsage = "none"
            /\ Decrypted(pk).keyMaterial = NoMaterial
            /\ Decrypted(pk).privateParams = "live" /\ Decrypted(pk).iv = pk.iv
         /\ /\ Dummied(pk).salt = pk.salt /\ Dummied(pk).kind = "dummy"
            /\ Dummied(pk) = pk \/ (Dummied(pk).isEncrypted = "null" /\ Dummied(pk).keyMaterial = NoMaterial)
BY DEF Packet, Protected, Derived, Holding, Cleared, Decrypted, Dummied, isDummy

\* In these terms, what a step may do to the material, kind and salt of a packet.
LEMMA EffectOnPacket ==
  ASSUME TypeOK, CallsRight, PacketsRight, NEW D \in SUBSET Calls, NEW s \in Handles, NEW i \in Pos, Effect(D, s, i)
  PROVE  LET pk  == packets[s][i]
             new == packets'[s][i]
         IN  /\ \/ new.keyMaterial \in {pk.keyMaterial, NoMaterial, Clear}
                \/ \E d \in D, p \in Pass, v \in Handles :
                     /\ owner[d] = s /\ Writes(d) /\ new.keyMaterial = Enc(p, d, v)
                     /\ p = call[d].pass[i] /\ Stage(d, i, p)' = "encrypted"
             /\ new.salt = pk.salt \/ \E d \in D : owner[d] = s /\ new.salt = d
             /\ new.kind \in {pk.kind, "dummy"}
             /\ isDecrypted(new) => isDecrypted(pk) \/ pk.kind = "normal"
<1> DEFINE pk == packets[s][i]
           new == packets'[s][i]
           Goal == /\ \/ new.keyMaterial \in {pk.keyMaterial, NoMaterial, Clear}
                      \/ \E d \in D, p \in Pass, v \in Handles :
                           /\ owner[d] = s /\ Writes(d) /\ new.keyMaterial = Enc(p, d, v)
                           /\ p = call[d].pass[i] /\ Stage(d, i, p)' = "encrypted"
                   /\ new.salt = pk.salt \/ \E d \in D : owner[d] = s /\ new.salt = d
                   /\ new.kind \in {pk.kind, "dummy"}
                   /\ isDecrypted(new) => isDecrypted(pk) \/ pk.kind = "normal"
<1>1. pk \in Packet
  BY DEF TypeOK
<1> SUFFICES Goal
  OBVIOUS
<1> HIDE DEF new, pk
<1>2. CASE new = pk \/ new = Cleared(pk) \/ new = Dummied(pk) \/ new = Holding(pk, Clear)
  BY <1>1, <1>2, PacketFields DEF isDecrypted
<1>3. ASSUME NEW d \in D, NEW p \in Pass, owner[d] = s,
             Salting(d, i, pk, new) \/ Deriving(d, i, p, pk, new)
      PROVE  Goal
  <2>1. CASE Salting(d, i, pk, new)
    <3>1. /\ new.keyMaterial = pk.keyMaterial /\ new.salt = d
          /\ new.kind = pk.kind /\ new.isEncrypted = pk.isEncrypted
      BY <1>1, <2>1 DEF Salting, Packet
    <3> QED BY <1>3, <3>1 DEF isDecrypted
  <2>2. CASE Deriving(d, i, p, pk, new)
    <3>1. /\ new.keyMaterial = pk.keyMaterial /\ new.salt = pk.salt
          /\ new.kind = pk.kind /\ new.isEncrypted = pk.isEncrypted
      BY <1>1, <2>2, PacketFields DEF Deriving
    <3> QED BY <3>1 DEF isDecrypted
  <2> QED BY <1>3, <2>1, <2>2
<1>4. ASSUME NEW d \in D, NEW p \in Pass, owner[d] = s, Ciphering(d, i, p, pk, new)
      PROVE  Goal
  <2> DEFINE v == task[d][i][p].iv
             m == Enc(p, d, v)
  <2>0. new = Holding(pk, m)
    BY <1>4 DEF Ciphering
  <2> HIDE DEF m
  <2>1. new.keyMaterial = m /\ new.salt = pk.salt /\ new.kind = pk.kind /\ new.isEncrypted = pk.isEncrypted
    BY <1>1, <2>0, PacketFields
  <2>2. v \in Handles
    BY Inclusions DEF TypeOK, Task
  <2> QED BY <1>4, <2>1, <2>2 DEF isDecrypted, Ciphering, m
<1>5. ASSUME NEW d \in D, NEW p \in Pass, owner[d] = s, Opening(d, i, p, pk, new)
      PROVE  Goal
  <2>1. Pk(d, i).kind = "normal"
    BY <1>5 DEF Opening, PacketsRight, DecryptProgress
  <2>2. pk.kind = "normal"
    BY <1>5, <2>1 DEF Pk, pk
  <2> QED BY <1>1, <1>5, <2>2, PacketFields DEF isDecrypted, Opening
<1> QED BY <1>2, <1>3, <1>4, <1>5 DEF Effect, pk, new

\* Kinds and salts, whoever makes the step.
LEMMA SaltsKept ==
  ASSUME TypeOK, CallsRight, PacketsRight, NEW D \in SUBSET Calls, UNCHANGED <<owner, call>>,
         \A s \in Handles, i \in Pos : Effect(D, s, i), \A d \in Calls : Forward(d)
  PROVE  NormalWhenDecrypted' /\ SaltsDrawn' /\ \A c \in Calls : SaltUnused(c)'
<1>1. NormalWhenDecrypted'
  <2> SUFFICES ASSUME NEW h \in Handles, NEW i \in Pos, isDecrypted(packets'[h][i])
               PROVE  packets'[h][i].kind = "normal"
    BY DEF NormalWhenDecrypted, isDecrypted
  <2> DEFINE pk == packets[h][i]
             new == packets'[h][i]
  <2>0. pk \in Packet
    BY DEF TypeOK
  <2>1. pk.kind = "normal"
    BY EffectOnPacket DEF PacketsRight, NormalWhenDecrypted
  <2>2. ~isDummy(new)
    <3>1. new # Dummied(pk) \/ new = pk
      BY <2>0, PacketFields DEF isDecrypted
    <3>2. ASSUME NEW d \in D, NEW p \in Pass,
                 \/ Salting(d, i, pk, new) \/ Deriving(d, i, p, pk, new)
                 \/ Ciphering(d, i, p, pk, new) \/ Opening(d, i, p, pk, new)
          PROVE  new.kind = pk.kind
      <4> HIDE DEF pk, new
      <4>1. CASE Salting(d, i, pk, new)
        BY <2>0, <4>1 DEF Salting, Packet
      <4>2. CASE Deriving(d, i, p, pk, new) \/ Ciphering(d, i, p, pk, new) \/ Opening(d, i, p, pk, new)
        BY <2>0, <4>2, PacketFields DEF Deriving, Ciphering, Opening
      <4> QED BY <3>2, <4>1, <4>2
    <3>3. new.kind = pk.kind
      <4>1. Effect(D, h, i)
        OBVIOUS
      <4> QED BY <2>0, <3>1, <3>2, <4>1, PacketFields DEF Effect
    <3> QED BY <2>1, <3>3 DEF isDummy
  <2> QED BY <2>1, <2>2, EffectOnPacket DEF isDummy
<1>2. SaltsDrawn'
  <2> SUFFICES ASSUME NEW h \in Handles, NEW i \in Pos, owner[h] # Null
               PROVE  /\ owner[packets'[owner[h]][i].salt] # Null
                      /\ \A q \in Pass, s \in Handles, v \in Handles :
                           packets'[owner[h]][i].keyMaterial = Enc(q, s, v) => owner[s] # Null
    BY DEF SaltsDrawn
  <2> DEFINE pk == packets[owner[h]][i]
             new == packets'[owner[h]][i]
  <2>1. owner[h] \in Handles
    BY DEF TypeOK
  <2>2. /\ owner[pk.salt] # Null
        /\ \A q \in Pass, s \in Handles, v \in Handles : pk.keyMaterial = Enc(q, s, v) => owner[s] # Null
    BY DEF PacketsRight, SaltsDrawn
  <2>3. new.salt = pk.salt \/ \E d \in D : owner[d] = owner[h] /\ new.salt = d
    BY <2>1, EffectOnPacket
  <2>4. \/ new.keyMaterial \in {pk.keyMaterial, NoMaterial, Clear}
        \/ \E d \in D, p \in Pass, v \in Handles : owner[d] = owner[h] /\ new.keyMaterial = Enc(p, d, v)
    BY <2>1, EffectOnPacket
  <2> HIDE DEF pk, new
  <2> SUFFICES /\ owner[new.salt] # Null
               /\ \A q \in Pass, s \in Handles, v \in Handles : new.keyMaterial = Enc(q, s, v) => owner[s] # Null
    BY DEF new
  <2> QED BY <2>2, <2>3, <2>4, MaterialForms
<1>3. ASSUME NEW c \in Calls PROVE SaltUnused(c)'
  <2> SUFFICES ASSUME Op(c) \in Encrypting, owner[c] # Null, NEW i \in Pos, NEW p \in Args,
                      p = call[c].pass[i], Stage(c, i, p)' \in Early,
                      NEW q \in Pass, NEW v \in Handles
               PROVE  packets'[owner[c]][i].keyMaterial # Enc(q, c, v)
    <3>1. \A i \in Pos : call[c].pass[i] \in Args
      BY DEF TypeOK, CallRec
    <3>2. UNCHANGED call
      OBVIOUS
    <3> QED BY <3>1, <3>2 DEF SaltUnused, Op, Pk, Early
  <2>1. owner[c] \in Handles /\ c \in Handles
    BY Inclusions DEF TypeOK
  <2>2. Stage(c, i, p) \in Early
    BY DEF Forward
  <2>3. packets[owner[c]][i].keyMaterial # Enc(q, c, v)
    BY <2>2 DEF PacketsRight, SaltUnused, Early, Pk
  <2>4. \/ packets'[owner[c]][i].keyMaterial \in {packets[owner[c]][i].keyMaterial, NoMaterial, Clear}
        \/ \E d \in D, r \in Pass, w \in Handles :
             /\ packets'[owner[c]][i].keyMaterial = Enc(r, d, w)
             /\ r = call[d].pass[i] /\ Stage(d, i, r)' = "encrypted"
    BY <2>1, EffectOnPacket
  <2> QED BY <2>3, <2>4, MaterialForms DEF Early, AtWork
<1> QED BY <1>1, <1>2, <1>3

-----------------------------------------------------------------------------
(* What packet.encrypt() has stored *)

\* What EncryptProgress says of one task, before and after a step.
Progress(c, i, p, pk) ==
  \/ isDummy(pk)
  \/ /\ Stage(c, i, p) = "kdf" => Salted(pk, c)
     /\ Stage(c, i, p) \in {"hash", "cipher"} => Seeded(pk, c)
     /\ Stage(c, i, p) = "cipher" => task[c][i][p].iv = c
     /\ Stage(c, i, p) = "encrypted" /\ Running(c) => Sealed(pk, c, p)
     /\ Stage(c, i, p) = "done" /\ status[c] = "packets" => LockedWith(pk, p)
After(c, i, p, pk) ==
  \/ isDummy(pk)
  \/ /\ Stage(c, i, p)' = "kdf" => Salted(pk, c)
     /\ Stage(c, i, p)' \in {"hash", "cipher"} => Seeded(pk, c)
     /\ Stage(c, i, p)' = "cipher" => task'[c][i][p].iv = c
     /\ Stage(c, i, p)' = "encrypted" /\ Running(c)' => Sealed(pk, c, p)
     /\ Stage(c, i, p)' = "done" /\ status'[c] = "packets" => LockedWith(pk, p)

LEMMA ProgressAfter ==
  ASSUME NEW c \in Calls,
         ~Overlapped(owner[c])' => \A i \in Pos, p \in Pass : After(c, i, p, packets'[owner'[c]][i])
  PROVE  EncryptProgress(c)'
<1> SUFFICES ASSUME ~Overlapped(owner[c])', NEW i \in Pos, NEW p \in Pass
             PROVE  Progress(c, i, p, Pk(c, i))'
  BY DEF EncryptProgress, Progress
<1> QED BY DEF After, Progress, Pk, isDummy, Salted, Seeded, Sealed, LockedWith, Locked, Opens

\* Clearing a packet takes nothing from what its task has stored.
LEMMA ProgressCleared ==
  ASSUME NEW pk \in Packet, NEW c, NEW p
  PROVE  /\ Salted(Cleared(pk), c) <=> Salted(pk, c)
         /\ Seeded(Cleared(pk), c) <=> Seeded(pk, c)
         /\ Sealed(Cleared(pk), c, p) <=> Sealed(pk, c, p)
         /\ Sealed(pk, c, p) => LockedWith(Cleared(pk), p)
         /\ isDummy(Cleared(pk)) <=> isDummy(pk)
BY PacketFields DEF Salted, Seeded, Sealed, LockedWith, Locked, Opens, isDummy

\* The tasks of a call that stay where they are.
LEMMA ProgressStays ==
  ASSUME NEW c \in Calls, NEW i \in Pos, NEW p \in Pass, NEW pk, Progress(c, i, p, pk),
         task'[c][i][p] = task[c][i][p], Running(c)' => Running(c), status'[c] = "packets" => status[c] = "packets"
  PROVE  After(c, i, p, pk)
BY DEF Progress, After, Stage

\* A protected packet stays so, and so does what was stored in it.
LEMMA ProtectedStays ==
  ASSUME TypeOK, CallsRight, NEW D \in SUBSET Calls, UNCHANGED <<owner, call>>,
         NEW c \in Calls, Op(c) \in Encrypting, owner[c] # Null, NEW i \in Pos, Effect(D, owner[c], i),
         Pk(c, i).s2kUsage \in Protected
  PROVE  \/ isDummy(Pk(c, i)')
         \/ /\ Pk(c, i)'.kind = Pk(c, i).kind
            /\ Pk(c, i)'.s2kUsage \in Protected
            /\ StoredFor(owner[c], i) => StoredFor(owner[c], i)'
            /\ Locked(Pk(c, i)) => Locked(Pk(c, i)')
<1> DEFINE pk == packets[owner[c]][i]
           new == packets'[owner[c]][i]
           Goal == \/ isDummy(new)
                   \/ /\ new.kind = pk.kind
                      /\ new.s2kUsage \in Protected
                      /\ StoredFor(owner[c], i) => StoredFor(owner[c], i)'
                      /\ Locked(pk) => Locked(new)
<1>1. pk \in Packet /\ Pk(c, i) = pk /\ Pk(c, i)' = new
  BY Inclusions DEF TypeOK, Pk
<1> SUFFICES Goal
  BY <1>1
<1>2. new.keyMaterial = pk.keyMaterial /\ StoredFor(owner[c], i) => StoredFor(owner[c], i)'
  BY DEF StoredFor
<1>3. Effect(D, owner[c], i)
  OBVIOUS
<1> HIDE DEF pk, new
<1>4. CASE new = pk
  BY <1>1, <1>2, <1>4 DEF Pk
<1>5. CASE isDecrypted(pk) /\ new = Cleared(pk)
  BY <1>1, <1>2, <1>5, PacketFields DEF isDecrypted, Locked
<1>6. CASE new = Dummied(pk)
  BY <1>1, <1>6, PacketFields DEF isDummy
<1>7. CASE pk.s2kUsage = "none"
  BY <1>1, <1>7 DEF Protected
<1>8. ASSUME NEW d \in D, NEW p \in Pass, owner[d] = owner[c],
             \/ Salting(d, i, pk, new) \/ Deriving(d, i, p, pk, new)
             \/ Ciphering(d, i, p, pk, new) \/ Opening(d, i, p, pk, new)
      PROVE  Goal
  <2>1. CASE Salting(d, i, pk, new)
    <3>1. /\ new.kind = pk.kind /\ new.s2kUsage = pk.s2kUsage /\ new.keyMaterial = pk.keyMaterial
          /\ ~Locked(pk)
      BY <1>1, <2>1 DEF Salting, Packet, Locked, isDecrypted
    <3> QED BY <1>1, <1>2, <3>1
  <2>2. CASE Deriving(d, i, p, pk, new)
    BY <1>1, <1>2, <2>2, PacketFields DEF Deriving, Locked
  <2>3. CASE Ciphering(d, i, p, pk, new)
    <3> DEFINE v == task[d][i][p].iv
               m == Enc(p, d, v)
    <3>0. new = Holding(pk, m)
      BY <2>3 DEF Ciphering
    <3> HIDE DEF m
    <3>1. /\ new.kind = pk.kind /\ new.s2kUsage = pk.s2kUsage /\ new.keyMaterial = m
          /\ new.isEncrypted = pk.isEncrypted /\ new.privateParams = pk.privateParams
      BY <1>1, <3>0, PacketFields
    <3>2. v \in Handles /\ p # NoPass /\ p = call[d].pass[i]
      BY <2>3, Inclusions DEF TypeOK, Task, Ciphering
    <3> HIDE DEF v
    <3>3. StoredFor(owner[c], i)'
      <4>1. packets'[owner[c]][i].keyMaterial = Enc(call[d].pass[i], d, v)
        BY <3>1, <3>2 DEF new, m
      <4> QED BY <1>8, <3>2, <4>1 DEF StoredFor
    <3> QED BY <1>1, <3>1, <3>3 DEF Locked
  <2>4. ~Opening(d, i, p, pk, new)
    <3>1. d = c \/ ~(Op(d) = "decryptKey" /\ status[d] # "returned")
      BY <1>8, Inclusions DEF CallsRight, Private
    <3> QED BY <3>1 DEF Opening, Encrypting, Wrapping
  <2> QED BY <1>8, <2>1, <2>2, <2>3, <2>4
<1> QED BY <1>3, <1>4, <1>5, <1>6, <1>7, <1>8 DEF Effect, pk, new

\* What Storing says of one task, and when it is not asked for more than before.
StoringTask(c, i, p) ==
  \/ isDummy(Pk(c, i))
  \/ /\ Stage(c, i, p) \in AtWork \cup {"encrypted", "done"} => Pk(c, i).kind = "normal"
     /\ Stage(c, i, p) \in {"hash", "cipher", "encrypted", "done"} => Pk(c, i).s2kUsage \in Protected
     /\ Stage(c, i, p) \in {"encrypted", "done"} => StoredFor(owner[c], i)
NoFurther(c, i, p) ==
  /\ Stage(c, i, p)' \in AtWork \cup {"encrypted", "done"} => Stage(c, i, p) \in AtWork \cup {"encrypted", "done"}
  /\ Stage(c, i, p)' \in {"hash", "cipher", "encrypted", "done"} =>
       Stage(c, i, p) \in {"hash", "cipher", "encrypted", "done"}
  /\ Stage(c, i, p)' \in {"encrypted", "done"} => Stage(c, i, p) \in {"encrypted", "done"}

LEMMA StoringStays ==
  ASSUME TypeOK, CallsRight, PacketsRight, NEW D \in SUBSET Calls, UNCHANGED <<owner, call>>,
         NEW c \in Calls, Op(c) \in Encrypting, owner[c] # Null, NEW i \in Pos, Effect(D, owner[c], i),
         NEW p \in Pass, NoFurther(c, i, p)
  PROVE  StoringTask(c, i, p)'
<1>1. StoringTask(c, i, p)
  BY DEF PacketsRight, Storing, StoringTask
<1>2. owner[c] \in Handles /\ owner'[c] = owner[c]
  BY Inclusions DEF TypeOK
<1>3. Pk(c, i)'.kind \in {Pk(c, i).kind, "dummy"}
  BY <1>2, EffectOnPacket DEF Pk
<1>4. Pk(c, i).s2kUsage \in Protected =>
        \/ isDummy(Pk(c, i)')
        \/ /\ Pk(c, i)'.s2kUsage \in Protected
           /\ StoredFor(owner[c], i) => StoredFor(owner[c], i)'
  BY ProtectedStays
<1>5. isDummy(Pk(c, i)) => isDummy(Pk(c, i)')
  BY <1>3 DEF isDummy
<1>6. isDummy(Pk(c, i)') \/ Pk(c, i)'.kind = Pk(c, i).kind
  BY <1>3 DEF isDummy
<1>7. /\ isDummy(Pk(c, i))' <=> isDummy(Pk(c, i)')
      /\ StoredFor(owner[c], i)' \/ ~StoredFor(owner[c], i)'
  BY DEF isDummy
<1>8. CASE isDummy(Pk(c, i)')
  BY <1>7, <1>8 DEF StoringTask
<1>9. CASE ~isDummy(Pk(c, i)')
  <2>1. /\ Stage(c, i, p) \in AtWork \cup {"encrypted", "done"} => Pk(c, i)'.kind = "normal"
        /\ Stage(c, i, p) \in {"hash", "cipher", "encrypted", "done"} => Pk(c, i)'.s2kUsage \in Protected
        /\ Stage(c, i, p) \in {"encrypted", "done"} => StoredFor(owner[c], i)'
    BY <1>1, <1>4, <1>5, <1>6, <1>9 DEF StoringTask
  <2> QED BY <2>1 DEF StoringTask, NoFurther
<1> QED BY <1>8, <1>9

\* A call whose turn it is not.
LEMMA OthersKept ==
  ASSUME TypeOK, CallsRight, PacketsRight, NEW D \in SUBSET Calls, UNCHANGED <<owner, call>>,
         \A s \in Handles, i \in Pos : Effect(D, s, i), \A d \in Calls : Forward(d),
         NEW c \in Calls, c \notin D, status'[c] = status[c], task'[c] = task[c],
         (\A h \in Handles : h \in D \/ Held(h) => owner[h] # owner[c]) => packets'[owner[c]] = packets[owner[c]]
  PROVE  EncryptProgress(c)' /\ Storing(c)' /\ DecryptProgress(c)' /\ LeftOver(c)' /\ LockHolds(c)'
<1>0. /\ EncryptProgress(c) /\ DecryptProgress(c) /\ LeftOver(c) /\ LockHolds(c)
      /\ EncryptTasks(c) /\ Private(c) /\ PhaseRight(c)
  BY DEF PacketsRight, CallsRight
<1>1. EncryptProgress(c)'
  <2> SUFFICES ASSUME Op(c) \in Encrypting, owner[c] # Null, ~Overlapped(owner[c]), NEW i \in Pos, NEW p \in Pass
               PROVE  After(c, i, p, packets'[owner[c]][i])
    <3>1. Overlapped(owner[c])' <=> Overlapped(owner[c])
      BY DEF Overlapped
    <3>2. (\A i \in Pos, p \in Pass : After(c, i, p, packets'[owner[c]][i])) => EncryptProgress(c)'
      BY ProgressAfter
    <3> QED BY <3>1, <3>2 DEF EncryptProgress, Op
  <2> DEFINE pk == packets[owner[c]][i]
             new == packets'[owner[c]][i]
  <2>1. owner[c] \in Handles /\ pk \in Packet
    BY Inclusions DEF TypeOK
  <2>2. Progress(c, i, p, pk)
    BY <1>0 DEF EncryptProgress, Progress, Pk
  <2>3. /\ Stage(c, i, p)' = Stage(c, i, p) /\ task'[c][i][p] = task[c][i][p]
        /\ Running(c)' <=> Running(c)
    BY DEF Stage, Running
  <2>4. SUFFICES ASSUME \/ Stage(c, i, p) \in AtWork
                        \/ Stage(c, i, p) = "encrypted" /\ Running(c)
                        \/ Stage(c, i, p) = "done" /\ status[c] = "packets"
                 PROVE  After(c, i, p, new)
    BY <2>3 DEF After, AtWork
  <2>5. Writes(c)
    BY <2>4 DEF Writes, InFlight, Running
  <2>6. \A d \in D, q \in Pass : owner[d] = owner[c] =>
          ~Salting(d, i, pk, new) /\ ~Deriving(d, i, q, pk, new) /\ ~Ciphering(d, i, q, pk, new)
    BY <2>5 DEF CallsRight, OneWriter, Salting, Deriving, Ciphering
  <2>7. \A d \in D, q \in Pass : owner[d] = owner[c] => ~Opening(d, i, q, pk, new)
    BY Inclusions DEF CallsRight, Private, Opening
  <2>8. \/ new = pk
        \/ isDecrypted(pk) /\ new = Cleared(pk)
        \/ new = Dummied(pk)
        \/ pk.s2kUsage = "none" /\ pk.privateParams = "live" /\ new = Holding(pk, Clear)
    <3>1. Effect(D, owner[c], i)
      BY <2>1
    <3> QED BY <2>6, <2>7, <3>1 DEF Effect
  <2> HIDE DEF pk, new
  <2>9. Progress(c, i, p, new)
    <3>1. CASE new = pk
      BY <2>2, <3>1
    <3>2. CASE isDecrypted(pk) /\ new = Cleared(pk)
      BY <2>1, <2>2, <3>2, PacketFields DEF Progress, isDecrypted, isDummy, Salted, Seeded, Sealed, LockedWith, Locked
    <3>3. CASE new = Dummied(pk)
      BY <2>1, <3>3, PacketFields DEF Progress, isDummy
    <3>4. CASE pk.s2kUsage = "none" /\ pk.privateParams = "live" /\ new = Holding(pk, Clear)
      BY <2>1, <2>2, <3>4, PacketFields
         DEF Progress, isDummy, Salted, Seeded, Sealed, LockedWith, Locked, Protected
    <3> QED BY <2>8, <3>1, <3>2, <3>3, <3>4
  <2> QED BY <2>3, <2>9, ProgressStays
<1>5. Storing(c)'
  <2> SUFFICES ASSUME Op(c) \in Encrypting, owner[c] # Null, NEW i \in Pos, NEW p \in Pass
               PROVE  StoringTask(c, i, p)'
    BY DEF Storing, StoringTask, Op
  <2>1. owner[c] \in Handles
    BY Inclusions DEF TypeOK
  <2>2. Effect(D, owner[c], i)
    BY <2>1
  <2>3. NoFurther(c, i, p)
    BY DEF NoFurther, Stage
  <2> QED BY <2>2, <2>3, StoringStays
<1>2. DecryptProgress(c)'
  <2> SUFFICES ASSUME Op(c) = "decryptKey", status[c] # "returned" PROVE DecryptProgress(c)'
    BY DEF DecryptProgress, Op
  <2>1. \A h \in Handles : h \in D \/ Held(h) => owner[h] # owner[c]
    BY <1>0, Inclusions DEF Private, Held
  <2> QED BY <1>0, <2>1 DEF DecryptProgress, Op, Pk, Stage, isDummy
<1>3. LeftOver(c)'
  <2> SUFFICES ASSUME Op(c) = "decryptKey", status[c] = "returned", NEW i \in Pos, NEW p \in Pass,
                      Stage(c, i, p) = "kdf", NEW q \in Pass, NEW s \in Handles, NEW v \in Handles,
                      packets'[owner[c]][i].keyMaterial = Enc(q, s, v)
               PROVE  owner[s] = c
    BY <1>0 DEF LeftOver, Op, Stage, Pk
  <2>1. owner[c] = c
    BY <1>0 DEF Private
  <2>2. packets[owner[c]][i].keyMaterial = Enc(q, s, v) => owner[s] = c
    BY <1>0 DEF LeftOver, Pk
  <2>3. \/ packets'[owner[c]][i].keyMaterial \in {packets[owner[c]][i].keyMaterial, NoMaterial, Clear}
        \/ \E d \in D, r \in Pass, w \in Handles :
             owner[d] = owner[c] /\ packets'[owner[c]][i].keyMaterial = Enc(r, d, w)
    BY <2>1, EffectOnPacket, Inclusions
  <2> QED BY <2>1, <2>2, <2>3, MaterialForms
<1>4. LockHolds(c)'
  <2> SUFFICES ASSUME status[c] = "returned", NEW i \in Pos, call[c].pass[i] # NoPass,
                      ~isDummy(packets'[owner[c]][i])
               PROVE  LET new == packets'[owner[c]][i]
                      IN  /\ Locked(new) /\ StoredFor(owner[c], i)'
                          /\ \/ Overlapped(owner[c])
                             \/ /\ Opens(new, call[c].pass[i])
                                /\ \A d \in Calls, p \in Pass :
                                     Op(d) \in Encrypting /\ owner[d] = owner[c] => Stage(d, i, p)' \notin AtWork
    BY DEF LockHolds, Pk, isDummy, Locked, Opens, Op, Overlapped
  <2> DEFINE pk == packets[owner[c]][i]
             new == packets'[owner[c]][i]
             q == call[c].pass[i]
  <2>1. owner[c] \in Handles /\ pk \in Packet
    BY Inclusions DEF TypeOK
  <2>2. ~isDummy(pk)
    BY <2>1, EffectOnPacket DEF isDummy
  <2>3. /\ Locked(pk) /\ StoredFor(owner[c], i)
        /\ \/ Overlapped(owner[c])
           \/ /\ Opens(pk, q)
              /\ \A d \in Calls, p \in Pass :
                   Op(d) \in Encrypting /\ owner[d] = owner[c] => Stage(d, i, p) \notin AtWork
    BY <1>0, <2>2 DEF LockHolds, Pk
  <2>4. ~isDecrypted(pk) /\ pk.privateParams = "null" /\ pk.s2kUsage \in Protected
    BY <2>3 DEF Locked, isDecrypted
  <2>5. Effect(D, owner[c], i)
    BY <2>1
  <2>6. Op(c) \in Encrypting /\ owner[c] # Null
    BY <1>0, <2>1, HandleAssumption DEF PhaseRight, Handles
  <2>7. Locked(new) /\ StoredFor(owner[c], i)'
    <3>1. Pk(c, i) = pk /\ Pk(c, i)' = new
      BY DEF Pk
    <3> QED BY <2>3, <2>4, <2>5, <2>6, <3>1, ProtectedStays
  <2>8. CASE ~Overlapped(owner[c])
    <3>1. \A d \in D, p \in Pass : owner[d] = owner[c] =>
            ~Salting(d, i, pk, new) /\ ~Deriving(d, i, p, pk, new) /\ ~Ciphering(d, i, p, pk, new)
      BY <2>3, <2>4, <2>8 DEF Salting, Deriving, Ciphering, Writes, AtWork
    <3>2. \A d \in D, p \in Pass : owner[d] = owner[c] => ~Opening(d, i, p, pk, new)
      BY Inclusions DEF CallsRight, Private, Opening
    <3>3. new = pk \/ new = Dummied(pk)
      BY <2>4, <2>5, <3>1, <3>2 DEF Effect, Protected
    <3>4. new = pk
      BY <2>1, <3>3, PacketFields DEF isDummy
    <3>5. \A d \in Calls, p \in Pass :
            Op(d) \in Encrypting /\ owner[d] = owner[c] => Stage(d, i, p)' \notin AtWork
      BY <2>3, <2>4, <2>8 DEF Forward, Pk
    <3> QED BY <2>3, <2>7, <2>8, <3>4, <3>5
  <2> QED BY <2>7, <2>8
<1> QED BY <1>1, <1>2, <1>3, <1>4, <1>5

-----------------------------------------------------------------------------
(* The packets of the call whose turn it is *)

\* Whatever other calls store beside it, a packet keeps what Storing says.
LEMMA StoringKept ==
  ASSUME TypeOK, FlagsMatch, CallsRight, PacketsRight, NEW c \in Calls, ~Begins(c),
         EncryptKeyStep(c) \/ DecryptKeyStep(c) \/ PacketStep(c) \/ WrapStep(c)
  PROVE  Storing(c)'
<1>0. EncryptTasks(c) /\ PhaseRight(c)
  BY DEF CallsRight
<1>1. UNCHANGED <<owner, call>> /\ \A s \in Handles, i \in Pos : Effect({c}, s, i)
  BY TurnFrame, TurnEffect
<1> SUFFICES ASSUME Op(c) \in Encrypting, owner[c] # Null, NEW i \in Pos, NEW p \in Pass
             PROVE  StoringTask(c, i, p)'
  BY <1>1 DEF Storing, StoringTask, Op
<1>2. owner[c] \in Handles /\ Pk(c, i) \in Packet
  BY Inclusions DEF TypeOK, Pk
<1>3. ASSUME NoFurther(c, i, p) PROVE StoringTask(c, i, p)'
  BY <1>1, <1>2, <1>3, StoringStays
<1>4. task' = task => NoFurther(c, i, p)
  BY DEF NoFurther, Stage
<1>5. StoringTask(c, i, p)
  BY DEF PacketsRight, Storing, StoringTask
<1>6. CASE EncryptKeyStep(c)
  <2>1. ASSUME NEW j \in Pos, NEW q \in Pass, EncryptKeyClears(c, j, q) PROVE NoFurther(c, i, p)
    <3>1. PICK stage \in {"done", "failed"} : task' = Advance(c, j, q, stage)
      BY <2>1 DEF EncryptKeyClears
    <3>2. Moves(c, j, q, stage) /\ Stage(c, j, q) = "encrypted"
      BY <2>1, <3>1, Advanced, Inclusions DEF EncryptKeyClears, Stage
    <3>3. Stage(c, i, p)' = IF i = j /\ p = q THEN stage ELSE Stage(c, i, p)
      BY <3>2, Inclusions DEF Moves
    <3> QED BY <3>2, <3>3 DEF NoFurther, AtWork
  <2>2. EncryptKeyThrows(c) \/ EncryptKeyReturns(c) => task' = task
    BY DEF EncryptKeyThrows, EncryptKeyReturns
  <2> QED BY <1>3, <1>4, <1>6, <2>1, <2>2 DEF EncryptKeyStep, Begins
<1>7. CASE DecryptKeyStep(c)
  <2>2. \A j \in Pos, q \in Pass : ~DecryptDerived(c, j, q) /\ ~DecryptCiphered(c, j, q)
    <3>1. \A j \in Pos, q \in Pass : Stage(c, j, q) \notin {"matched", "wrong"}
      BY <1>0, Inclusions DEF EncryptTasks, AtWork
    <3> QED BY <3>1 DEF DecryptDerived, DecryptCiphered, Op, Encrypting, Wrapping, Stage
  <2>3. DecryptKeyThrows(c) \/ DecryptKeyReturns(c) => task' = task
    BY DEF DecryptKeyThrows, DecryptKeyReturns
  <2> QED BY <1>3, <1>4, <1>7, <2>2, <2>3 DEF DecryptKeyStep, Begins
<1>8. CASE PacketStep(c)
  <2>1. PICK j \in Pos, q \in Pass : EncryptDerived(c, j, q) \/ EncryptHashed(c, j, q) \/ EncryptCiphered(c, j, q)
    BY <1>8 DEF PacketStep
  <2>2. CASE EncryptDerived(c, j, q)
    <3>1. /\ Assigns(owner[c], j, Derived(Pk(c, j), c)) /\ Stage(c, j, q) = "kdf"
          /\ task' = Advance(c, j, q, "hash")
      BY <2>2 DEF EncryptDerived, Stage, Assigns, Pk
    <3>2. Stage(c, i, p)' = IF i = j /\ p = q THEN "hash" ELSE Stage(c, i, p)
      BY <3>1, Advanced, Inclusions DEF Moves
    <3>3. CASE i = j /\ p = q
      <4>1. Pk(c, i)' = Derived(Pk(c, i), c)
        BY <1>1, <1>2, <3>1, <3>3, PacketAssigned DEF Pk
      <4>2. Pk(c, i)'.kind = Pk(c, i).kind /\ Pk(c, i)'.s2kUsage \in Protected
        BY <1>2, <4>1, PacketFields
      <4>3. isDummy(Pk(c, i)) \/ Pk(c, i).kind = "normal"
        BY <1>5, <3>1, <3>3 DEF StoringTask, AtWork
      <4> QED BY <3>2, <3>3, <4>2, <4>3 DEF StoringTask, isDummy
    <3>4. CASE ~(i = j /\ p = q)
      BY <1>3, <3>2, <3>4 DEF NoFurther
    <3> QED BY <3>3, <3>4
  <2>3. CASE EncryptHashed(c, j, q)
    <3>1. Moves(c, j, q, "cipher") /\ Stage(c, j, q) = "hash"
      BY <2>3, Hashed, Inclusions DEF EncryptHashed, Stage
    <3>2. Stage(c, i, p)' = IF i = j /\ p = q THEN "cipher" ELSE Stage(c, i, p)
      BY <3>1, Inclusions DEF Moves
    <3> QED BY <1>3, <3>1, <3>2 DEF NoFurther, AtWork
  <2>4. CASE EncryptCiphered(c, j, q)
    <3> DEFINE v == task[c][j][q].iv
               m == Enc(q, task[c][j][q].salt, v)
    <3>1. /\ Assigns(owner[c], j, Holding(Pk(c, j), m)) /\ Stage(c, j, q) = "cipher"
          /\ task' = Advance(c, j, q, "encrypted")
      BY <2>4 DEF EncryptCiphered, Stage, Assigns, Pk
    <3>2. Stage(c, i, p)' = IF i = j /\ p = q THEN "encrypted" ELSE Stage(c, i, p)
      BY <3>1, Advanced, Inclusions DEF Moves
    <3>3. CASE i = j /\ p = q
      <4>1. Pk(c, i)' = Holding(Pk(c, i), m)
        BY <1>1, <1>2, <3>1, <3>3, PacketAssigned DEF Pk
      <4> HIDE DEF m
      <4>2. /\ Pk(c, i)'.kind = Pk(c, i).kind /\ Pk(c, i)'.s2kUsage = Pk(c, i).s2kUsage
            /\ Pk(c, i)'.keyMaterial = m
        BY <1>2, <4>1, PacketFields
      <4>3. isDummy(Pk(c, i)) \/ (Pk(c, i).kind = "normal" /\ Pk(c, i).s2kUsage \in Protected)
        BY <1>5, <3>1, <3>3 DEF StoringTask, AtWork
      <4>4. StoredFor(owner[c], i)'
        <5>1. p = call[c].pass[i] /\ task[c][i][p].salt = c /\ p # NoPass /\ v \in Handles
          BY <1>0, <3>1, <3>3, Inclusions DEF EncryptTasks, AtWork, TypeOK, Task
        <5>2. packets'[owner[c]][i].keyMaterial = Enc(call[c].pass[i], c, v)
          BY <1>1, <3>3, <4>2, <5>1 DEF Pk, m
        <5> QED BY <1>1, <5>1, <5>2 DEF StoredFor
      <4> QED BY <1>1, <3>2, <3>3, <4>2, <4>3, <4>4 DEF StoringTask, isDummy
    <3>4. CASE ~(i = j /\ p = q)
      BY <1>3, <3>2, <3>4 DEF NoFurther
    <3> QED BY <3>3, <3>4
  <2> QED BY <2>1, <2>2, <2>3, <2>4
<1>9. CASE WrapStep(c)
  <2>1. ASSUME NEW S \in SUBSET Pos, NEW next, WrapEncrypts(c, S, next) PROVE StoringTask(c, i, p)'
    <3> DEFINE pass == call[c].pass
               T == {j \in S : pass[j] # NoPass}
               key == packets[owner[c]]
    <3>1. /\ Pk(c, i)' = IF i \in T THEN EncryptPrologue(key[i], pass[i], c) ELSE key[i]
          /\ task'[c][i][p] = IF i \in T /\ p = pass[i] THEN EncryptTask(key[i], p, c, "encrypted") ELSE task[c][i][p]
      BY <1>2, <2>1, Inclusions DEF WrapEncrypts, Pk, TypeOK
    <3>2. CASE i \in T /\ p = pass[i]
      <4>1. Pk(c, i)' = EncryptPrologue(key[i], p, c) /\ task'[c][i][p] = EncryptTask(key[i], p, c, "encrypted")
        BY <3>1, <3>2
      <4>2. key[i] \in Packet /\ (isDecrypted(key[i]) => key[i].kind = "normal")
        BY <1>2 DEF TypeOK, PacketsRight, NormalWhenDecrypted, Pk
      <4> HIDE DEF key
      <4>3. CASE EncryptStarts(key[i], p)
        <5>1. Stage(c, i, p)' = "kdf"
          BY <4>1, <4>3 DEF EncryptTask, EncryptStarts, EncryptRefuses, At, Stage
        <5>2. Pk(c, i)' = [key[i] EXCEPT !.salt = c]
          BY <4>1, <4>3 DEF EncryptPrologue
        <5>3. Pk(c, i)'.kind = "normal"
          BY <4>2, <4>3, <5>2 DEF EncryptStarts, Packet
        <5> QED BY <5>1, <5>3 DEF StoringTask
      <4>4. CASE ~EncryptStarts(key[i], p)
        <5>1. isDummy(Pk(c, i)') \/ Stage(c, i, p)' = "failed"
          BY <4>1, <4>4 DEF EncryptTask, EncryptStarts, EncryptRefuses, EncryptPrologue, At, Stage
        <5> QED BY <5>1 DEF StoringTask, AtWork, isDummy
      <4> QED BY <4>3, <4>4
    <3>3. CASE ~(i \in T /\ p = pass[i])
      <4>1. Stage(c, i, p)' = Stage(c, i, p)
        BY <3>1, <3>3 DEF Stage
      <4> QED BY <1>3, <4>1 DEF NoFurther
    <3> QED BY <3>2, <3>3
  <2>2. CASE WrapPrimary(c) \/ WrapSubkeys(c)
    BY <2>1, <2>2, PrimaryAssumption DEF WrapPrimary, WrapSubkeys
  <2>3. CASE WrapSign(c) \/ WrapSigned(c) \/ WrapThrows(c) \/ WrapReturns(c)
    BY <1>3, <1>4, <2>3 DEF WrapSign, WrapSigned, WrapThrows, WrapReturns
  <2> QED BY <1>9, <2>2, <2>3 DEF WrapStep, Begins
<1> QED BY <1>6, <1>7, <1>8, <1>9

\* A running encryptKey is alone on its slot.
LEMMA PrivateAlone ==
  ASSUME CallsRight, NEW c \in Calls, Op(c) = "encryptKey", status[c] # "returned"
  PROVE  ~Overlapped(owner[c])
<1>1. owner[c] = c /\ \A h \in Handles : owner[h] = c => h = c
  BY DEF CallsRight, Private
<1>2. ~call[c].overlaps
  BY DEF CallsRight, PhaseRight, Op
<1> QED BY <1>1, <1>2, Inclusions DEF Overlapped

\* encryptKey: every packet comes out sealed, and then locked.
LEMMA EncryptKeyProgress ==
  ASSUME TypeOK, FlagsMatch, CallsRight, PacketsRight, NEW c \in Calls, EncryptKeyStep(c), ~Begins(c)
  PROVE  EncryptProgress(c)' /\ LockHolds(c)' /\ ~(Op(c)' = "decryptKey")
<1>0. /\ EncryptProgress(c) /\ Storing(c) /\ LockHolds(c) /\ EncryptTasks(c) /\ Private(c) /\ PhaseRight(c)
  BY DEF PacketsRight, CallsRight
<1>1. /\ \/ EncryptKeyThrows(c) \/ EncryptKeyReturns(c)
         \/ \E i \in Pos, p \in Pass : EncryptKeyClears(c, i, p)
      /\ Op(c) = "encryptKey" /\ UNCHANGED <<owner, call>>
  BY DEF EncryptKeyStep, Begins, EncryptKeyThrows, EncryptKeyReturns, EncryptKeyClears, Op
<1>2. owner[c] = c /\ c \in Handles /\ Op(c) \in Encrypting /\ owner[c] # Null
  BY <1>0, <1>1, Inclusions DEF Private, Encrypting
<1>3. \A i \in Pos, p \in Pass : /\ ~Overlapped(owner[c]) => Progress(c, i, p, Pk(c, i))
                                 /\ Pk(c, i) \in Packet
  BY <1>0, <1>2 DEF EncryptProgress, Progress, Pk, TypeOK
<1>10. Overlapped(owner[c])' <=> Overlapped(owner[c])
  BY <1>1 DEF Overlapped
<1>4. CASE EncryptKeyThrows(c)
  <2>1. /\ \A i \in Pos : Pk(c, i)' \in {Pk(c, i), Cleared(Pk(c, i))}
        /\ status'[c] = "threw" /\ task' = task
    BY <1>1, <1>2, <1>4 DEF EncryptKeyThrows, TypeOK, Pk, ClearedKey
  <2>2. ~Running(c)'
    BY <2>1 DEF Running
  <2>3. ASSUME ~Overlapped(owner[c]), NEW i \in Pos, NEW p \in Pass PROVE After(c, i, p, Pk(c, i)')
    <3>1. task'[c][i][p] = task[c][i][p] /\ Stage(c, i, p)' = Stage(c, i, p)
      BY <2>1 DEF Stage
    <3>2. \/ isDummy(Pk(c, i)')
          \/ /\ Stage(c, i, p) = "kdf" => Salted(Pk(c, i)', c)
             /\ Stage(c, i, p) \in {"hash", "cipher"} => Seeded(Pk(c, i)', c)
             /\ Stage(c, i, p) = "cipher" => task[c][i][p].iv = c
      BY <1>3, <2>1, <2>3, ProgressCleared DEF Progress
    <3> QED BY <2>1, <2>2, <3>1, <3>2 DEF After
  <2>4. EncryptProgress(c)'
    BY <1>1, <1>10, <2>3, ProgressAfter DEF Pk
  <2> QED BY <1>1, <2>1, <2>4 DEF LockHolds, Op
<1>5. CASE EncryptKeyReturns(c)
  <2>1. /\ status[c] = "packets" /\ status'[c] = "returned" /\ UNCHANGED <<packets, owner, call, task>>
        /\ \A i \in Pos : Stage(c, i, call[c].pass[i]) = "done"
    BY <1>5 DEF EncryptKeyReturns, TypeOK, Stage
  <2>2. ~Overlapped(owner[c])
    BY <1>1, <2>1, PrivateAlone
  <2>3. EncryptProgress(c)'
    <3> SUFFICES ASSUME NEW i \in Pos, NEW p \in Pass PROVE After(c, i, p, Pk(c, i)')
      BY <1>1, ProgressAfter DEF Pk
    <3> QED BY <1>3, <2>1, <2>2 DEF Progress, After, Pk, Stage, Running
  <2>4. LockHolds(c)'
    <3> SUFFICES ASSUME NEW i \in Pos, call[c].pass[i] # NoPass, ~isDummy(Pk(c, i))
                 PROVE  /\ LockedWith(Pk(c, i), call[c].pass[i]) /\ StoredFor(owner[c], i)
                        /\ \A d \in Calls, p \in Pass :
                             Op(d) \in Encrypting /\ owner[d] = owner[c] => Stage(d, i, p) \notin AtWork
      BY <2>1 DEF LockHolds, Op, Pk, Stage, isDummy, LockedWith, Locked, Opens, StoredFor
    <3>1. call[c].pass[i] \in Pass
      BY Inclusions DEF TypeOK, CallRec
    <3>2. LockedWith(Pk(c, i), call[c].pass[i])
      BY <1>3, <2>1, <2>2, <3>1 DEF Progress
    <3>3. \A d \in Calls : owner[d] = owner[c] => d = c
      BY <1>0, <1>1, <1>2, <2>1, Inclusions DEF Private
    <3>4. \A p \in Pass : Stage(c, i, p) \notin AtWork
      BY <1>0, <1>2, <2>1, Inclusions DEF EncryptTasks, AtWork
    <3>5. StoredFor(owner[c], i)
      BY <1>0, <1>2, <2>1, <3>1 DEF Storing
    <3> QED BY <3>2, <3>3, <3>4, <3>5
  <2> QED BY <1>1, <2>1, <2>3, <2>4 DEF Op
<1>6. ASSUME NEW i \in Pos, NEW p \in Pass, EncryptKeyClears(c, i, p)
      PROVE  EncryptProgress(c)' /\ LockHolds(c)' /\ ~(Op(c)' = "decryptKey")
  <2>1. Stage(c, i, p) = "encrypted" /\ UNCHANGED <<owner, call, status>>
    BY <1>6 DEF EncryptKeyClears, Stage
  <2>2. status[c] \notin {"unused", "returned"} /\ p = call[c].pass[i]
    BY <1>0, <1>1, <1>2, <2>1, Inclusions DEF EncryptTasks, PhaseRight
  <2>3. Running(c)' <=> Running(c)
    BY <2>1 DEF Running
  <2>4. LockHolds(c)'
    BY <2>1, <2>2 DEF LockHolds
  <2>5. CASE packets[owner[c]][i].privateParams = "live"
    <3>1. Assigns(owner[c], i, Cleared(Pk(c, i))) /\ task' = Advance(c, i, p, "done")
      BY <1>6, <2>5 DEF EncryptKeyClears, Assigns, Pk
    <3>2. \A j \in Pos : Pk(c, j)' = IF j = i THEN Cleared(Pk(c, i)) ELSE Pk(c, j)
      BY <1>2, <2>1, <3>1, PacketAssigned DEF Pk
    <3>3. \A j \in Pos, q \in Pass : /\ Stage(c, j, q)' = IF j = i /\ q = p THEN "done" ELSE Stage(c, j, q)
                                     /\ ~(j = i /\ q = p) => task'[c][j][q] = task[c][j][q]
      BY <3>1, Advanced, Inclusions DEF Moves
    <3>4. \A q \in Pass : q # p => Stage(c, i, q)' = "none"
      BY <1>0, <1>2, <2>2, <3>3, Inclusions DEF EncryptTasks
    <3>5. status[c] = "packets" => isDummy(Cleared(Pk(c, i))) \/ LockedWith(Cleared(Pk(c, i)), p)
      <4>1. status[c] = "packets" => isDummy(Pk(c, i)) \/ Sealed(Pk(c, i), c, p)
        BY <1>1, <1>3, <2>1, PrivateAlone DEF Progress, Running
      <4> QED BY <1>3, <4>1, ProgressCleared
    <3>6. EncryptProgress(c)'
      <4> SUFFICES ASSUME ~Overlapped(owner[c]), NEW j \in Pos, NEW q \in Pass
                   PROVE  After(c, j, q, Pk(c, j)')
        BY <1>1, <1>10, ProgressAfter DEF Pk
      <4>1. CASE j = i /\ q = p
        BY <2>1, <3>2, <3>3, <3>5, <4>1 DEF After
      <4>2. CASE j = i /\ q # p
        BY <3>4, <4>2 DEF After
      <4>3. CASE j # i
        BY <1>3, <2>1, <2>3, <3>2, <3>3, <4>3, ProgressStays
      <4> QED BY <4>1, <4>2, <4>3
    <3> QED BY <1>1, <2>4, <3>6 DEF Op
  <2>6. CASE packets[owner[c]][i].privateParams # "live"
    <3>1. packets' = packets /\ task' = Advance(c, i, p, "failed")
      BY <1>6, <2>6 DEF EncryptKeyClears
    <3>2. \A j \in Pos : Pk(c, j)' = Pk(c, j)
      BY <2>1, <3>1 DEF Pk
    <3>3. \A j \in Pos, q \in Pass : /\ Stage(c, j, q)' = IF j = i /\ q = p THEN "failed" ELSE Stage(c, j, q)
                                     /\ ~(j = i /\ q = p) => task'[c][j][q] = task[c][j][q]
      BY <3>1, Advanced, Inclusions DEF Moves
    <3>4. EncryptProgress(c)'
      <4> SUFFICES ASSUME ~Overlapped(owner[c]), NEW j \in Pos, NEW q \in Pass
                   PROVE  After(c, j, q, Pk(c, j)')
        BY <1>1, <1>10, ProgressAfter DEF Pk
      <4>1. CASE j = i /\ q = p
        BY <3>3, <4>1 DEF After
      <4>2. CASE ~(j = i /\ q = p)
        BY <1>3, <2>1, <2>3, <3>2, <3>3, <4>2, ProgressStays
      <4> QED BY <4>1, <4>2
    <3> QED BY <1>1, <2>4, <3>4 DEF Op
  <2> QED BY <2>5, <2>6
<1> QED BY <1>1, <1>4, <1>5, <1>6

\* packet.encrypt(): the salt, then the iv, then the material.
LEMMA PacketStepProgress ==
  ASSUME TypeOK, CallsRight, PacketsRight, NEW c \in Calls, PacketStep(c)
  PROVE  EncryptProgress(c)' /\ LockHolds(c)' /\ ~(Op(c)' = "decryptKey")
<1>0. /\ EncryptProgress(c) /\ EncryptTasks(c) /\ WrapTasks(c) /\ OtherTasks(c) /\ Private(c) /\ PhaseRight(c)
  BY DEF PacketsRight, CallsRight
<1>1. PICK i \in Pos, p \in Pass : EncryptDerived(c, i, p) \/ EncryptHashed(c, i, p) \/ EncryptCiphered(c, i, p)
  BY DEF PacketStep
<1>2. /\ Stage(c, i, p) \in AtWork /\ Op(c) # "decryptKey"
      /\ UNCHANGED <<owner, call, status>>
  BY <1>1 DEF EncryptDerived, EncryptHashed, EncryptCiphered, Stage, Op, AtWork
<1>3. Op(c) \in Encrypting /\ owner[c] \in Handles /\ owner[c] # Null
  BY <1>0, <1>2, SlotsInUse, Inclusions DEF OtherTasks, TypeOK, CallRec, Op, Encrypting, Wrapping, AtWork
<1>4. task[c][i][p].salt = c /\ p = call[c].pass[i]
  BY <1>0, <1>2, <1>3, Inclusions DEF EncryptTasks, AtWork
<1>5. LockHolds(c)'
  <2>1. status[c] # "returned"
    BY <1>0, <1>2, <1>3, Inclusions DEF EncryptTasks, WrapTasks, Encrypting, AtWork
  <2> QED BY <1>2, <2>1 DEF LockHolds
<1> SUFFICES ASSUME ~Overlapped(owner[c]) PROVE EncryptProgress(c)'
  <2>1. Overlapped(owner[c])' <=> Overlapped(owner[c])
    BY <1>2 DEF Overlapped
  <2> QED BY <1>2, <1>5, <2>1 DEF EncryptProgress, Op
<1>6. \A j \in Pos, q \in Pass : Progress(c, j, q, Pk(c, j)) /\ Pk(c, j) \in Packet
  BY <1>0, <1>3 DEF EncryptProgress, Progress, Pk, TypeOK
<1>7. Running(c)' <=> Running(c)
  BY <1>2 DEF Running
<1>8. ASSUME NEW stage, Moves(c, i, p, stage), \A j \in Pos : j # i => Pk(c, j)' = Pk(c, j),
             After(c, i, p, Pk(c, i)')
      PROVE  EncryptProgress(c)'
  <2>1. \A j \in Pos, q \in Pass : ~(j = i /\ q = p) => task'[c][j][q] = task[c][j][q]
    BY <1>8, Inclusions DEF Moves
  <2>2. \A q \in Pass : q # p => Stage(c, i, q)' = "none"
    BY <1>0, <1>3, <1>4, <2>1, Inclusions DEF EncryptTasks, Stage
  <2> SUFFICES ASSUME NEW j \in Pos, NEW q \in Pass
               PROVE  After(c, j, q, Pk(c, j)')
    BY <1>2, ProgressAfter DEF Pk
  <2>3. CASE j = i /\ q = p
    BY <1>8, <2>3
  <2>4. CASE j = i /\ q # p
    BY <2>2, <2>4 DEF After
  <2>5. CASE j # i
    <3>1. Progress(c, j, q, Pk(c, j)')
      BY <1>6, <1>8, <2>5
    <3> QED BY <1>2, <1>7, <2>1, <2>5, <3>1, ProgressStays
  <2> QED BY <2>3, <2>4, <2>5
<1>9. CASE EncryptDerived(c, i, p)
  <2>1. /\ Assigns(owner[c], i, Derived(Pk(c, i), c)) /\ Stage(c, i, p) = "kdf"
        /\ task' = Advance(c, i, p, "hash")
    BY <1>9 DEF EncryptDerived, Stage, Assigns, Pk
  <2>2. \A j \in Pos : Pk(c, j)' = IF j = i THEN Derived(Pk(c, i), c) ELSE Pk(c, j)
    BY <1>2, <1>3, <2>1, PacketAssigned DEF Pk
  <2>3. Moves(c, i, p, "hash") /\ Stage(c, i, p)' = "hash"
    BY <2>1, Advanced, Inclusions DEF Moves
  <2>4. isDummy(Pk(c, i)) \/ Salted(Pk(c, i), c)
    BY <1>6, <2>1 DEF Progress
  <2>5. isDummy(Derived(Pk(c, i), c)) \/ Seeded(Derived(Pk(c, i), c), c)
    BY <1>6, <2>4, PacketFields DEF isDummy, Salted, Seeded
  <2>6. After(c, i, p, Pk(c, i)')
    BY <2>2, <2>3, <2>5 DEF After
  <2> QED BY <1>8, <2>2, <2>3, <2>6
<1>10. CASE EncryptHashed(c, i, p)
  <2>1. Moves(c, i, p, "cipher") /\ task'[c][i][p].iv = Pk(c, i).iv /\ Stage(c, i, p)' = "cipher"
    BY <1>10, Hashed, Inclusions DEF Moves
  <2>2. Stage(c, i, p) = "hash" /\ \A j \in Pos : Pk(c, j)' = Pk(c, j)
    BY <1>10 DEF EncryptHashed, Stage, Pk
  <2>3. isDummy(Pk(c, i)) \/ Seeded(Pk(c, i), c)
    BY <1>6, <2>2 DEF Progress
  <2>4. After(c, i, p, Pk(c, i)')
    BY <2>1, <2>2, <2>3 DEF After, Seeded
  <2> QED BY <1>8, <2>1, <2>2, <2>4
<1>11. CASE EncryptCiphered(c, i, p)
  <2> DEFINE m == Enc(p, c, task[c][i][p].iv)
  <2>1. /\ Assigns(owner[c], i, Holding(Pk(c, i), m)) /\ Stage(c, i, p) = "cipher"
        /\ task' = Advance(c, i, p, "encrypted")
    BY <1>4, <1>11 DEF EncryptCiphered, Stage, Assigns, Pk
  <2>2. \A j \in Pos : Pk(c, j)' = IF j = i THEN Holding(Pk(c, i), m) ELSE Pk(c, j)
    BY <1>2, <1>3, <2>1, PacketAssigned DEF Pk
  <2>3. Moves(c, i, p, "encrypted") /\ Stage(c, i, p)' = "encrypted"
    BY <2>1, Advanced, Inclusions DEF Moves
  <2>4. isDummy(Pk(c, i)) \/ (Seeded(Pk(c, i), c) /\ m = Enc(p, c, c))
    BY <1>6, <2>1 DEF Progress
  <2> HIDE DEF m
  <2>5. isDummy(Holding(Pk(c, i), m)) \/ Sealed(Holding(Pk(c, i), m), c, p)
    BY <1>6, <2>4, PacketFields DEF isDummy, Salted, Seeded, Sealed
  <2>6. After(c, i, p, Pk(c, i)')
    BY <2>2, <2>3, <2>5 DEF After
  <2> QED BY <1>8, <2>2, <2>3, <2>6
<1> QED BY <1>1, <1>9, <1>10, <1>11

\* wrapKeyObject: it starts on packets that are decrypted, and when it returns
\* they are sealed.
LEMMA WrapProgress ==
  ASSUME TypeOK, FlagsMatch, CallsRight, PacketsRight, NEW c \in Calls, WrapStep(c), ~Begins(c)
  PROVE  EncryptProgress(c)' /\ LockHolds(c)' /\ ~(Op(c)' = "decryptKey")
<1>0. /\ EncryptProgress(c) /\ Storing(c) /\ LockHolds(c) /\ EncryptTasks(c) /\ WrapTasks(c) /\ PhaseRight(c)
  BY DEF PacketsRight, CallsRight
<1>1. /\ \/ WrapPrimary(c) \/ WrapSubkeys(c) \/ WrapSign(c) \/ WrapSigned(c) \/ WrapThrows(c) \/ WrapReturns(c)
      /\ UNCHANGED <<owner, call>> /\ Running(c) /\ status[c] # "packets"
  BY DEF WrapStep, Begins, WrapPrimary, WrapSubkeys, WrapEncrypts, WrapSign, WrapSigned, WrapThrows, WrapReturns, Running
<1>2. Op(c) \in Wrapping /\ Op(c) \in Encrypting /\ owner[c] \in Handles /\ owner[c] # Null /\ Writes(c)
  BY <1>0, <1>1, SlotsInUse, Inclusions DEF PhaseRight, Encrypting, Writes
<1>3. \A i \in Pos, p \in Pass : /\ ~Overlapped(owner[c]) => Progress(c, i, p, Pk(c, i))
                                 /\ Pk(c, i) \in Packet
  BY <1>0, <1>2 DEF EncryptProgress, Progress, Pk, TypeOK
<1>9. Overlapped(owner[c])' <=> Overlapped(owner[c])
  BY <1>1 DEF Overlapped
<1>4. ~(Op(c)' = "decryptKey")
  BY <1>1, <1>2 DEF Op, Wrapping
<1>5. ASSUME NEW S \in SUBSET Pos, NEW next \in {"primary", "subkeys"}, WrapEncrypts(c, S, next)
      PROVE  EncryptProgress(c)' /\ LockHolds(c)'
  <2> DEFINE pass == call[c].pass
             T == {i \in S : pass[i] # NoPass}
             key == packets[owner[c]]
  <2>1. /\ \A i \in Pos : Pk(c, i)' = IF i \in T THEN EncryptPrologue(key[i], pass[i], c) ELSE key[i]
        /\ \A i \in Pos, p \in Args : task'[c][i][p] =
             IF i \in T /\ p = pass[i] THEN EncryptTask(key[i], p, c, "encrypted") ELSE task[c][i][p]
        /\ status'[c] \notin {"returned", "packets"}
    BY <1>2, <1>5 DEF WrapEncrypts, Pk, TypeOK
  <2>2. LockHolds(c)'
    BY <2>1 DEF LockHolds
  <2> SUFFICES ASSUME ~Overlapped(owner[c]), NEW i \in Pos, NEW p \in Pass
               PROVE  After(c, i, p, Pk(c, i)')
    BY <1>1, <1>9, <2>2, ProgressAfter DEF Pk
  <2>3. CASE i \in T /\ p = pass[i]
    <3>1. Pk(c, i)' = EncryptPrologue(key[i], p, c) /\ task'[c][i][p] = EncryptTask(key[i], p, c, "encrypted")
      BY <2>1, <2>3, Inclusions
    <3>2. key[i] \in Packet /\ (isDecrypted(key[i]) => key[i].kind = "normal")
      BY <1>2 DEF TypeOK, PacketsRight, NormalWhenDecrypted
    <3> HIDE DEF key
    <3>3. CASE EncryptStarts(key[i], p)
      <4>1. Stage(c, i, p)' = "kdf"
        BY <3>1, <3>3 DEF EncryptTask, EncryptStarts, EncryptRefuses, At, Stage
      <4>2. Pk(c, i)' = [key[i] EXCEPT !.salt = c]
        BY <3>1, <3>3 DEF EncryptPrologue
      <4>3. Salted(Pk(c, i)', c)
        BY <3>2, <3>3, <4>2 DEF EncryptStarts, Salted, Packet
      <4> QED BY <4>1, <4>3 DEF After
    <3>4. CASE ~EncryptStarts(key[i], p)
      <4>1. isDummy(Pk(c, i)') \/ Stage(c, i, p)' = "failed"
        BY <3>1, <3>4 DEF EncryptTask, EncryptStarts, EncryptRefuses, EncryptPrologue, At, Stage
      <4> QED BY <4>1 DEF After
    <3> QED BY <3>3, <3>4
  <2>4. CASE i \in T /\ p # pass[i]
    <3>1. Stage(c, i, p)' = Stage(c, i, p)
      BY <2>1, <2>4, Inclusions DEF Stage
    <3>2. Stage(c, i, p) = "none"
      BY <1>0, <1>2, <2>4, Inclusions DEF EncryptTasks
    <3> QED BY <3>1, <3>2 DEF After
  <2>5. CASE i \notin T
    <3>1. task'[c][i][p] = task[c][i][p] /\ Pk(c, i)' = Pk(c, i)
      BY <2>1, <2>5, Inclusions DEF Pk
    <3>2. Progress(c, i, p, Pk(c, i)')
      BY <1>3, <3>1
    <3> QED BY <1>1, <2>1, <3>1, <3>2, ProgressStays
  <2> QED BY <2>3, <2>4, <2>5
<1>6. CASE WrapPrimary(c) \/ WrapSubkeys(c)
  BY <1>4, <1>5, <1>6, PrimaryAssumption DEF WrapPrimary, WrapSubkeys
<1>7. CASE WrapSign(c) \/ WrapSigned(c) \/ WrapThrows(c)
  <2>1. UNCHANGED <<packets, owner, call, task>> /\ status'[c] \notin {"returned", "packets"}
    BY <1>7 DEF WrapSign, WrapSigned, WrapThrows, TypeOK
  <2>2. LockHolds(c)'
    BY <2>1 DEF LockHolds
  <2>3. EncryptProgress(c)'
    <3> SUFFICES ASSUME ~Overlapped(owner[c]), NEW i \in Pos, NEW p \in Pass
                 PROVE  After(c, i, p, Pk(c, i)')
      BY <1>1, <1>9, ProgressAfter DEF Pk
    <3>1. task'[c][i][p] = task[c][i][p] /\ Progress(c, i, p, Pk(c, i)')
      BY <1>3, <2>1 DEF Pk
    <3> QED BY <1>1, <2>1, <3>1, ProgressStays
  <2> QED BY <1>4, <2>2, <2>3
<1>8. CASE WrapReturns(c)
  <2> DEFINE key == packets[owner[c]]
             pass == call[c].pass
             locks(i) == pass[i] # NoPass /\ ~isMissingSecretKeyMaterial(key[i])
             stuck(i) == locks(i) /\ key[i].privateParams = "null"
             new(i) == IF locks(i) /\ ~stuck(i) /\ ~stuck(Primary) THEN Cleared(key[i]) ELSE key[i]
  <2>1. /\ packets' = [packets EXCEPT ![owner[c]] = [i \in Pos |-> new(i)]]
        /\ status[c] = "signed" /\ task' = task
        /\ status'[c] = IF \E i \in Pos : stuck(i) THEN "threw" ELSE "returned"
    BY <1>8 DEF WrapReturns, TypeOK
  <2>2. \A i \in Pos : Pk(c, i)' = new(i)
    BY <1>1, <1>2, <2>1 DEF Pk, TypeOK
  <2>3. \A i \in Pos, p \in Args :
          Stage(c, i, p) = IF p # NoPass /\ p = pass[i] THEN "encrypted" ELSE "none"
    BY <1>0, <1>2, <2>1 DEF WrapTasks
  <2>4. EncryptProgress(c)'
    <3>1. ~Running(c)' /\ status'[c] # "packets"
      BY <2>1 DEF Running
    <3>2. \A i \in Pos, p \in Pass : Stage(c, i, p)' \notin AtWork
      BY <2>1, <2>3, Inclusions DEF Stage, AtWork
    <3> QED BY <3>1, <3>2 DEF EncryptProgress, AtWork
  <2>5. LockHolds(c)'
    <3> SUFFICES ASSUME status'[c] = "returned", NEW i \in Pos, pass[i] # NoPass, ~isDummy(new(i))
                 PROVE  /\ Locked(new(i)) /\ StoredFor(owner[c], i)'
                        /\ \/ Overlapped(owner[c])
                           \/ /\ Opens(new(i), pass[i])
                              /\ \A d \in Calls, p \in Pass :
                                   Op(d) \in Encrypting /\ owner[d] = owner[c] => Stage(d, i, p) \notin AtWork
      <4>1. task' = task /\ UNCHANGED <<owner, call>>
        BY <1>1, <2>1
      <4> QED BY <1>9, <2>2, <4>1 DEF LockHolds, Stage, Op, isDummy, Locked, Opens
    <3>1. pass[i] \in Pass
      BY Inclusions DEF TypeOK, CallRec
    <3>2. key[i] \in Packet /\ ~isDummy(key[i])
      BY <1>3, <3>1, ProgressCleared DEF Pk
    <3>3. Stage(c, i, pass[i]) = "encrypted"
      BY <2>3, <3>1, Inclusions
    <3>4. key[i].kind = "normal" /\ key[i].s2kUsage \in Protected /\ StoredFor(owner[c], i)
      BY <1>0, <1>2, <3>1, <3>2, <3>3 DEF Storing, Pk, AtWork
    <3>5. new(i) = Cleared(key[i])
      <4>1. locks(i)
        BY <3>4 DEF isMissingSecretKeyMaterial
      <4>2. ~stuck(i) /\ ~stuck(Primary)
        BY <2>1, PrimaryAssumption
      <4> QED BY <4>1, <4>2
    <3>6. Locked(new(i)) /\ new(i).keyMaterial = key[i].keyMaterial
      BY <3>2, <3>4, <3>5, PacketFields DEF Locked
    <3>7. StoredFor(owner[c], i)'
      <4>1. packets'[owner[c]][i].keyMaterial = packets[owner[c]][i].keyMaterial
        BY <1>1, <2>2, <3>6 DEF Pk
      <4> QED BY <1>1, <3>4, <4>1 DEF StoredFor
    <3>8. CASE ~Overlapped(owner[c])
      <4>1. Sealed(key[i], c, pass[i])
        BY <1>1, <1>3, <3>1, <3>2, <3>3, <3>8 DEF Progress, Pk
      <4>2. Opens(new(i), pass[i])
        BY <3>2, <3>5, <4>1, ProgressCleared DEF LockedWith
      <4>3. ASSUME NEW d \in Calls, NEW p \in Pass, Op(d) \in Encrypting, owner[d] = owner[c],
                   Stage(d, i, p) \in AtWork
            PROVE  FALSE
        <5>1. Writes(d)
          BY <4>3 DEF Writes, InFlight
        <5>2. d = c
          BY <1>2, <3>8, <4>3, <5>1 DEF CallsRight, OneWriter
        <5> QED BY <2>3, <4>3, <5>2, Inclusions DEF AtWork
      <4> QED BY <3>6, <3>7, <4>2, <4>3
    <3> QED BY <3>6, <3>7, <3>8
  <2> QED BY <1>4, <2>4, <2>5
<1> QED BY <1>1, <1>6, <1>7, <1>8

\* decryptKey: what matched is opened, and what is left over cannot match.
LEMMA DecryptKeyProgress ==
  ASSUME TypeOK, CallsRight, PacketsRight, NEW c \in Calls, DecryptKeyStep(c), ~Begins(c)
  PROVE  DecryptProgress(c)' /\ LeftOver(c)' /\ LockHolds(c)' /\ EncryptProgress(c)'
<1>0. /\ DecryptProgress(c) /\ LeftOver(c) /\ EncryptTasks(c) /\ OtherTasks(c) /\ PhaseRight(c) /\ Private(c)
  BY DEF PacketsRight, CallsRight
<1>1. /\ \/ DecryptKeyThrows(c) \/ DecryptKeyReturns(c)
         \/ \E i \in Pos, p \in Pass : DecryptDerived(c, i, p) \/ DecryptCiphered(c, i, p)
      /\ UNCHANGED <<owner, call>>
  BY TurnFrame DEF DecryptKeyStep, Begins
<1>2. Op(c) = "decryptKey"
  <2>1. \A i \in Pos, p \in Pass : Stage(c, i, p) \in {"matched", "wrong"} => Op(c) = "decryptKey"
    BY <1>0, Inclusions, ZenonT(40) DEF EncryptTasks, OtherTasks, Encrypting, Wrapping, TypeOK, CallRec, Op, AtWork
  <2> QED BY <1>1, <2>1 DEF DecryptKeyThrows, DecryptKeyReturns, DecryptDerived, DecryptCiphered, Op, Stage
<1>3. owner[c] = c /\ c \in Handles
  BY <1>0, <1>2, Inclusions DEF Private
<1>4. \A i \in Pos : Pk(c, i) \in Packet
  BY <1>3 DEF Pk, TypeOK
<1>5. LockHolds(c)' /\ EncryptProgress(c)'
  <2>1. \A i \in Pos : call'[c].pass[i] = NoPass
    BY <1>0, <1>1, <1>2 DEF PhaseRight, Encrypting, Wrapping
  <2>2. Op(c)' = "decryptKey"
    BY <1>1, <1>2 DEF Op
  <2> QED BY <2>1, <2>2 DEF LockHolds, EncryptProgress, Encrypting, Wrapping
<1>6. CASE DecryptKeyThrows(c)
  <2>1. /\ status[c] = "packets" /\ status'[c] = "threw" /\ task' = task
        /\ packets' = [packets EXCEPT ![owner[c]] = ClearedKey(packets[owner[c]])]
    BY <1>6 DEF DecryptKeyThrows, TypeOK
  <2>2. \A i \in Pos : Pk(c, i)' \in {Pk(c, i), Cleared(Pk(c, i))}
    BY <1>1, <1>3, <2>1 DEF TypeOK, Pk, ClearedKey
  <2>3. \A i \in Pos : /\ Pk(c, i)'.kind = Pk(c, i).kind /\ Pk(c, i)'.iv = Pk(c, i).iv
                       /\ Pk(c, i)'.keyMaterial = Pk(c, i).keyMaterial
    BY <1>4, <2>2, PacketFields
  <2>4. \A i \in Pos, p \in Pass : Stage(c, i, p)' = Stage(c, i, p) /\ task'[c][i][p] = task[c][i][p]
    BY <2>1 DEF Stage
  <2>5. DecryptProgress(c)'
    BY <1>0, <1>2, <2>1, <2>3, <2>4 DEF DecryptProgress, isDummy
  <2>6. LeftOver(c)'
    BY <2>1 DEF LeftOver
  <2> QED BY <1>5, <2>5, <2>6
<1>7. CASE DecryptKeyReturns(c)
  <2>1. /\ status[c] = "packets" /\ status'[c] = "returned" /\ UNCHANGED <<packets, owner, call, task>>
        /\ \A i \in Pos : \E p \in Pass : Stage(c, i, p) = "done"
    BY <1>7 DEF DecryptKeyReturns, Unlocked, TypeOK, Stage
  <2>2. DecryptProgress(c)'
    BY <2>1 DEF DecryptProgress
  <2>3. \A i \in Pos, p \in Pass : Stage(c, i, p) \in {"kdf", "matched"} => Pk(c, i).keyMaterial = NoMaterial
    BY <1>0, <1>2, <2>1 DEF DecryptProgress, isDummy
  <2>4. \A i \in Pos, p \in Pass : Stage(c, i, p) # "matched"
    BY <1>0, <1>2, <2>1, <2>3, MaterialForms DEF DecryptProgress
  <2>5. LeftOver(c)'
    BY <2>1, <2>3, <2>4, MaterialForms DEF LeftOver, Stage, Pk
  <2> QED BY <1>5, <2>2, <2>5
<1>8. ASSUME NEW i \in Pos, NEW p \in Pass, DecryptDerived(c, i, p)
      PROVE  DecryptProgress(c)' /\ LeftOver(c)'
  <2> DEFINE right == Pk(c, i).keyMaterial = Enc(p, task[c][i][p].salt, Pk(c, i).iv)
             stage == IF right THEN "matched" ELSE "wrong"
  <2>1. /\ task' = Advance(c, i, p, stage) /\ Stage(c, i, p) = "kdf"
        /\ UNCHANGED <<packets, owner, call, status>>
    BY <1>8 DEF DecryptDerived, Pk, Stage
  <2> HIDE DEF stage
  <2>2. \A j \in Pos, q \in Pass : /\ Stage(c, j, q)' = IF j = i /\ q = p THEN stage ELSE Stage(c, j, q)
                                   /\ task'[c][j][q].salt = task[c][j][q].salt
    BY <2>1, Advanced, Inclusions DEF Moves
  <2>3. \A j \in Pos : Pk(c, j)' = Pk(c, j)
    BY <2>1 DEF Pk
  <2>4. DecryptProgress(c)'
    <3> SUFFICES ASSUME status[c] # "returned", NEW j \in Pos, NEW q \in Pass
                 PROVE  /\ Stage(c, j, q)' \in {"kdf", "matched"} => Pk(c, j).kind = "normal"
                        /\ Stage(c, j, q)' = "matched" => Pk(c, j).keyMaterial = Enc(q, task[c][j][q].salt, Pk(c, j).iv)
                        /\ Stage(c, j, q)' = "done" => \/ isDummy(Pk(c, j))
                                                       \/ /\ Pk(c, j).keyMaterial = NoMaterial
                                                          /\ status[c] = "packets" => Pk(c, j).privateParams = "live"
      BY <2>1, <2>2, <2>3 DEF DecryptProgress, isDummy
    <3>1. CASE j = i /\ q = p
      BY <1>0, <1>2, <2>1, <2>2, <3>1 DEF DecryptProgress, stage
    <3>2. CASE ~(j = i /\ q = p)
      BY <1>0, <1>2, <2>2, <3>2 DEF DecryptProgress
    <3> QED BY <3>1, <3>2
  <2>5. LeftOver(c)'
    <3>1. status[c] = "returned" => ~right
      <4> SUFFICES ASSUME status[c] = "returned", right PROVE FALSE
        OBVIOUS
      <4>1. task[c][i][p].salt \in Handles /\ Pk(c, i).iv \in Handles
        BY <1>4, Inclusions DEF TypeOK, Task, Packet
      <4>2. owner[task[c][i][p].salt] = c
        BY <1>0, <1>2, <2>1, <4>1 DEF LeftOver
      <4> QED BY <1>0, <1>2, <2>1, <4>2, Inclusions DEF OtherTasks
    <3>2. status[c] = "returned" => stage = "wrong"
      BY <3>1 DEF stage
    <3> QED BY <1>0, <1>2, <2>1, <2>2, <2>3, <3>2 DEF LeftOver
  <2> QED BY <2>4, <2>5
<1>9. ASSUME NEW i \in Pos, NEW p \in Pass, DecryptCiphered(c, i, p)
      PROVE  DecryptProgress(c)' /\ LeftOver(c)'
  <2>1. UNCHANGED <<owner, call, status>>
    BY <1>9 DEF DecryptCiphered
  <2>2. CASE Stage(c, i, p) = "matched"
    <3>1. Assigns(owner[c], i, Decrypted(Pk(c, i))) /\ task' = Advance(c, i, p, "done")
      BY <1>9, <2>2 DEF DecryptCiphered, Stage, Assigns, Pk
    <3>2. \A j \in Pos : Pk(c, j)' = IF j = i THEN Decrypted(Pk(c, i)) ELSE Pk(c, j)
      BY <1>3, <2>1, <3>1, PacketAssigned DEF Pk
    <3>3. \A j \in Pos, q \in Pass : /\ Stage(c, j, q)' = IF j = i /\ q = p THEN "done" ELSE Stage(c, j, q)
                                     /\ task'[c][j][q].salt = task[c][j][q].salt
      BY <3>1, Advanced, Inclusions DEF Moves
    <3>4. status[c] # "returned"
      BY <1>0, <1>2, <2>2 DEF LeftOver
    <3>5. \A q \in Pass : Stage(c, i, q) = "matched" => q = p
      BY <1>0, <1>2, <2>2, <3>4, MaterialForms DEF DecryptProgress
    <3>6. DecryptProgress(c)'
      <4> SUFFICES ASSUME NEW j \in Pos, NEW q \in Pass
                   PROVE  /\ Stage(c, j, q)' \in {"kdf", "matched"} => Pk(c, j)'.kind = "normal"
                          /\ Stage(c, j, q)' = "matched" => Pk(c, j)'.keyMaterial = Enc(q, task[c][j][q].salt, Pk(c, j)'.iv)
                          /\ Stage(c, j, q)' = "done" => \/ isDummy(Pk(c, j)')
                                                         \/ /\ Pk(c, j)'.keyMaterial = NoMaterial
                                                            /\ status[c] = "packets" => Pk(c, j)'.privateParams = "live"
        BY <2>1, <3>3 DEF DecryptProgress, isDummy
      <4>1. CASE j = i
        <5>1. Pk(c, j)'.kind = "normal" /\ Pk(c, j)'.keyMaterial = NoMaterial /\ Pk(c, j)'.privateParams = "live"
          BY <1>0, <1>2, <1>4, <2>2, <3>2, <3>4, <4>1, PacketFields DEF DecryptProgress
        <5>2. Stage(c, j, q)' # "matched"
          BY <3>3, <3>5, <4>1
        <5> QED BY <5>1, <5>2
      <4>2. CASE j # i
        BY <1>0, <1>2, <3>2, <3>3, <3>4, <4>2 DEF DecryptProgress
      <4> QED BY <4>1, <4>2
    <3>7. LeftOver(c)'
      BY <2>1, <3>4 DEF LeftOver
    <3> QED BY <3>6, <3>7
  <2>3. CASE Stage(c, i, p) # "matched"
    <3>1. packets' = packets /\ task' = Advance(c, i, p, "failed")
      BY <1>9, <2>3 DEF DecryptCiphered, Stage
    <3>2. \A j \in Pos : Pk(c, j)' = Pk(c, j)
      BY <2>1, <3>1 DEF Pk
    <3>3. \A j \in Pos, q \in Pass : /\ Stage(c, j, q)' = IF j = i /\ q = p THEN "failed" ELSE Stage(c, j, q)
                                     /\ task'[c][j][q].salt = task[c][j][q].salt
      BY <3>1, Advanced, Inclusions DEF Moves
    <3>4. DecryptProgress(c)'
      BY <1>0, <1>2, <2>1, <3>2, <3>3 DEF DecryptProgress, isDummy
    <3>5. LeftOver(c)'
      BY <1>0, <1>2, <2>1, <3>2, <3>3 DEF LeftOver
    <3> QED BY <3>4, <3>5
  <2> QED BY <2>2, <2>3
<1> QED BY <1>1, <1>5, <1>6, <1>7, <1>8, <1>9

-----------------------------------------------------------------------------
(* The first step of a call *)

LEMMA BeginFrame ==
  ASSUME TypeOK, CallsRight, NEW c \in Calls, Begins(c)
  PROVE  /\ \A d \in Calls : d # c => status'[d] = status[d] /\ task'[d] = task[d] /\ call'[d] = call[d]
         /\ \A h \in Handles : h # c => owner'[h] = owner[h] /\ packets'[h] = packets[h]
         /\ status[c] = "unused" /\ owner[c] = Null /\ \A h \in Handles : owner[h] # c
<1>1. PhaseRight(c)
  BY DEF CallsRight
<1>2. CASE \E h \in Handles, pass \in PassArgs : EncryptKey(c, h, pass)
  BY <1>1, <1>2, Inclusions DEF EncryptKey, CloneDeep, TypeOK, PhaseRight
<1>3. CASE \E h \in Handles, pass \in PassArgs : ReformatKey(c, h, pass)
  BY <1>1, <1>3, Inclusions DEF ReformatKey, TypeOK, PhaseRight
<1>4. CASE \E h \in Handles, passes \in SUBSET Pass : DecryptKey(c, h, passes)
  BY <1>1, <1>4, Inclusions DEF DecryptKey, CloneDeep, TypeOK, PhaseRight
<1>5. CASE \E pass \in PassArgs : GenerateKey(c, pass)
  BY <1>1, <1>5, Inclusions DEF GenerateKey, TypeOK, PhaseRight
<1>6. CASE \E h \in Handles : RevokeKey(c, h)
  BY <1>1, <1>6, Inclusions DEF RevokeKey, TypeOK, PhaseRight
<1> QED BY <1>2, <1>3, <1>4, <1>5, <1>6 DEF Begins

\* What the calls on a slot have done stays done when another call begins.
LEMMA BeginKeeps ==
  ASSUME TypeOK, CallsRight, NEW c \in Calls, Begins(c), NEW s \in Handles, s # c
  PROVE  /\ Overlapped(s) => Overlapped(s)'
         /\ \A i \in Pos : StoredFor(s, i) => StoredFor(s, i)'
<1>1. /\ \A d \in Calls : d # c => call'[d] = call[d] /\ owner'[d] = owner[d]
      /\ packets'[s] = packets[s] /\ owner[c] # s
  BY BeginFrame, Inclusions
<1>2. \A d \in Calls : owner[d] = s => d # c /\ owner'[d] = s /\ call'[d] = call[d]
  BY <1>1
<1> QED BY <1>1, <1>2 DEF Overlapped, StoredFor

\* The other calls, when one begins.
LEMMA BeginOthers ==
  ASSUME TypeOK, CallsRight, PacketsRight, NEW c \in Calls, Begins(c), NEW d \in Calls, d # c,
         Op(c)' \in Encrypting => \/ owner'[c] = c
                                  \/ \A i \in Pos, p \in Pass : Stage(c, i, p)' = "none"
  PROVE  /\ SaltUnused(d)' /\ Storing(d)' /\ EncryptProgress(d)' /\ DecryptProgress(d)'
         /\ LeftOver(d)' /\ LockHolds(d)'
<1>0. /\ SaltUnused(d) /\ Storing(d) /\ EncryptProgress(d) /\ DecryptProgress(d) /\ LeftOver(d) /\ LockHolds(d)
      /\ Private(d)
  BY DEF PacketsRight, CallsRight
<1>1. /\ \A e \in Calls : e # c => status'[e] = status[e] /\ task'[e] = task[e] /\ call'[e] = call[e]
      /\ \A h \in Handles : h # c => owner'[h] = owner[h] /\ packets'[h] = packets[h]
      /\ owner[c] = Null /\ \A h \in Handles : owner[h] # c
  BY BeginFrame
<1>2. /\ status'[d] = status[d] /\ task'[d] = task[d] /\ call'[d] = call[d] /\ owner'[d] = owner[d]
      /\ owner[d] # c /\ d \in Handles
  BY <1>1, Inclusions
<1>3. owner[d] # Null => \A i \in Pos : Pk(d, i)' = Pk(d, i)
  BY <1>1, <1>2 DEF Pk, TypeOK
<1>8. owner[d] # Null => /\ Overlapped(owner[d]) => Overlapped(owner[d])'
                         /\ \A i \in Pos : StoredFor(owner[d], i) => StoredFor(owner[d], i)'
  <2>1. owner[d] # Null => owner[d] \in Handles
    BY <1>2 DEF TypeOK
  <2> QED BY <1>2, <2>1, BeginKeeps
<1>4. SaltUnused(d)' /\ Storing(d)' /\ EncryptProgress(d)'
  <2>1. SaltUnused(d)'
    BY <1>0, <1>2, <1>3 DEF SaltUnused, Op, Stage
  <2>2. Storing(d)'
    <3> SUFFICES ASSUME Op(d) \in Encrypting, owner[d] # Null, NEW i \in Pos, NEW p \in Pass
                 PROVE  StoringTask(d, i, p)'
      BY <1>2 DEF Storing, StoringTask, Op
    <3>1. StoringTask(d, i, p) /\ Pk(d, i)' = Pk(d, i) /\ Stage(d, i, p)' = Stage(d, i, p)
      BY <1>0, <1>2, <1>3 DEF Storing, StoringTask, Stage
    <3> QED BY <1>2, <1>8, <3>1 DEF StoringTask, isDummy
  <2>3. EncryptProgress(d)'
    <3> SUFFICES ASSUME Op(d) \in Encrypting, owner[d] # Null, ~Overlapped(owner[d]), NEW i \in Pos, NEW p \in Pass
                 PROVE  After(d, i, p, Pk(d, i)')
      <4>1. (\A i \in Pos, p \in Pass : After(d, i, p, Pk(d, i)')) => EncryptProgress(d)'
        BY ProgressAfter DEF Pk
      <4> QED BY <1>2, <1>8, <4>1 DEF EncryptProgress, Op
    <3>1. Progress(d, i, p, Pk(d, i)')
      BY <1>0, <1>3 DEF EncryptProgress, Progress
    <3>2. task'[d][i][p] = task[d][i][p] /\ (Running(d)' => Running(d)) /\ status'[d] = status[d]
      BY <1>2 DEF Running
    <3> QED BY <3>1, <3>2, ProgressStays
  <2> QED BY <2>1, <2>2, <2>3
<1>5. DecryptProgress(d)'
  <2>1. Op(d) = "decryptKey" => owner[d] # Null
    BY <1>0, <1>2, Inclusions DEF Private
  <2> QED BY <1>0, <1>2, <1>3, <2>1 DEF DecryptProgress, Op, Stage, isDummy
<1>6. LeftOver(d)'
  <2>1. Op(d) = "decryptKey" => owner[d] # Null
    BY <1>0, <1>2, Inclusions DEF Private
  <2>2. \A s \in Handles : owner[s] = d => owner'[s] = d
    BY <1>1, <1>2, Inclusions
  <2> QED BY <1>0, <1>2, <1>3, <2>1, <2>2 DEF LeftOver, Op, Stage
<1>7. LockHolds(d)'
  <2> SUFFICES ASSUME status[d] = "returned" PROVE LockHolds(d)'
    BY <1>2 DEF LockHolds
  <2>1. \A i \in Pos : Pk(d, i)' = Pk(d, i)
    BY <1>3 DEF TypeOK
  <2>2. ASSUME NEW e \in Calls, NEW i \in Pos, NEW p \in Pass, Op(e)' \in Encrypting, owner'[e] = owner[d],
               Stage(e, i, p)' \in AtWork
        PROVE  e # c /\ Op(e) \in Encrypting /\ owner[e] = owner[d] /\ Stage(e, i, p) \in AtWork
    <3>1. e # c
      BY <1>2, <2>2 DEF AtWork
    <3> QED BY <1>1, <2>2, <3>1, Inclusions DEF Op, Stage
  <2>3. owner[d] # Null
    BY Inclusions DEF TypeOK
  <2> SUFFICES ASSUME NEW i \in Pos, call[d].pass[i] # NoPass, ~isDummy(Pk(d, i))
               PROVE  /\ Locked(Pk(d, i)) /\ StoredFor(owner[d], i)'
                      /\ \/ Overlapped(owner[d])'
                         \/ /\ Opens(Pk(d, i), call[d].pass[i])
                            /\ \A e \in Calls, p \in Pass :
                                 Op(e)' \in Encrypting /\ owner'[e] = owner[d] => Stage(e, i, p)' \notin AtWork
    BY <1>2, <2>1 DEF LockHolds, isDummy, Locked, Opens
  <2> QED BY <1>0, <1>8, <2>2, <2>3 DEF LockHolds
<1> QED BY <1>4, <1>5, <1>6, <1>7

\* The salts in use, when a call begins with packets of these salts and materials.
LEMMA BeginSalts ==
  ASSUME TypeOK, TypeOK', CallsRight, PacketsRight, NEW c \in Calls, Begins(c),
         owner'[c] # Null => \A i \in Pos :
           /\ packets'[owner'[c]][i].salt = c \/ owner[packets'[owner'[c]][i].salt] # Null
           /\ \A q \in Pass, s \in Handles, v \in Handles :
                packets'[owner'[c]][i].keyMaterial = Enc(q, s, v) => owner[s] # Null
  PROVE  SaltsDrawn' /\ SaltUnused(c)'
<1>1. /\ \A h \in Handles : h # c => owner'[h] = owner[h] /\ packets'[h] = packets[h]
      /\ owner[c] = Null /\ \A h \in Handles : owner[h] # c
  BY BeginFrame
<1>2. \A s \in Handles : owner[s] # Null => owner'[s] # Null
  BY <1>1
<1>3. SaltsDrawn'
  <2> SUFFICES ASSUME NEW h \in Handles, NEW i \in Pos, owner'[h] # Null
               PROVE  /\ owner'[packets'[owner'[h]][i].salt] # Null
                      /\ \A q \in Pass, s \in Handles, v \in Handles :
                           packets'[owner'[h]][i].keyMaterial = Enc(q, s, v) => owner'[s] # Null
    BY DEF SaltsDrawn
  <2>0. owner'[h] \in Handles /\ packets'[owner'[h]][i].salt \in Handles
    BY DEF TypeOK, Packet
  <2>1. CASE h = c
    BY <1>2, <2>0, <2>1
  <2>2. CASE h # c
    <3>1. owner'[h] = owner[h] /\ packets'[owner'[h]] = packets[owner[h]]
      BY <1>1, <2>0, <2>2
    <3>2. /\ owner[packets[owner[h]][i].salt] # Null
          /\ \A q \in Pass, s \in Handles, v \in Handles :
               packets[owner[h]][i].keyMaterial = Enc(q, s, v) => owner[s] # Null
      BY <3>1 DEF PacketsRight, SaltsDrawn
    <3> QED BY <1>2, <2>0, <3>1, <3>2
  <2> QED BY <2>1, <2>2
<1>4. SaltUnused(c)'
  BY <1>1, Inclusions DEF SaltUnused, Pk
<1> QED BY <1>3, <1>4

\* What holds of the packets of a held key, and of a copy of them.
LEMMA HeldSalts ==
  ASSUME TypeOK, PacketsRight, NEW h \in Handles, Held(h)
  PROVE  /\ packets[owner[h]] \in [Pos -> Packet]
         /\ \A i \in Pos : LET pk == packets[owner[h]][i]
              IN  /\ pk \in Packet /\ owner[pk.salt] # Null /\ (isDecrypted(pk) => pk.kind = "normal")
                  /\ \A q \in Pass, s \in Handles, v \in Handles : pk.keyMaterial = Enc(q, s, v) => owner[s] # Null
<1>1. owner[h] \in Handles /\ owner[h] # Null /\ packets[owner[h]] \in [Pos -> Packet]
  BY SlotTypes, Inclusions
<1> QED BY <1>1 DEF PacketsRight, SaltsDrawn, NormalWhenDecrypted

LEMMA EncryptKeyBegins ==
  ASSUME TypeOK, TypeOK', CallsRight, PacketsRight, NEW c \in Calls,
         NEW h \in Handles, NEW pass \in PassArgs, EncryptKey(c, h, pass)
  PROVE  PacketsRight'
<1> DEFINE key == packets[owner[h]]
<1>0. Begins(c)
  BY DEF Begins
<1>1. /\ owner'[c] = c /\ Op(c)' = "encryptKey" /\ status'[c] = "packets"
      /\ \A i \in Pos : packets'[c][i] = EncryptPrologue(key[i], pass[i], c)
      /\ \A i \in Pos, p \in Args : task'[c][i][p] =
           IF p = pass[i] THEN EncryptTask(key[i], p, c, "done") ELSE Idle
  BY Inclusions DEF EncryptKey, Asked, CloneDeep, TypeOK, Op
<1>2. \A i \in Pos : /\ key[i] \in Packet /\ owner[key[i].salt] # Null
                     /\ isDecrypted(key[i]) => key[i].kind = "normal"
                     /\ \A q \in Pass, s \in Handles, v \in Handles :
                          key[i].keyMaterial = Enc(q, s, v) => owner[s] # Null
  BY HeldSalts DEF EncryptKey
<1> HIDE DEF key
<1>3. \A i \in Pos : /\ packets'[c][i].kind = key[i].kind /\ packets'[c][i].isEncrypted = key[i].isEncrypted
                     /\ packets'[c][i].keyMaterial = key[i].keyMaterial
                     /\ packets'[c][i].salt \in {c, key[i].salt}
                     /\ EncryptStarts(key[i], pass[i]) => packets'[c][i].salt = c
  BY <1>1, <1>2, ZenonT(40) DEF EncryptPrologue, Packet
<1>4. NormalWhenDecrypted'
  BY <1>0, <1>2, <1>3, BeginFrame, Inclusions DEF PacketsRight, NormalWhenDecrypted, isDecrypted
<1>5. SaltsDrawn' /\ SaltUnused(c)'
  BY <1>0, <1>1, <1>2, <1>3, BeginSalts
<1>6. EncryptProgress(c)' /\ Storing(c)'
  <2> SUFFICES ASSUME NEW i \in Pos, NEW p \in Pass
               PROVE  \/ isDummy(packets'[c][i])
                      \/ /\ Stage(c, i, p)' \in {"none", "kdf", "failed"}
                         /\ Stage(c, i, p)' = "kdf" => Salted(packets'[c][i], c)
    <3>1. (\A i \in Pos, p \in Pass : After(c, i, p, packets'[c][i])) => EncryptProgress(c)'
      BY <1>1, ProgressAfter
    <3>2. (\A i \in Pos, p \in Pass : StoringTask(c, i, p)') => Storing(c)'
      BY DEF Storing, StoringTask
    <3> QED BY <1>1, <3>1, <3>2 DEF After, StoringTask, Pk, isDummy, Salted, AtWork
  <2>1. CASE p = pass[i]
    <3>1. task'[c][i][p] = EncryptTask(key[i], p, c, "done")
      BY <1>1, <2>1, Inclusions
    <3>2. CASE isDummy(key[i])
      BY <1>3, <3>2 DEF isDummy
    <3>3. CASE ~isDummy(key[i]) /\ EncryptStarts(key[i], p)
      <4>1. Stage(c, i, p)' = "kdf"
        BY <3>1, <3>3 DEF EncryptTask, EncryptStarts, EncryptRefuses, At, Stage
      <4>2. Salted(packets'[c][i], c)
        BY <1>2, <1>3, <2>1, <3>3 DEF EncryptStarts, Salted
      <4> QED BY <4>1, <4>2
    <3>4. CASE ~isDummy(key[i]) /\ ~EncryptStarts(key[i], p)
      BY <3>1, <3>4 DEF EncryptTask, EncryptStarts, EncryptRefuses, At, Stage
    <3> QED BY <3>2, <3>3, <3>4
  <2>2. CASE p # pass[i]
    <3>1. task'[c][i][p] = Idle
      BY <1>1, <2>2, Inclusions
    <3> QED BY <3>1 DEF Idle, At, Stage
  <2> QED BY <2>1, <2>2
<1>7. DecryptProgress(c)' /\ LeftOver(c)' /\ LockHolds(c)'
  BY <1>1 DEF DecryptProgress, LeftOver, LockHolds
<1> QED BY <1>0, <1>1, <1>4, <1>5, <1>6, <1>7, BeginOthers DEF PacketsRight

LEMMA DecryptKeyBegins ==
  ASSUME TypeOK, TypeOK', CallsRight, PacketsRight, NEW c \in Calls,
         NEW h \in Handles, NEW passes \in SUBSET Pass, DecryptKey(c, h, passes)
  PROVE  PacketsRight'
<1> DEFINE key == packets[owner[h]]
<1>0. Begins(c)
  BY DEF Begins
<1>1. /\ owner'[c] = c /\ Op(c)' = "decryptKey" /\ status'[c] = "packets" /\ packets'[c] = key
      /\ \A i \in Pos, p \in Args : task'[c][i][p] =
                       IF p \notin passes THEN Idle
                       ELSE IF isDummy(key[i]) THEN At("done", Original)
                       ELSE IF DecryptRefuses(key[i]) THEN At("failed", Original)
                       ELSE At("kdf", key[i].salt)
  BY Inclusions DEF DecryptKey, Asked, CloneDeep, TypeOK, Op
<1>2. \A i \in Pos : /\ key[i] \in Packet /\ owner[key[i].salt] # Null
                     /\ isDecrypted(key[i]) => key[i].kind = "normal"
                     /\ \A q \in Pass, s \in Handles, v \in Handles :
                          key[i].keyMaterial = Enc(q, s, v) => owner[s] # Null
  BY HeldSalts DEF DecryptKey
<1> HIDE DEF key
<1>4. NormalWhenDecrypted'
  BY <1>0, <1>1, <1>2, BeginFrame, Inclusions DEF PacketsRight, NormalWhenDecrypted, isDecrypted
<1>5. SaltsDrawn' /\ SaltUnused(c)'
  BY <1>0, <1>1, <1>2, BeginSalts
<1>6. DecryptProgress(c)'
  <2> SUFFICES ASSUME NEW i \in Pos, NEW p \in Pass
               PROVE  /\ Stage(c, i, p)' \in {"none", "kdf", "done", "failed"}
                      /\ Stage(c, i, p)' = "kdf" => key[i].kind = "normal"
                      /\ Stage(c, i, p)' = "done" => isDummy(key[i])
    BY <1>1 DEF DecryptProgress, Pk, isDummy
  <2>1. CASE p \notin passes
    <3>1. task'[c][i][p] = Idle
      BY <1>1, <2>1, Inclusions
    <3> QED BY <3>1 DEF Idle, At, Stage
  <2>2. CASE p \in passes /\ isDummy(key[i])
    <3>1. task'[c][i][p] = At("done", Original)
      BY <1>1, <2>2, Inclusions
    <3> QED BY <2>2, <3>1 DEF At, Stage
  <2>3. CASE p \in passes /\ ~isDummy(key[i]) /\ DecryptRefuses(key[i])
    <3>1. task'[c][i][p] = At("failed", Original)
      BY <1>1, <2>3, Inclusions
    <3> QED BY <3>1 DEF At, Stage
  <2>4. CASE p \in passes /\ ~isDummy(key[i]) /\ ~DecryptRefuses(key[i])
    <3>1. task'[c][i][p] = At("kdf", key[i].salt)
      BY <1>1, <2>4, Inclusions
    <3>2. key[i].kind = "normal"
      BY <1>2, <2>4 DEF DecryptRefuses, isDummy, Packet
    <3> QED BY <3>1, <3>2 DEF At, Stage
  <2> QED BY <2>1, <2>2, <2>3, <2>4
<1>7. EncryptProgress(c)' /\ Storing(c)' /\ LeftOver(c)' /\ LockHolds(c)'
  BY <1>1 DEF EncryptProgress, Storing, LeftOver, LockHolds, Encrypting, Wrapping
<1> QED BY <1>0, <1>1, <1>4, <1>5, <1>6, <1>7, BeginOthers DEF PacketsRight, Encrypting, Wrapping

\* generateKey, reformatKey and revokeKey have no task at first.
LEMMA OthersBegin ==
  ASSUME TypeOK, TypeOK', CallsRight, CallsRight', PacketsRight, NEW c \in Calls,
         \/ \E pass \in PassArgs : GenerateKey(c, pass)
         \/ \E h \in Handles, pass \in PassArgs : ReformatKey(c, h, pass)
         \/ \E h \in Handles : RevokeKey(c, h)
  PROVE  PacketsRight'
<1>0. Begins(c)
  BY DEF Begins
<1>1. task' = task /\ \A i \in Pos, p \in Args : Stage(c, i, p)' = "none"
  <2>1. task' = task /\ status[c] = "unused"
    BY DEF GenerateKey, ReformatKey, RevokeKey
  <2>2. \A i \in Pos, p \in Args : Stage(c, i, p) = "none"
    BY <2>1 DEF CallsRight, PhaseRight, OtherTasks
  <2> QED BY <2>1, <2>2 DEF Stage
<1>2. \A i \in Pos : LET pk == packets'[owner'[c]][i]
        IN  owner'[c] # Null =>
              /\ pk.salt = c \/ owner[pk.salt] # Null
              /\ \A q \in Pass, s \in Handles, v \in Handles : pk.keyMaterial = Enc(q, s, v) => owner[s] # Null
  <2>1. ASSUME NEW pass \in PassArgs, GenerateKey(c, pass), NEW i \in Pos
        PROVE  packets'[owner'[c]][i].salt = c /\ packets'[owner'[c]][i].keyMaterial = NoMaterial
    <3>1. owner'[c] = c /\ packets'[c][i] = Generated(c)
      BY <2>1, Inclusions DEF GenerateKey, TypeOK
    <3> QED BY <3>1 DEF Generated
  <2>2. ASSUME NEW h \in Handles, NEW pass \in PassArgs, ReformatKey(c, h, pass) \/ RevokeKey(c, h)
        PROVE  Held(h) /\ packets' = packets /\ (owner'[c] = owner[h] \/ owner'[c] = Null)
    <3>1. owner[c] = Null
      BY <1>0, BeginFrame
    <3>2. CASE ReformatKey(c, h, pass)
      BY <3>1, <3>2, Inclusions DEF ReformatKey, TypeOK
    <3>3. CASE RevokeKey(c, h)
      BY <3>3, Inclusions DEF RevokeKey, TypeOK
    <3> QED BY <2>2, <3>2, <3>3
  <2>3. CASE \E pass \in PassArgs : GenerateKey(c, pass)
    BY <2>1, <2>3, MaterialForms
  <2>4. CASE ~\E pass \in PassArgs : GenerateKey(c, pass)
    <3>1. [i \in Pos |-> NoPass] \in PassArgs
      BY Inclusions DEF PassArgs
    <3>2. PICK h \in Handles : Held(h) /\ packets' = packets /\ (owner'[c] = owner[h] \/ owner'[c] = Null)
      BY <2>2, <2>4, <3>1
    <3> QED BY <3>2, HeldSalts
  <2> QED BY <2>3, <2>4
<1>3. SaltsDrawn' /\ SaltUnused(c)'
  BY <1>0, <1>2, BeginSalts
<1>4. NormalWhenDecrypted'
  <2>1. ASSUME NEW i \in Pos, isDecrypted(packets'[c][i]) PROVE packets'[c][i].kind = "normal"
    <3>1. packets' = packets \/ packets'[c][i] = Generated(c)
      <4>1. ASSUME NEW pass \in PassArgs, GenerateKey(c, pass) PROVE packets'[c][i] = Generated(c)
        BY <4>1, Inclusions DEF GenerateKey, TypeOK
      <4> QED BY <4>1 DEF ReformatKey, RevokeKey
    <3> QED BY <2>1, <3>1, Inclusions DEF PacketsRight, NormalWhenDecrypted, Generated
  <2> QED BY <1>0, <2>1, BeginFrame DEF PacketsRight, NormalWhenDecrypted, isDecrypted
<1>5. EncryptProgress(c)' /\ Storing(c)' /\ DecryptProgress(c)'
  BY <1>1, Inclusions DEF EncryptProgress, Storing, DecryptProgress, AtWork
<1>6. LeftOver(c)'
  BY <1>1, Inclusions DEF LeftOver
<1>7. LockHolds(c)'
  <2>1. status'[c] = "returned" => Op(c)' = "revokeKey"
    <3>1. CASE \E pass \in PassArgs : GenerateKey(c, pass)
      BY <3>1 DEF GenerateKey, TypeOK
    <3>2. CASE \E h \in Handles, pass \in PassArgs : ReformatKey(c, h, pass)
      BY <3>2 DEF ReformatKey, TypeOK
    <3>3. CASE \E h \in Handles : RevokeKey(c, h)
      BY <3>3 DEF RevokeKey, TypeOK, Nothing, Asked, Op
    <3> QED BY <3>1, <3>2, <3>3
  <2>2. status'[c] = "returned" => \A i \in Pos : call'[c].pass[i] = NoPass
    BY <2>1 DEF CallsRight, PhaseRight, Encrypting, Wrapping
  <2> QED BY <2>2 DEF LockHolds
<1> QED BY <1>0, <1>1, <1>3, <1>4, <1>5, <1>6, <1>7, BeginOthers, Inclusions DEF PacketsRight

-----------------------------------------------------------------------------
(* The invariant *)

\* The packets of all calls, after a later step of one of them.
LEMMA TurnPackets ==
  ASSUME TypeOK, FlagsMatch, CallsRight, PacketsRight, NEW c \in Calls, ~Begins(c),
         EncryptKeyStep(c) \/ DecryptKeyStep(c) \/ PacketStep(c) \/ WrapStep(c)
  PROVE  PacketsRight'
<1>1. \A s \in Handles, i \in Pos : Effect({c}, s, i) /\ (s # owner[c] => packets'[s] = packets[s])
  BY TurnEffect
<1>2. /\ UNCHANGED <<owner, call>>
      /\ \A d \in Calls : d # c => status'[d] = status[d] /\ task'[d] = task[d]
  BY TurnFrame
<1>3. \A d \in Calls : Forward(d)
  BY TurnForward
<1>4. {c} \in SUBSET Calls /\ c \in Handles
  BY Inclusions
<1>5. NormalWhenDecrypted' /\ SaltsDrawn' /\ \A d \in Calls : SaltUnused(d)'
  BY <1>1, <1>2, <1>3, <1>4, SaltsKept
<1>6. ASSUME NEW d \in Calls, d # c
      PROVE  EncryptProgress(d)' /\ Storing(d)' /\ DecryptProgress(d)' /\ LeftOver(d)' /\ LockHolds(d)'
  <2>1. (\A h \in Handles : h \in {c} \/ Held(h) => owner[h] # owner[d]) =>
          (owner[d] \in Handles => packets'[owner[d]] = packets[owner[d]])
    <3> SUFFICES ASSUME \A h \in Handles : h \in {c} \/ Held(h) => owner[h] # owner[d], owner[d] \in Handles
                 PROVE  packets'[owner[d]] = packets[owner[d]]
      OBVIOUS
    <3>1. owner[d] # owner[c]
      BY <1>4
    <3> QED BY <1>1, <3>1, PrimaryAssumption
  <2>2. CASE owner[d] \in Handles
    BY <1>1, <1>2, <1>3, <1>4, <1>6, <2>1, <2>2, OthersKept
  <2>3. CASE owner[d] \notin Handles
    <3>1. owner[d] = Null /\ d \in Handles
      BY <2>3, Inclusions DEF TypeOK
    <3>2. /\ UNCHANGED <<owner, call>> /\ status'[d] = status[d] /\ task'[d] = task[d]
          /\ status[d] # "returned"
      BY <1>2, <1>6, <3>1 DEF TypeOK
    <3>3. Op(d) # "decryptKey"
      BY <3>1, Inclusions DEF CallsRight, Private
    <3> QED BY <3>1, <3>2, <3>3 DEF EncryptProgress, Storing, DecryptProgress, LeftOver, LockHolds, Op
  <2> QED BY <2>2, <2>3
<1>7. EncryptProgress(c)' /\ Storing(c)' /\ DecryptProgress(c)' /\ LeftOver(c)' /\ LockHolds(c)'
  <2>3. Storing(c)'
    BY StoringKept
  <2>1. CASE EncryptKeyStep(c) \/ PacketStep(c) \/ WrapStep(c)
    <3>1. EncryptProgress(c)' /\ LockHolds(c)' /\ ~(Op(c)' = "decryptKey")
      BY <2>1, EncryptKeyProgress, PacketStepProgress, WrapProgress
    <3> QED BY <2>3, <3>1 DEF DecryptProgress, LeftOver
  <2>2. CASE DecryptKeyStep(c)
    BY <2>2, <2>3, DecryptKeyProgress
  <2> QED BY <2>1, <2>2
<1> QED BY <1>5, <1>6, <1>7 DEF PacketsRight

\* ... and after what the application does to a key it holds.
LEMMA UserPackets ==
  ASSUME TypeOK, FlagsMatch, CallsRight, PacketsRight, UserStep, ~\E c \in Calls : Begins(c)
  PROVE  PacketsRight'
<1>1. /\ \A s \in Handles, i \in Pos : Effect({}, s, i)
      /\ \A s \in Handles : (\A h \in Handles : Held(h) => owner[h] # s) => packets'[s] = packets[s]
      /\ UNCHANGED <<owner, call, status, task>>
  BY UserEffect
<1>2. \A d \in Calls : Forward(d)
  BY <1>1 DEF Forward, Stage
<1>3. {} \in SUBSET Calls
  OBVIOUS
<1>4. NormalWhenDecrypted' /\ SaltsDrawn' /\ \A d \in Calls : SaltUnused(d)'
  BY <1>1, <1>2, <1>3, SaltsKept
<1>5. ASSUME NEW d \in Calls
      PROVE  EncryptProgress(d)' /\ Storing(d)' /\ DecryptProgress(d)' /\ LeftOver(d)' /\ LockHolds(d)'
  <2>1. CASE owner[d] \in Handles
    BY <1>1, <1>2, <1>3, <2>1, OthersKept
  <2>2. CASE owner[d] \notin Handles
    <3>1. owner[d] = Null /\ d \in Handles
      BY <2>2, Inclusions DEF TypeOK
    <3>2. UNCHANGED <<owner, call, status, task>> /\ status[d] # "returned"
      BY <1>1, <3>1 DEF TypeOK
    <3>3. Op(d) # "decryptKey"
      BY <3>1, Inclusions DEF CallsRight, Private
    <3> QED BY <3>1, <3>2, <3>3 DEF EncryptProgress, Storing, DecryptProgress, LeftOver, LockHolds, Op
  <2> QED BY <2>1, <2>2
<1> QED BY <1>4, <1>5 DEF PacketsRight

\* The step of IInv, part by part.
LEMMA PacketsKept ==
  ASSUME IInv, TypeOK', CallsRight', [Next]_vars
  PROVE  PacketsRight'
<1> USE DEF IInv
<1>1. ASSUME NEW c \in Calls, Begins(c) PROVE PacketsRight'
  <2>1. CASE \E h \in Handles, pass \in PassArgs : EncryptKey(c, h, pass)
    BY <2>1, EncryptKeyBegins
  <2>2. CASE \E h \in Handles, passes \in SUBSET Pass : DecryptKey(c, h, passes)
    BY <2>2, DecryptKeyBegins
  <2>3. CASE \/ \E pass \in PassArgs : GenerateKey(c, pass)
             \/ \E h \in Handles, pass \in PassArgs : ReformatKey(c, h, pass)
             \/ \E h \in Handles : RevokeKey(c, h)
    BY <2>3, OthersBegin
  <2> QED BY <1>1, <2>1, <2>2, <2>3 DEF Begins
<1>2. CASE ~\E c \in Calls : Begins(c)
  <2>1. ASSUME NEW c \in Calls, EncryptKeyStep(c) \/ DecryptKeyStep(c) \/ PacketStep(c) \/ WrapStep(c)
        PROVE  PacketsRight'
    BY <1>2, <2>1, TurnPackets
  <2>2. CASE UserStep
    BY <1>2, <2>2, UserPackets
  <2>3. CASE UNCHANGED vars
    <3>1. UNCHANGED <<packets, owner, call, status, task>>
      BY <2>3 DEF vars
    <3>2. \A s, i : (StoredFor(s, i)' <=> StoredFor(s, i)) /\ (Overlapped(s)' <=> Overlapped(s))
      BY <3>1 DEF StoredFor, Overlapped
    <3>3. NormalWhenDecrypted' /\ SaltsDrawn' /\ \A c \in Calls : SaltUnused(c)' /\ DecryptProgress(c)' /\ LeftOver(c)'
      BY <3>1 DEF PacketsRight, NormalWhenDecrypted, SaltsDrawn, SaltUnused, DecryptProgress, LeftOver,
                  Op, Stage, Pk, isDecrypted, isDummy
    <3>4. \A c \in Calls : Storing(c)' /\ EncryptProgress(c)' /\ LockHolds(c)'
      BY <3>1, <3>2 DEF PacketsRight, Storing, EncryptProgress, LockHolds, Op, Stage, Pk, Running,
                        isDummy, Salted, Seeded, Sealed, LockedWith, Locked, Opens
    <3> QED BY <3>3, <3>4 DEF PacketsRight
  <2> QED BY <2>1, <2>2, <2>3 DEF Next
<1> QED BY <1>1, <1>2

\* The initial states satisfy it.
LEMMA InitInvariant == Init => CallsRight /\ PacketsRight
<1> SUFFICES ASSUME Init PROVE CallsRight /\ PacketsRight
  OBVIOUS
<1>0. TypeOK
  BY InitType
<1>1. /\ \A c \in Calls : status[c] = "unused" /\ owner[c] = Null /\ call[c] = NoCall /\ task[c] = NoTasks
      /\ owner[Original] = Original
      /\ \A h \in Handles : owner[h] \in {Original, Null} /\ (h # Original => owner[h] = Null)
  BY Inclusions DEF Init
<1>2. \A c \in Calls : Op(c) = "none" /\ ~call[c].overlaps /\ \A i \in Pos : call[c].pass[i] = NoPass
  BY <1>1 DEF NoCall, Nothing, Asked, Op
<1>3. \A c \in Calls, i \in Pos, p \in Args : Stage(c, i, p) = "none"
  BY <1>1 DEF NoTasks, Idle, At, Stage
<1>4. CallsRight
  <2>1. ASSUME NEW c \in Calls
        PROVE  PhaseRight(c) /\ EncryptTasks(c) /\ WrapTasks(c) /\ OtherTasks(c) /\ Private(c) /\ ~Writes(c)
    <3>1. \A h \in Handles : owner[h] # c
      BY <1>1, Inclusions
    <3> QED BY <1>1, <1>2, <1>3, <3>1
            DEF PhaseRight, EncryptTasks, WrapTasks, OtherTasks, Private, Writes, Running, Encrypting, Wrapping
  <2> QED BY <2>1 DEF CallsRight, OneWriter
<1>5. PICK key \in [Pos -> ReadPackets] :
        packets = [h \in Handles |-> IF h = Original THEN key ELSE [i \in Pos |-> Generated(h)]]
  BY DEF Init
<1>6. \A pk \in ReadPackets : /\ isDecrypted(pk) => pk.kind = "normal"
                              /\ pk.salt = Original
                              /\ \A q \in Pass, s \in Handles, v \in Handles : pk.keyMaterial = Enc(q, s, v) => s = Original
  <2> SUFFICES ASSUME NEW pk \in ReadPackets
               PROVE  /\ isDecrypted(pk) => pk.kind = "normal"
                      /\ pk.salt = Original
                      /\ \A q \in Pass, s \in Handles, v \in Handles : pk.keyMaterial = Enc(q, s, v) => s = Original
    OBVIOUS
  <2>1. CASE pk \in {ReadAs("normal", "true", usage, Enc(p, Original, Original), "null") :
                      usage \in {"sha1", "aead", "weak"}, p \in Pass}
    <3>1. PICK p \in Pass : pk.keyMaterial = Enc(p, Original, Original)
      BY <2>1 DEF ReadAs
    <3>2. pk.salt = Original /\ ~isDecrypted(pk)
      BY <2>1 DEF ReadAs, isDecrypted
    <3> QED BY <3>1, <3>2, MaterialForms
  <2>2. CASE pk \in {ReadAs("normal", "false", "none", Clear, "live"),
                     ReadAs("unparseable", "true", "sha1", NoMaterial, "null"),
                     ReadAs("dummy", "null", "sha1", NoMaterial, "null")}
    <3>1. /\ pk.keyMaterial \in {Clear, NoMaterial} /\ pk.salt = Original
          /\ isDecrypted(pk) => pk.kind = "normal"
      BY <2>2 DEF ReadAs, isDecrypted
    <3> QED BY <3>1, MaterialForms
  <2> QED BY <2>1, <2>2 DEF ReadPackets
<1>7. NormalWhenDecrypted
  <2>1. \A h \in Handles : Generated(h).kind = "normal"
    BY DEF Generated
  <2> QED BY <1>5, <1>6, <2>1 DEF NormalWhenDecrypted
<1>8. SaltsDrawn
  <2>1. \A h \in Handles : owner[h] # Null => owner[h] = Original
    BY <1>1
  <2>2. \A i \in Pos : packets[Original][i] \in ReadPackets
    BY <1>5, Inclusions
  <2> QED BY <1>1, <1>6, <2>1, <2>2, Inclusions DEF SaltsDrawn
<1>9. \A c \in Calls : /\ SaltUnused(c) /\ Storing(c) /\ EncryptProgress(c) /\ DecryptProgress(c)
                      /\ LeftOver(c) /\ LockHolds(c)
  BY <1>1, <1>2 DEF SaltUnused, Storing, EncryptProgress, DecryptProgress, LeftOver, LockHolds, Encrypting, Wrapping
<1> QED BY <1>4, <1>7, <1>8, <1>9 DEF PacketsRight

\* The calls, their tasks and the packets they work on stay in order at every
\* turn, however many calls run and however their turns interleave.
THEOREM InvariantHolds == Spec => []IInv
<1>1. Init => IInv
  BY InitType, InitFlags, InitInvariant DEF IInv
<1>2. IInv /\ [Next]_vars => IInv'
  <2> SUFFICES ASSUME IInv, [Next]_vars PROVE IInv'
    OBVIOUS
  <2>1. TypeOK' /\ FlagsMatch'
    BY TypeStep, FlagStep DEF IInv
  <2>2. CallsRight'
    BY CallsKept DEF IInv, PacketsRight
  <2>3. PacketsRight'
    BY <2>1, <2>2, PacketsKept
  <2> QED BY <2>1, <2>2, <2>3 DEF IInv
<1> QED BY <1>1, <1>2, PTL DEF Spec

\* Whatever is done to a key that a call has locked, short of making a packet
\* a dummy, every packet given a passphrase stays locked under a passphrase that
\* was given for it; and unless reformatKey calls overlapped on the key, the
\* one the call was given opens it.
THEOREM LockedKeysOpen == Spec => []LockedKeyOpens
<1>1. IInv => LockedKeyOpens
  BY DEF IInv, PacketsRight, LockHolds, Locked, LockedKeyOpens, Pk, Protected
<1> QED BY <1>1, InvariantHolds, PTL

-----------------------------------------------------------------------------
(* The keys that the application holds *)

\* encryptKey and decryptKey, after their first step, on a slot that is in use.
LEMMA HeldUntouched ==
  ASSUME IInv, NEW c \in Calls, EncryptKeyStep(c) \/ DecryptKeyStep(c), NEW h \in Handles, Held(h)
  PROVE  packets'[owner[h]] = packets[owner[h]]
<1> USE DEF IInv
<1>1. owner[h] \in Handles
  BY SlotTypes
<1>2. CASE Begins(c)
  BY <1>1, <1>2, BeginFrame
<1>3. CASE ~Begins(c) /\ owner[h] # owner[c]
  BY <1>1, <1>3, TurnEffect, PrimaryAssumption
<1>4. CASE ~Begins(c) /\ owner[h] = owner[c]
  <2>1. /\ EncryptTasks(c) /\ Private(c) /\ LeftOver(c)
        /\ c \notin {Original} /\ c \in Handles
    BY Inclusions DEF CallsRight, PacketsRight
  <2>2. Op(c) \in {"encryptKey", "decryptKey"} => status[c] = "returned"
    BY <1>4, <2>1 DEF Private, Held
  <2>3. CASE EncryptKeyStep(c)
    <3>1. \/ EncryptKeyThrows(c) \/ EncryptKeyReturns(c)
          \/ \E i \in Pos, p \in Pass : EncryptKeyClears(c, i, p)
      BY <1>4, <2>3 DEF EncryptKeyStep, Begins
    <3>2. ~EncryptKeyThrows(c)
      BY <2>2 DEF EncryptKeyThrows, Op
    <3>3. ASSUME NEW i \in Pos, NEW p \in Pass, EncryptKeyClears(c, i, p) PROVE FALSE
      <4>1. Op(c) = "encryptKey" /\ Stage(c, i, p) = "encrypted" /\ p \in Args
        BY <3>3, Inclusions DEF EncryptKeyClears, Op, Stage
      <4> QED BY <2>1, <2>2, <4>1 DEF EncryptTasks, Encrypting
    <3> QED BY <3>1, <3>2, <3>3 DEF EncryptKeyReturns
  <2>4. CASE DecryptKeyStep(c)
    <3>1. \/ DecryptKeyThrows(c) \/ DecryptKeyReturns(c)
          \/ \E i \in Pos, p \in Pass : DecryptDerived(c, i, p) \/ DecryptCiphered(c, i, p)
      BY <1>4, <2>4 DEF DecryptKeyStep, Begins
    <3>2. ~DecryptKeyThrows(c)
      BY <2>2 DEF DecryptKeyThrows, Op
    <3>3. ASSUME NEW i \in Pos, NEW p \in Pass, DecryptCiphered(c, i, p) PROVE UNCHANGED packets
      <4>1. Stage(c, i, p) \in {"matched", "wrong"} /\ p \in Args
        BY <3>3, Inclusions DEF DecryptCiphered, Stage
      <4>2. Op(c) = "decryptKey"
        <5>1. OtherTasks(c) /\ Op(c) \in {"none", "revokeKey", "decryptKey"} \cup Encrypting
          BY DEF CallsRight, TypeOK, CallRec, Op, Encrypting, Wrapping
        <5> QED BY <2>1, <4>1, <5>1 DEF EncryptTasks, OtherTasks, AtWork
      <4>3. Stage(c, i, p) # "matched"
        BY <2>1, <2>2, <4>2 DEF LeftOver
      <4> QED BY <3>3, <4>1, <4>3 DEF DecryptCiphered, Stage
    <3> QED BY <3>1, <3>2, <3>3 DEF DecryptKeyReturns, DecryptDerived
  <2> QED BY <2>3, <2>4
<1> QED BY <1>2, <1>3, <1>4

\* encryptKey and decryptKey return a new key and leave the one they were
\* given, and every other key the application holds, as it was.
THEOREM InputsUntouched == Spec => InputUntouched
<1>1. IInv /\ [Next]_vars =>
        [(\E c \in Calls : EncryptKeyStep(c) \/ DecryptKeyStep(c)) =>
           \A h \in Handles : Held(h) => packets'[owner[h]] = packets[owner[h]]]_vars
  BY HeldUntouched
<1> QED BY <1>1, InvariantHolds, PTL DEF Spec, InputUntouched

\* What the packets of a held key keep when encrypt() goes on with them.
LEMMA SecretKeptByPacketStep ==
  ASSUME IInv, NEW c \in Calls, ~Begins(c), PacketStep(c), NEW h \in Handles, NEW i \in Pos, Held(h),
         Recoverable(packets[owner[h]][i]), ~Overlapped(owner[h])
  PROVE  Recoverable(packets'[owner[h]][i])
<1> USE DEF IInv
<1> DEFINE pk == packets[owner[h]][i]
<1>1. PICK j \in Pos, p \in Pass : EncryptDerived(c, j, p) \/ EncryptHashed(c, j, p) \/ EncryptCiphered(c, j, p)
  BY DEF PacketStep
<1>2. /\ Stage(c, j, p) \in AtWork /\ Op(c) # "decryptKey"
      /\ owner[c] \in Handles /\ owner[h] \in Handles /\ pk \in Packet
  <2>1. Stage(c, j, p) \in AtWork /\ Op(c) # "decryptKey"
    BY <1>1 DEF EncryptDerived, EncryptHashed, EncryptCiphered, Stage, Op, AtWork
  <2> QED BY <2>1, SlotsInUse, Inclusions DEF TypeOK, AtWork
<1>3. /\ Op(c) \in Encrypting /\ p = call[c].pass[j] /\ task[c][j][p].salt = c
      /\ SaltUnused(c) /\ EncryptProgress(c) /\ owner[c] # Null
  <2>1. EncryptTasks(c) /\ OtherTasks(c)
    BY DEF CallsRight
  <2>2. Op(c) \in Encrypting
    BY <1>2, <2>1, Inclusions DEF OtherTasks, TypeOK, CallRec, Op, Encrypting, Wrapping, AtWork
  <2> QED BY <1>2, <2>1, <2>2, Inclusions DEF EncryptTasks, PacketsRight, AtWork
<1>4. CASE owner[h] # owner[c] \/ i # j
  <2>1. packets' = packets \/ \E m : Assigns(owner[c], j, m)
    BY <1>1 DEF EncryptDerived, EncryptHashed, EncryptCiphered, Assigns
  <2>2. packets'[owner[h]][i] = packets[owner[h]][i]
    BY <1>2, <1>4, <2>1, PacketAssigned
  <2> QED BY <2>2
<1>5. CASE owner[h] = owner[c] /\ i = j
  <2>1. pk = Pk(c, j)
    BY <1>5 DEF Pk
  <2>2. pk.privateParams = "live"
    <3> SUFFICES ASSUME pk.privateParams # "live" PROVE FALSE
      OBVIOUS
    <3>1. PICK q \in Pass : pk.kind = "normal" /\ Opens(pk, q)
      BY DEF Recoverable
    <3>2. pk.salt = c
      BY <1>2, <1>3, <1>5, <2>1, <3>1 DEF EncryptProgress, isDummy, Salted, Seeded, AtWork
    <3>3. pk.keyMaterial = Enc(q, c, pk.iv) /\ pk.iv \in Handles
      BY <1>2, <3>1, <3>2 DEF Opens, Packet
    <3> QED BY <1>2, <1>3, <2>1, <3>3 DEF SaltUnused
  <2>3. CASE EncryptDerived(c, j, p)
    <3>1. Assigns(owner[c], j, Derived(pk, c))
      BY <2>1, <2>3 DEF EncryptDerived, Assigns, Pk
    <3>2. packets'[owner[h]][i] = Derived(pk, c)
      BY <1>2, <1>5, <3>1, PacketAssigned
    <3> QED BY <1>2, <2>2, <3>2, PacketFields DEF Recoverable
  <2>4. CASE EncryptCiphered(c, j, p)
    <3> DEFINE m == Enc(p, task[c][j][p].salt, task[c][j][p].iv)
    <3>1. Assigns(owner[c], j, Holding(pk, m))
      BY <2>1, <2>4 DEF EncryptCiphered, Assigns, Pk
    <3> HIDE DEF m
    <3>2. packets'[owner[h]][i] = Holding(pk, m)
      BY <1>2, <1>5, <3>1, PacketAssigned
    <3> QED BY <1>2, <2>2, <3>2, PacketFields DEF Recoverable
  <2>5. CASE EncryptHashed(c, j, p)
    BY <2>5 DEF EncryptHashed
  <2> QED BY <1>1, <2>3, <2>4, <2>5
<1> QED BY <1>4, <1>5

\* ... and when wrapKeyObject does.
LEMMA SecretKeptByWrapStep ==
  ASSUME IInv, NEW c \in Calls, ~Begins(c), WrapStep(c), NEW h \in Handles, NEW i \in Pos, Held(h),
         Recoverable(packets[owner[h]][i]), ~Overlapped(owner[h])
  PROVE  Recoverable(packets'[owner[h]][i])
<1> USE DEF IInv
<1> DEFINE pk == packets[owner[h]][i]
           new == packets'[owner[h]][i]
<1>1. \/ WrapPrimary(c) \/ WrapSubkeys(c) \/ WrapSign(c) \/ WrapSigned(c) \/ WrapThrows(c) \/ WrapReturns(c)
  BY DEF WrapStep, Begins
<1>2. owner[h] \in Handles /\ pk \in Packet /\ FlagMatches(pk)
  BY SlotTypes DEF TypeOK, FlagsMatch
<1>3. CASE owner[h] # owner[c]
  <2>1. packets'[owner[h]] = packets[owner[h]]
    BY <1>2, <1>3, TurnEffect
  <2> QED BY <2>1
<1>4. ASSUME owner[h] = owner[c], NEW S \in SUBSET Pos, NEW next, WrapEncrypts(c, S, next)
      PROVE  Recoverable(new)
  <2>1. new \in {pk, EncryptPrologue(pk, call[c].pass[i], c)}
    <3>1. packets'[owner[c]] = [j \in Pos |->
             IF j \in {k \in S : call[c].pass[k] # NoPass}
             THEN EncryptPrologue(packets[owner[c]][j], call[c].pass[j], c) ELSE packets[owner[c]][j]]
      BY <1>2, <1>4 DEF WrapEncrypts, TypeOK
    <3> QED BY <1>4, <3>1
  <2>2. CASE new = pk
    BY <2>2
  <2>3. CASE new # pk /\ new = EncryptPrologue(pk, call[c].pass[i], c)
    <3>1. isDecrypted(pk) /\ new = [pk EXCEPT !.salt = c]
      BY <2>3 DEF EncryptPrologue, EncryptStarts
    <3>2. new.privateParams = "live"
      BY <1>2, <3>1, PacketFields DEF FlagMatches
    <3> QED BY <3>2 DEF Recoverable
  <2> QED BY <2>1, <2>2, <2>3
<1>5. CASE owner[h] = owner[c] /\ WrapReturns(c)
  <2>1. /\ status[c] = "signed" /\ Running(c) /\ owner[c] # Null
        /\ WrapTasks(c) /\ PhaseRight(c) /\ EncryptProgress(c)
    BY <1>5 DEF WrapReturns, CallsRight, PacketsRight, Running, TypeOK
  <2>2. \/ new = pk
        \/ /\ call[c].pass[i] # NoPass /\ ~isMissingSecretKeyMaterial(pk)
           /\ new = Cleared(pk)
    <3> DEFINE locks(k) == call[c].pass[k] # NoPass /\ ~isMissingSecretKeyMaterial(packets[owner[c]][k])
               stuck(k) == locks(k) /\ packets[owner[c]][k].privateParams = "null"
    <3>1. packets'[owner[c]] = [k \in Pos |->
             IF locks(k) /\ ~stuck(k) /\ ~stuck(Primary)
             THEN Cleared(packets[owner[c]][k]) ELSE packets[owner[c]][k]]
      BY <1>2, <1>5 DEF WrapReturns, TypeOK
    <3> QED BY <1>5, <3>1
  <2>3. CASE call[c].pass[i] # NoPass /\ ~isMissingSecretKeyMaterial(pk) /\ new = Cleared(pk)
    <3> DEFINE p == call[c].pass[i]
    <3>1. p \in Pass /\ p \in Args
      BY <2>3, Inclusions DEF TypeOK, CallRec
    <3>2. Op(c) \in Wrapping
      BY <2>1 DEF PhaseRight
    <3>3. Stage(c, i, p) = "encrypted"
      BY <2>1, <2>3, <3>1, <3>2 DEF WrapTasks
    <3>4. Sealed(pk, c, p)
      BY <1>5, <2>1, <2>3, <3>1, <3>2, <3>3 DEF EncryptProgress, Encrypting, Pk, isDummy, isMissingSecretKeyMaterial
    <3>5. /\ new.kind = "normal" /\ new.isEncrypted = "true" /\ new.s2kUsage \in Protected
          /\ new.keyMaterial = Enc(p, new.salt, new.iv)
      BY <1>2, <2>3, <3>4, PacketFields DEF Sealed, Seeded, Salted
    <3> QED BY <3>1, <3>5 DEF Recoverable, Opens, Protected
  <2> QED BY <2>2, <2>3
<1>6. CASE WrapSign(c) \/ WrapSigned(c) \/ WrapThrows(c)
  BY <1>6 DEF WrapSign, WrapSigned, WrapThrows
<1> QED BY <1>1, <1>3, <1>4, <1>5, <1>6, PrimaryAssumption DEF WrapPrimary, WrapSubkeys

\* The secret of a packet of a held key, in any step but the two that are
\* meant to destroy it.
LEMMA SecretStays ==
  ASSUME IInv, [Next]_vars, ~Destroy, NEW h \in Handles, NEW i \in Pos, Held(h),
         Recoverable(packets[owner[h]][i])
  PROVE  Recoverable(packets'[owner'[h]][i]) \/ Overlapped(owner[h])'
<1> USE DEF IInv
<1>1. owner[h] \in Handles
  BY SlotTypes
<1>2. ASSUME NEW c \in Calls, Begins(c) PROVE Recoverable(packets'[owner'[h]][i])
  <2>1. /\ \A s \in Handles : s # c => owner'[s] = owner[s] /\ packets'[s] = packets[s]
        /\ status[c] = "unused" /\ owner[h] # c
    BY <1>2, BeginFrame
  <2>2. h # c
    BY <2>1, Inclusions DEF Held
  <2> QED BY <1>1, <2>1, <2>2
<1>3. ASSUME NEW c \in Calls, ~Begins(c),
             EncryptKeyStep(c) \/ DecryptKeyStep(c) \/ PacketStep(c) \/ WrapStep(c)
      PROVE  Recoverable(packets'[owner'[h]][i]) \/ Overlapped(owner[h])'
  <2>1. owner' = owner /\ (Overlapped(owner[h])' <=> Overlapped(owner[h]))
    BY <1>3, TurnFrame DEF Overlapped
  <2>2. CASE EncryptKeyStep(c) \/ DecryptKeyStep(c)
    BY <2>1, <2>2, HeldUntouched
  <2>3. CASE PacketStep(c)
    BY <1>3, <2>1, <2>3, SecretKeptByPacketStep
  <2>4. CASE WrapStep(c)
    BY <1>3, <2>1, <2>4, SecretKeptByWrapStep
  <2> QED BY <1>3, <2>2, <2>3, <2>4
<1>4. ASSUME NEW s \in Handles, NEW j \in Pos, Write(s, j) PROVE Recoverable(packets'[owner'[h]][i])
  <2> DEFINE pk == packets[owner[s]][j]
  <2>1. /\ Assigns(owner[s], j, Holding(pk, Clear)) /\ owner' = owner
        /\ pk.privateParams = "live" /\ owner[s] \in Handles /\ pk \in Packet
    BY <1>4, SlotTypes DEF Write, Assigns, TypeOK
  <2>2. packets'[owner[h]][i] = IF owner[h] = owner[s] /\ i = j THEN Holding(pk, Clear) ELSE packets[owner[h]][i]
    BY <1>1, <2>1, PacketAssigned
  <2>3. Holding(pk, Clear).privateParams = "live"
    BY <2>1, PacketFields
  <2> QED BY <2>1, <2>2, <2>3 DEF Recoverable
<1>5. CASE UNCHANGED vars
  BY <1>5 DEF vars
<1>6. CASE \E c \in Calls, s \in Handles : RevokeKey(c, s)
  BY <1>2, <1>6 DEF Begins
<1> QED BY <1>2, <1>3, <1>4, <1>5, <1>6 DEF Next, UserStep

\* When decryptKey resolves, it has decrypted every packet.
LEMMA ReturnedUsable ==
  ASSUME IInv, [Next]_vars, NEW c \in Calls, Op(c) = "decryptKey", status[c] = "packets",
         status'[c] = "returned", NEW i \in Pos
  PROVE  isDummy(packets'[owner'[c]][i]) \/ packets'[owner'[c]][i].privateParams = "live"
<1> USE DEF IInv
<1>1. \A d \in Calls : Begins(d) => status'[c] = status[c]
  BY BeginFrame
<1>2. \A d \in Calls : /\ ~Begins(d)
                       /\ EncryptKeyStep(d) \/ DecryptKeyStep(d) \/ PacketStep(d) \/ WrapStep(d)
                       => d = c
  BY TurnFrame
<1>3. CASE UserStep /\ ~\E d \in Calls : Begins(d)
  BY <1>3, UserEffect
<1>4. CASE ~Begins(c) /\ (EncryptKeyStep(c) \/ PacketStep(c) \/ WrapStep(c))
  <2>1. PhaseRight(c)
    BY DEF CallsRight
  <2>2. ~EncryptKeyThrows(c) /\ ~EncryptKeyReturns(c)
    BY DEF EncryptKeyThrows, EncryptKeyReturns, Op
  <2>3. /\ ~WrapPrimary(c) /\ ~WrapSubkeys(c) /\ ~WrapSign(c) /\ ~WrapSigned(c)
        /\ ~WrapThrows(c) /\ ~WrapReturns(c)
    BY DEF WrapPrimary, WrapSubkeys, WrapSign, WrapSigned, WrapThrows, WrapReturns
  <2> QED BY <1>4, <2>2, <2>3 DEF EncryptKeyStep, PacketStep, WrapStep, Begins,
             EncryptKeyClears, EncryptDerived, EncryptHashed, EncryptCiphered
<1>5. CASE ~Begins(c) /\ DecryptKeyStep(c)
  <2>1. DecryptKeyReturns(c)
    BY <1>5 DEF DecryptKeyStep, Begins, DecryptKeyThrows, DecryptDerived, DecryptCiphered, TypeOK
  <2>2. PICK p \in Pass : Stage(c, i, p) = "done"
    BY <2>1 DEF DecryptKeyReturns, Unlocked, Stage
  <2>3. isDummy(Pk(c, i)) \/ Pk(c, i).privateParams = "live"
    BY <2>2 DEF PacketsRight, DecryptProgress
  <2> QED BY <2>1, <2>3 DEF DecryptKeyReturns, Pk
<1>6. CASE UNCHANGED vars
  BY <1>6 DEF vars
<1> QED BY <1>1, <1>2, <1>3, <1>4, <1>5, <1>6 DEF Next

\* No call loses the secret of a key the application holds, wherever it fails
\* and whatever runs beside it, except reformatKey calls that overlap on that
\* key; and a key that decryptKey returns can be used.
THEOREM SecretsStay == Spec => SecretsKept
<1> DEFINE A == /\ \/ Destroy
                   \/ \A h \in Handles, i \in Pos :
                        Held(h) /\ Recoverable(packets[owner[h]][i]) =>
                          Recoverable(packets'[owner'[h]][i]) \/ Overlapped(owner[h])'
                /\ \A c \in Calls : call[c].op = "decryptKey" /\ status[c] = "packets" /\ status'[c] = "returned" =>
                     \A i \in Pos : isDummy(packets'[owner'[c]][i]) \/ packets'[owner'[c]][i].privateParams = "live"
<1>1. IInv /\ [Next]_vars => A
  BY SecretStays, ReturnedUsable DEF Op
<1>2. IInv /\ [Next]_vars => [A]_vars
  BY <1>1
<1> QED BY <1>2, InvariantHolds, PTL DEF Spec, SecretsKept
=============================================================================
