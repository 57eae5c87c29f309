------------------------ MODULE SessionKeysInvariant ------------------------
(***************************************************************************)
(* The inductive invariants behind PlainOnlyWithSecret and                 *)
(* RightSecretDecrypts of SessionKeys: what a call may still do at each    *)
(* stage, which calls can have used up the ciphertext or a PKESK, and how  *)
(* far a call with the right secret is unless another has forestalled it.  *)
(* Only PlainFrom needs that calls do not overlap.                         *)
(***************************************************************************)
EXTENDS SessionKeys

Busy(c) == call[c].at \notin {"unused", "returned", "threw"}
-----------------------------------------------------------------------------
\* No slot was encrypted again without its password.
EncRight == \A s \in Slots :
  /\ enc[s].at = "encrypt" /\ enc[s].tries = 0 => enc[s].arg = Password[s]
  /\ enc[s].at \in {"encrypt", "test"} /\ enc[s].tries > 0 => AeadProtect
  /\ enc[s].at \in {"test", "done"} => enc[s].tries > 0 /\ skesk[s].under = Password[s]

\* What a call has left to do at each of its stages.
Stages(c) ==
  /\ call[c].at = "unused" => call[c] = NoCall
  /\ call[c].keys # {} \/ call[c].locked # {} => call[c].by = "keys"
  /\ call[c].at \in {"esk", "found"} => call[c].by \in {"passwords", "keys"}
  /\ call[c].skesks # {} => call[c].at = "esk" /\ call[c].by = "passwords"
  /\ call[c].todo # {} \/ call[c].open # {} => call[c].at \in {"esk", "threw"} /\ call[c].by = "keys"
  /\ call[c].trying # {} => call[c].at = "await"
  /\ call[c].trying \subseteq call[c].candidates
  /\ call[c].at \in {"data", "await"} =>
       call[c].api = "decrypt" /\ (call[c].by # "sessionKeys" => call[c].candidates # {})

\* The attempts on PKESKs that a call has left: all on packets that it has not
\* finished with, unless one was refused; and those with a locked key.
Attempts(c) == call[c].by = "keys" =>
  /\ call[c].at # "threw" => \A k \in Keys, x \in Recipients :
       <<k, x>> \in call[c].todo => k \in call[c].open /\ x \in call[c].keys
  /\ \A k \in call[c].open, x \in call[c].locked : Fits(k, x) => <<k, x>> \in call[c].todo
  /\ call[c].at # "threw" => \A k \in Keys \ call[c].open : ~LockedOut(c, k)

\* If calls do not overlap, one at a time is busy, and it has the plaintext.
OneBusy   == Overlapping \/ \A c, d \in Calls : Busy(c) /\ Busy(d) => c = d
PlainFrom == /\ sym.packets = "plain" => \E c \in Calls : call[c].at = "await" /\ "real" \in call[c].candidates
             /\ PlainOnlyWithSecret

CallsRight == /\ OneBusy
              /\ \A c \in Calls : Stages(c) /\ Attempts(c)
-----------------------------------------------------------------------------
\* The ciphertext and the PKESKs are gone only because some call came so far.
UsedUp == /\ ~sym.encrypted => \E d \in Calls : Consumer(d)
          /\ \A k \in Keys : ~pkesk[k] => \E d \in Calls : Dropper(d, k)

\* What the first password has found on the message's own packets is there,
\* unless a wrong one of an overlapping call has opened the packet by accident.
HitsRight(c) == call[c].at \in {"esk", "found"} => \A s \in call[c].hits :
  skesk[s].under = call[c].first =>
    skesk[s].sessionKey = "real" \/ (Overlapping /\ \E d \in Calls \ {c} : Overwriter(d))

\* A call with the right secret that was not forestalled has the real session
\* key in its hands, or still to come, and never throws.
InHand(c) ==
  /\ call[c].at # "threw"
  /\ call[c].at \in {"esk", "found"} /\ call[c].by = "passwords" =>
       \/ "real" \in call[c].candidates
       \/ \E s \in Slots : skesk[s].under = call[c].first /\ s \in call[c].skesks \cup call[c].hits
  /\ call[c].at \in {"esk", "found"} /\ call[c].by = "keys" => \A k \in Keys \cap call[c].keys :
       <<k, k>> \in call[c].todo \/ "real" \in call[c].candidates
  /\ call[c].at \in {"data", "await"} => "real" \in call[c].candidates
  /\ call[c].at = "await" => "real" \in call[c].trying \/ sym.packets = "plain"
Progress(c) == call[c].at # "unused" /\ RightSecret(call[c]) /\ ~Forestalled(c) => InHand(c)

SecretsRight == /\ UsedUp
                /\ \A c \in Calls : HitsRight(c) /\ Progress(c)
=============================================================================
