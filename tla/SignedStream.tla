---------------------------- MODULE SignedStream ----------------------------
(***************************************************************************)
(* What openpgp.verify promises of a message that is still arriving: the   *)
(* application is given its data chunk by chunk and one verdict on each    *)
(* signature, and nothing it was told is ever taken back.  The data end,   *)
(* rather than fail, only if they are all there and nothing that came with *)
(* them was broken; a signature counts as verified only once all the data  *)
(* were given out; and where a signature was demanded, the data do not end *)
(* before one has verified.                                                *)
(***************************************************************************)
EXTENDS Naturals

VARIABLES origin,  \* what was sent, a record that never changes: the `size' of
                   \* the data, whether what the data depend on is `sound', the positions that
                   \* hold a `good' signature, whether the data may end early
                   \* (`loose'), and whether a signature is `demanded'
          status,  \* "idle", "refused", "open", "closed" or "errored"
          given,   \* chunks of data given out
          verdict  \* one for each signature, once there is a result

vars == <<origin, status, given, verdict>>

Init ==
    /\ status = "idle"
    /\ given = 0
    /\ verdict = <<>>

Refuse ==
    /\ status = "idle"
    /\ status' = "refused"
    /\ UNCHANGED <<origin, given, verdict>>

Open ==
    /\ status = "idle"
    /\ status' = "open"
    /\ verdict' = [i \in DOMAIN verdict' |-> "pending"]
    /\ origin.demanded => DOMAIN verdict' # {}
    /\ UNCHANGED <<origin, given>>

Give ==
    /\ status = "open"
    /\ given < origin.size
    /\ given' = given + 1
    /\ UNCHANGED <<origin, status, verdict>>

MayClose ==
    /\ origin.sound
    /\ origin.loose \/ given = origin.size
    /\ origin.demanded => \E i \in DOMAIN verdict' : verdict'[i] = "true"

(* A step at which the data may also end or fail.                          *)
MayEnd ==
    \/ status' = status
    \/ status = "open" /\ status' = "errored"
    \/ status = "open" /\ status' = "closed" /\ MayClose

End ==
    /\ MayEnd
    /\ UNCHANGED <<origin, given, verdict>>

Judge(i) ==
    /\ verdict[i] = "pending"
    /\ \/ verdict' = [verdict EXCEPT ![i] = "rejected"]
       \/ /\ verdict' = [verdict EXCEPT ![i] = "true"]
          /\ i \in origin.good /\ given = origin.size
    /\ MayEnd
    /\ UNCHANGED <<origin, given>>

Next == Refuse \/ Open \/ Give \/ End \/ \E i \in DOMAIN verdict : Judge(i)

Safety == Init /\ [][Next]_vars
=============================================================================
