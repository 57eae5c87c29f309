------------------------ MODULE AuthenticatedStream ------------------------
(***************************************************************************)
(* What an encrypted data packet promises to whoever reads its plaintext   *)
(* as a stream: the reader is given a prefix of what the sender wrote, and *)
(* the stream ends (rather than fails) only if it was given all of it.     *)
(* `early' is the one licence: config.allowUnauthenticatedStream lets data *)
(* out before they are authenticated, so that only the end is trustworthy. *)
(***************************************************************************)
EXTENDS Sequences, SequencesExt

VARIABLES plain,     \* what the sender wrote; it never changes
          early,     \* data may be released before they are authenticated
          released,  \* what the reader was given so far
          status     \* "idle", "open", "closed" or "failed"

vars == <<plain, early, released, status>>

Init ==
    /\ released = <<>>
    /\ status = "idle"

(* The message has arrived, or has begun to.                               *)
Open ==
    /\ status = "idle"
    /\ status' = "open"
    /\ UNCHANGED <<plain, early, released>>

Release ==
    /\ status = "open"
    /\ IsPrefix(released, released')
    /\ early \/ IsPrefix(released', plain)
    /\ UNCHANGED <<plain, early, status>>

(* A stream that is held back until it is authenticated releases           *)
(* everything and closes in one step.                                      *)
Close ==
    /\ status = "open"
    /\ IsPrefix(released, released')
    /\ released' = plain
    /\ status' = "closed"
    /\ UNCHANGED <<plain, early>>

Fail ==
    /\ status \in {"idle", "open"}
    /\ status' = "failed"
    /\ UNCHANGED <<plain, early, released>>

Next == Open \/ Release \/ Close \/ Fail

Safety == Init /\ [][Next]_vars

(* The reader does not wait for ever.                                      *)
Ends == status = "open" ~> status \in {"closed", "failed"}
============================================================================
