---- MODULE MCSessionKeys ----
(* Instances of SessionKeys for TLC. *)
EXTENDS SessionKeys, TLC

CONSTANTS s1, s2, p1, p2

\* Two different passwords, and one alone.
TwoPasswords == (s1 :> p1) @@ (s2 :> p2)
OnePassword  == s1 :> p1
NoPasswords  == [s \in {} |-> p1]

Symmetry == Permutations(Calls) \cup Permutations(Keys)
====
