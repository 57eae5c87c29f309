---------------------------- MODULE MCKeyUpdate ----------------------------
(***************************************************************************)
(* Instances of KeyUpdate for TLC.  Two valid signatures of different age, *)
(* an expired one, one by another key and a newer one by the same key that *)
(* does not verify.                                                        *)
(***************************************************************************)
EXTENDS KeyUpdate, TLC
CONSTANTS early, late, old, other, forged

MCAge == [s \in Sigs |-> CASE s = early -> 1 [] s = late -> 2 [] s = old -> 0 [] s = other -> 3 [] OTHER -> 4]

Alice == <<"alice">>
TwoAlices == <<"alice", "alice">>
TwoSubs == <<"sub", "sub">>
SubsAndNew == <<"sub", "sub", "sub2">>

UpTo(kind, attr, n) == [of |-> {"src", "dst"}, ns |-> {1, 2}, kind |-> kind, attr |-> attr, max |-> n]
OnEach == {{[UpTo("user", "selfCertifications", 2) EXCEPT !.of = {"src"}, !.ns = {1}],
            [UpTo("user", "selfCertifications", 1) EXCEPT !.of = {"src"}, !.ns = {2}],
            [UpTo("user", "selfCertifications", 1) EXCEPT !.of = {"dst"}]},
           {[UpTo("subkey", "bindingSignatures", 1) EXCEPT !.of = {"src"}],
            [UpTo("subkey", "bindingSignatures", 1) EXCEPT !.of = {"dst"}, !.ns = {2}]},
           {[UpTo("subkey", "bindingSignatures", 2) EXCEPT !.ns = {1}]},
           {UpTo("key", "directSignatures", 2)},
           {UpTo("user", "revocationSignatures", 1)},
           {[UpTo("subkey", "revocationSignatures", 1) EXCEPT !.ns = {1, 3}]}}
=============================================================================
